---------------------------- MODULE TimerService ----------------------------
(***************************************************************************)
(* What the scheduler promises its callers, without threads or queues: an   *)
(* event is pending until it is stopped or fires, it never fires before it  *)
(* is due, never fires once it was stopped and fires at most once; and when *)
(* it is due and nobody stops it, it does fire.                             *)
(***************************************************************************)
EXTENDS Integers

CONSTANTS Event

VARIABLES pending, fired, stopped, due, now

vars == <<pending, fired, stopped, due, now>>

Init ==
  /\ pending = {}
  /\ fired = {}
  /\ stopped = {}
  /\ due = [e \in Event |-> 0]
  /\ now \in Nat

Fresh(e) == e \notin pending \cup fired \cup stopped

Schedule(e) ==
  /\ Fresh(e)
  /\ pending' = pending \cup {e}
  /\ due' = [due EXCEPT ![e] = due'[e]]
  /\ due'[e] >= now
  /\ UNCHANGED <<fired, stopped, now>>

Stop(e) ==
  /\ e \in pending
  /\ pending' = pending \ {e}
  /\ stopped' = stopped \cup {e}
  /\ UNCHANGED <<fired, due, now>>

Fire(e) ==
  /\ e \in pending
  /\ due[e] <= now
  /\ pending' = pending \ {e}
  /\ fired' = fired \cup {e}
  /\ UNCHANGED <<stopped, due, now>>

Tick ==
  /\ now' = now + 1
  /\ UNCHANGED <<pending, fired, stopped, due>>

Next ==
  \/ \E e \in Event : Schedule(e) \/ Stop(e) \/ Fire(e)
  \/ Tick

Safety == Init /\ [][Next]_vars

Spec == Safety /\ \A e \in Event : WF_vars(Fire(e))

=============================================================================
