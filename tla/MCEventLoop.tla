---------------------------- MODULE MCEventLoop -----------------------------
(* The instance of EventLoop for TLC (MCEventLoop.cfg): two tasks, which can *)
(* be swapped, and two events, one of which can become due while the thread *)
(* sleeps for the other.                                                    *)
EXTENDS EventLoop

=============================================================================
