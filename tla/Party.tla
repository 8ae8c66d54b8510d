------------------------------- MODULE Party --------------------------------
(***************************************************************************)
(* Parties (party.cpp), what players know of them (player.cpp), the handlers *)
(* of game.cpp that use them, and the chat channels of parties (chat.cpp).   *)
(* Everything happens in tasks of the dispatcher, so a handler is one step;  *)
(* what can go wrong is that the pointers parties and players have to each   *)
(* other come to disagree over a history of such steps.                      *)
(*                                                                           *)
(* A party is known by the address of its object, which may be used again    *)
(* after "delete this"; the map of channels has such addresses for its keys. *)
(* `world` holds all these objects.  The functions of the code that change   *)
(* them are operators from a world to a world, and call each other as the    *)
(* functions do.  The scripts for onJoin, onLeave and onDisband are not      *)
(* enabled (data/events/events.xml), so no event refuses a step.             *)
(***************************************************************************)
EXTENDS Naturals, FiniteSets, SequencesExt

CONSTANTS
  Player,       \* the players, each a Player object while it is online
  Address,      \* the addresses of Party objects
  Exempt,       \* players with PlayerFlag_NotGainInFight
  Nobody,       \* nullptr as a leader: the address is free
  NoParty       \* nullptr as a player's party

ASSUME PartyAssumption ==
  /\ Exempt \subseteq Player
  /\ Nobody \notin Player
  /\ NoParty \notin Address

VARIABLES online, world

vars == <<online, world>>

World ==
  [party       : [Player -> Address \cup {NoParty}],    \* Player::party
   invitations : [Player -> SUBSET Address],            \* Player::invitePartyList
   leader      : [Address -> Player \cup {Nobody}],
   members     : [Address -> Seq(Player)],              \* Party::memberList
   invitees    : [Address -> SUBSET Player],            \* Party::inviteList
   ticks       : [Address -> SUBSET Player],            \* the keys of Party::ticksMap
   active      : [Address -> BOOLEAN],                  \* sharedExpActive
   enabled     : [Address -> BOOLEAN],                  \* sharedExpEnabled
   channels    : SUBSET Address,             \* the keys of Chat::partyChannels
   users       : [Address -> SUBSET Player]]            \* ChatChannel::users

Init ==
  /\ online = {}
  /\ world = [party       |-> [p \in Player |-> NoParty],
              invitations |-> [p \in Player |-> {}],
              leader      |-> [q \in Address |-> Nobody],
              members     |-> [q \in Address |-> <<>>],
              invitees    |-> [q \in Address |-> {}],
              ticks       |-> [q \in Address |-> {}],
              active      |-> [q \in Address |-> FALSE],
              enabled     |-> [q \in Address |-> FALSE],
              channels    |-> {},
              users       |-> [q \in Address |-> {}]]

Companions(w, q) == ToSet(w.members[q]) \cup ({w.leader[q]} \ {Nobody})

IsEmpty(w, q) == w.members[q] = <<>> /\ w.invitees[q] = {}

IsInviting(w, p, x) ==
  /\ w.party[p] # NoParty
  /\ w.leader[w.party[p]] = p
  /\ x \in w.invitees[w.party[p]]

-----------------------------------------------------------------------------
(* Chat::removeUserFromChannel for the players of S, which Player's          *)
(* sendClosePrivate calls: the channel is looked up through the player.      *)
ClosePrivate(w, S) ==
  [w EXCEPT !.users = [q \in Address |-> @[q] \ {p \in S : w.party[p] = q}]]

-----------------------------------------------------------------------------
(* Shared experience.  Levels, distances and the age of the ticks are not    *)
(* modelled: `fit` says whether they let everybody share at this moment.     *)

CanEnableSharedExperience(w, q, fit) ==
  /\ w.members[q] # <<>>
  /\ Companions(w, q) \ Exempt \subseteq w.ticks[q]
  /\ fit

UpdateSharedExperience(w, q, fit) ==
  [w EXCEPT !.enabled[q] =
     IF w.active[q] THEN CanEnableSharedExperience(w, q, fit) ELSE @]

SetSharedExperience(w, p, q, on, fit) ==
  IF w.leader[q] # p \/ w.active[q] = on THEN w
  ELSE [w EXCEPT
          !.active[q] = on,
          !.enabled[q] = IF on THEN CanEnableSharedExperience(w, q, fit) ELSE @]

UpdatePlayerTicks(w, p, q, fit) ==
  IF p \in Exempt THEN w
  ELSE UpdateSharedExperience([w EXCEPT !.ticks[q] = @ \cup {p}], q, fit)

(* Mutant: the departing player's entry stays.                               *)
ClearPlayerPointsMutKeep(w, p, q, fit) == w

ClearPlayerPoints(w, p, q, fit) ==
  IF p \notin w.ticks[q] THEN w
  ELSE UpdateSharedExperience([w EXCEPT !.ticks[q] = @ \ {p}], q, fit)

-----------------------------------------------------------------------------
(* The functions of Party that change who is in it.                          *)

(* The objects of the parties in D are deleted: their addresses are free.    *)
Delete(w, D) ==
  LET Reset(f, value) == [q \in Address |-> IF q \in D THEN value ELSE f[q]]
  IN  [w EXCEPT !.leader = Reset(@, Nobody), !.members = Reset(@, <<>>),
                !.invitees = Reset(@, {}), !.ticks = Reset(@, {}),
                !.active = Reset(@, FALSE), !.enabled = Reset(@, FALSE)]

(* Mutants of Disband: the invitees are not told; only the leader is.        *)
DisbandMutInvitees(w, D) ==
  LET freed == UNION {Companions(w, q) : q \in D}
  IN  Delete([w EXCEPT !.party = [p \in Player |->
                IF p \in freed THEN NoParty ELSE @[p]]], D)

DisbandMutMembers(w, D) ==
  LET w1 == [w EXCEPT !.invitations = [p \in Player |->
               @[p] \ {q \in D : p \in w.invitees[q]}]]
  IN  Delete([w1 EXCEPT !.party = [p \in Player |->
                IF \E q \in D : p = w.leader[q] THEN NoParty ELSE @[p]]], D)

(* The parties in D are disbanded.  The leader and the members lose their    *)
(* party before their channel is closed.                                     *)
Disband(w, D) ==
  LET freed == UNION {Companions(w, q) : q \in D}
      w1 == [w EXCEPT
               !.party = [p \in Player |-> IF p \in freed THEN NoParty ELSE @[p]],
               !.invitations = [p \in Player |->
                 @[p] \ {q \in D : p \in w.invitees[q]}]]
  IN  Delete(ClosePrivate(w1, freed), D)

PassPartyLeadership(w, p, q, fit) ==
  IF w.leader[q] = p \/ w.party[p] # q THEN w
  ELSE UpdateSharedExperience(
         [w EXCEPT !.members[q] = <<w.leader[q]>> \o RemoveFirst(@, p),
                   !.leader[q] = p], q, fit)

(* Mutants of LeaveParty: a party is not disbanded when its last member      *)
(* leaves; it is disbanded whenever its leader leaves.                       *)
LeavePartyMutLonely(w, p, q, fit) ==
  LET leads == w.leader[q] = p
      missingLeader == leads /\ ( \/ w.members[q] = <<>>
                                  \/ Len(w.members[q]) = 1 /\ w.invitees[q] = {} )
      w1 == IF leads /\ ~missingLeader
            THEN PassPartyLeadership(w, Head(w.members[q]), q, fit) ELSE w
      w2 == [w1 EXCEPT !.members[q] = RemoveFirst(@, p), !.party[p] = NoParty]
      w3 == ClearPlayerPoints(UpdateSharedExperience(w2, q, fit), p, q, fit)
  IN  IF missingLeader THEN Disband(w3, {q}) ELSE w3

LeavePartyMutDisband(w, p, q, fit) ==
  LET w2 == [w EXCEPT !.members[q] = RemoveFirst(@, p), !.party[p] = NoParty]
      w3 == ClearPlayerPoints(UpdateSharedExperience(w2, q, fit), p, q, fit)
  IN  IF w.leader[q] = p \/ IsEmpty(w3, q) THEN Disband(w3, {q}) ELSE w3

LeaveParty(w, p, q, fit) ==
  LET leads == w.leader[q] = p
      missingLeader == leads /\ ( \/ w.members[q] = <<>>
                                  \/ Len(w.members[q]) = 1 /\ w.invitees[q] = {} )
      w1 == IF leads /\ ~missingLeader
            THEN PassPartyLeadership(w, Head(w.members[q]), q, fit) ELSE w
      w2 == [w1 EXCEPT !.members[q] = RemoveFirst(@, p), !.party[p] = NoParty]
      w3 == UpdateSharedExperience(ClosePrivate(w2, {p}), q, fit)
      w4 == ClearPlayerPoints(w3, p, q, fit)
  IN  IF w.party[p] # q /\ ~leads THEN w
      ELSE IF missingLeader \/ IsEmpty(w4, q) THEN Disband(w4, {q}) ELSE w4

JoinParty(w, p, q, fit) ==
  IF p \notin w.invitees[q] THEN w
  ELSE UpdateSharedExperience(
         [w EXCEPT !.invitees[q] = @ \ {p}, !.party[p] = q,
                   !.members[q] = Append(@, p), !.invitations[p] = @ \ {q}],
         q, fit)

(* The invitations of p to the parties in Q are withdrawn; fromPlayer says   *)
(* whether the player's own list is changed here.                            *)
RemoveInvites(w, p, Q, fromPlayer) ==
  LET found == {q \in Q : p \in w.invitees[q]}
      w1 == [w EXCEPT
               !.invitees = [q \in Address |-> IF q \in found THEN @[q] \ {p} ELSE @[q]],
               !.invitations[p] = IF fromPlayer THEN @ \ found ELSE @]
  IN  Disband(w1, {q \in found : IsEmpty(w1, q)})

InviteToParty(w, p, q) ==
  IF p \in w.invitees[q] THEN w
  ELSE [w EXCEPT !.invitees[q] = @ \cup {p}, !.invitations[p] = @ \cup {q}]

NewParty(w, p, q) == [w EXCEPT !.leader[q] = p, !.party[p] = q]

-----------------------------------------------------------------------------
(* The handlers of game.cpp.                                                 *)

PlayerInviteToParty(p, x) ==
  /\ p # x
  /\ {p, x} \subseteq online
  /\ ~IsInviting(world, x, p)
  /\ world.party[x] = NoParty
  /\ \/ /\ world.party[p] = NoParty
        /\ \E q \in Address :
             /\ world.leader[q] = Nobody
             /\ world' = InviteToParty(NewParty(world, p, q), x, q)
     \/ /\ world.party[p] # NoParty
        /\ world.leader[world.party[p]] = p
        /\ world' = InviteToParty(world, x, world.party[p])
  /\ UNCHANGED online

PlayerJoinParty(p, x) ==
  /\ {p, x} \subseteq online
  /\ IsInviting(world, x, p)
  /\ world.party[p] = NoParty
  /\ \E fit \in BOOLEAN : world' = JoinParty(world, p, world.party[x], fit)
  /\ UNCHANGED online

PlayerRevokePartyInvitation(p, x) ==
  /\ {p, x} \subseteq online
  /\ IsInviting(world, p, x)
  /\ world' = RemoveInvites(world, x, {world.party[p]}, TRUE)
  /\ UNCHANGED online

PlayerPassPartyLeadership(p, x) ==
  /\ p # x
  /\ {p, x} \subseteq online
  /\ world.party[p] # NoParty
  /\ world.leader[world.party[p]] = p
  /\ world.party[x] = world.party[p]
  /\ \E fit \in BOOLEAN :
       world' = PassPartyLeadership(world, x, world.party[p], fit)
  /\ UNCHANGED online

(* A player in a fight may not leave; whether it is in one is left open.     *)
PlayerLeaveParty(p) ==
  /\ p \in online
  /\ world.party[p] # NoParty
  /\ \E fit \in BOOLEAN : world' = LeaveParty(world, p, world.party[p], fit)
  /\ UNCHANGED online

PlayerEnableSharedPartyExperience(p, on) ==
  /\ p \in online
  /\ world.party[p] # NoParty
  /\ \E fit \in BOOLEAN :
       world' = SetSharedExperience(world, p, world.party[p], on, fit)
  /\ UNCHANGED online

(* The player hurts a hostile monster, or heals the summon of a companion.   *)
PlayerFights(p) ==
  /\ p \in online
  /\ world.party[p] # NoParty
  /\ \E fit \in BOOLEAN :
       world' = UpdatePlayerTicks(world, p, world.party[p], fit)
  /\ UNCHANGED online

(* The player moves or changes its level.                                    *)
PlayerMoves(p) ==
  /\ p \in online
  /\ world.party[p] # NoParty
  /\ \E fit \in BOOLEAN :
       world' = UpdateSharedExperience(world, world.party[p], fit)
  /\ UNCHANGED online

-----------------------------------------------------------------------------
(* The party's chat channel: it is created when a player of the party asks   *)
(* for the list of channels, and nothing ever deletes it.                    *)

RequestChannels(p) ==
  /\ p \in online
  /\ world.party[p] # NoParty
  /\ world' = [world EXCEPT !.channels = @ \cup {world.party[p]}]
  /\ UNCHANGED online

OpenPartyChannel(p) ==
  /\ p \in online
  /\ world.party[p] \in world.channels
  /\ world' = [world EXCEPT !.users[world.party[p]] = @ \cup {p}]
  /\ UNCHANGED online

ClosePartyChannel(p) ==
  /\ p \in online
  /\ world' = ClosePrivate(world, {p})
  /\ UNCHANGED online

-----------------------------------------------------------------------------
(* A login makes a new Player object.                                        *)
PlayerLogin(p) ==
  /\ p \notin online
  /\ online' = online \cup {p}
  /\ world' = [world EXCEPT !.party[p] = NoParty, !.invitations[p] = {}]

(* Mutant: only the channel of the player's party would forget it, and the   *)
(* player has left the party by then.                                        *)
PlayerLogoutMutChannel(p) ==
  /\ p \in online
  /\ online' = online \ {p}
  /\ \E fit \in BOOLEAN :
       LET w1 == RemoveInvites(world, p, world.invitations[p], FALSE)
           w2 == [w1 EXCEPT !.invitations[p] = {}]
           w3 == IF w2.party[p] = NoParty THEN w2
                 ELSE LeaveParty(w2, p, w2.party[p], fit)
       IN  world' = ClosePrivate(w3, {p})

(* Player::onRemoveCreature: the invitations are cleared, the party is left, *)
(* and every channel forgets the player.                                     *)
PlayerLogout(p) ==
  /\ p \in online
  /\ online' = online \ {p}
  /\ \E fit \in BOOLEAN :
       LET w1 == RemoveInvites(world, p, world.invitations[p], FALSE)
           w2 == [w1 EXCEPT !.invitations[p] = {}]
           w3 == IF w2.party[p] = NoParty THEN w2
                 ELSE LeaveParty(w2, p, w2.party[p], fit)
       IN  world' = [w3 EXCEPT !.users = [q \in Address |-> @[q] \ {p}]]

Next ==
  \E p \in Player :
    \/ \E x \in Player :
         \/ PlayerInviteToParty(p, x)
         \/ PlayerJoinParty(p, x)
         \/ PlayerRevokePartyInvitation(p, x)
         \/ PlayerPassPartyLeadership(p, x)
    \/ PlayerLeaveParty(p)
    \/ \E on \in BOOLEAN : PlayerEnableSharedPartyExperience(p, on)
    \/ PlayerFights(p)
    \/ PlayerMoves(p)
    \/ RequestChannels(p)
    \/ OpenPartyChannel(p)
    \/ ClosePartyChannel(p)
    \/ PlayerLogin(p)
    \/ PlayerLogout(p)

Spec == Init /\ [][Next]_vars

-----------------------------------------------------------------------------
(* The variables have the types of the code's fields.                        *)
TypeOK == online \subseteq Player /\ world \in World

(* A player's party and the leaders and members of the parties agree: a      *)
(* party has exactly the companions whose party it is, a leader is not also  *)
(* a member, and nobody is in the list of members twice, so that one erase   *)
(* removes it.  party.cpp changes the two sides in different places.         *)
MembershipAgrees ==
  /\ TypeOK
  /\ \A q \in Address :
       /\ Companions(world, q) = {p \in Player : world.party[p] = q}
       /\ world.leader[q] \notin ToSet(world.members[q])
       /\ IsInjective(world.members[q])

(* Invitations agree in both directions, and a player is not invited to the  *)
(* party it is in.  A party that is deleted has revoked its invitations.     *)
InvitationsAgree ==
  \A q \in Address, p \in Player :
    /\ q \in world.invitations[p] <=> p \in world.invitees[q]
    /\ p \in world.invitees[q] =>
         world.leader[q] # Nobody /\ p \notin Companions(world, q)

(* No pointer to a player who logged out is left in a party, or in a channel *)
(* of a party, even of one that was deleted.                                 *)
NobodyGone ==
  \A q \in Address :
    Companions(world, q) \cup world.invitees[q] \cup world.users[q] \subseteq online

(* Nobody is in a party alone: after every handler there is a companion or   *)
(* somebody who may still become one.                                        *)
NoLonelyParty ==
  \A q \in Address : world.leader[q] # Nobody => ~IsEmpty(world, q)

(* Experience is shared only while everybody in the party has fought since   *)
(* joining it, whoever came and left since sharing was last allowed; and the *)
(* record of who fought keeps nobody who left.                               *)
SharingIsEarned ==
  \A q \in Address :
    /\ world.ticks[q] \subseteq Companions(world, q)
    /\ world.active[q] /\ world.enabled[q] => CanEnableSharedExperience(world, q, TRUE)

(* A party with a member and more than two players, invitees included,       *)
(* survives whoever leaves, also its leader.                                 *)
PartySurvives ==
  [][\A q \in Address :
       /\ world.members[q] # <<>>
       /\ Cardinality(Companions(world, q) \cup world.invitees[q]) > 2
       => world'.leader[q] # Nobody]_vars

(* The message to a player who joins: "Open the party channel to communicate *)
(* with your companions" (party.cpp).  Whoever hears the channel of a party  *)
(* is in the party.                                                          *)
ChannelOfCompanions ==
  \A q \in Address :
    world.leader[q] # Nobody => world.users[q] \subseteq Companions(world, q)

=============================================================================
