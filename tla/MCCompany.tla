----------------------------- MODULE MCCompany ------------------------------
(***************************************************************************)
(* The parties and the creatures, which share no variable.  A behaviour is   *)
(* one of a single part, `part`, while the other stays as it begins, so that *)
(* TLC goes through the sum of their states and not the product.             *)
(***************************************************************************)
EXTENDS Party, Creatures, TLC

VARIABLE part

(* Monsters are placed at one end of the axis and players at the other,      *)
(* further than a monster of a spawn may stray and out of sight; the third   *)
(* place is three floors above the first.                                    *)
Places == {[x |-> 0, z |-> 7], [x |-> 60, z |-> 7], [x |-> 0, z |-> 4]}

Entrances == [c \in Creature |-> [x |-> IF c \in Monster THEN 0 ELSE 60, z |-> 7]]

Symmetry == Permutations(Player \ Exempt) \cup Permutations(Address)

companyVars == <<vars, creatures, part>>

CompanyInit ==
  /\ part \in {"party", "creatures"}
  /\ Init
  /\ CreaturesInit

(* Objects that keep each other alive are never freed, and this instance has *)
(* no others.                                                                *)
Exhausted ==
  /\ part = "creatures"
  /\ \A c \in Creature : creatures[c].status = "removed" /\ ~creatures[c].listed
  /\ UNCHANGED companyVars

CompanyNext ==
  /\ UNCHANGED part
  /\ \/ part = "party" /\ Next /\ UNCHANGED creatures
     \/ part = "creatures" /\ CreaturesNext /\ UNCHANGED vars
     \/ Exhausted

CompanySpec == CompanyInit /\ [][CompanyNext]_companyVars
=============================================================================
