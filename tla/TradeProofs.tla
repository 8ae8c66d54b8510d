---------------------------- MODULE TradeProofs -----------------------------
(***************************************************************************)
(* Theorems about Trade, for any players, items, slots and places: the two   *)
(* sides of a trade agree, what a partner sees of an offer stays as it is,   *)
(* and an exchange hands over both offers, or one that is a stack stays.     *)
(*                                                                           *)
(* Around and Root are recursive functions over the containers.  That they   *)
(* are defined at all takes that no container is inside of itself: each item *)
(* has a depth (Acyclic), and what holds of an item if it holds of the       *)
(* container it is in holds of all (ItemInduction).  Around is then the      *)
(* least set that is closed (Above), and Root the place of the outermost     *)
(* item (Outer).  One item that is put elsewhere, which is all that any step *)
(* does, changes them as PutIs says.                                         *)
(*                                                                           *)
(* The invariant adds to TradersAgree that no container is inside of itself  *)
(* or holds more than it has room for, and that all units make less than a   *)
(* full stack.  Who has an offer is in its place, and so is told of what     *)
(* happens there (ToldIs); an offer of which nobody says that it is          *)
(* concerned is neither what moves, nor around it, nor inside of it          *)
(* (Spared), and then nothing is noticed of the step at the offer (Still).   *)
(*                                                                           *)
(* The second move of an exchange finds a place, if the test before found    *)
(* one, unless it looked for a stack (StillRoom): a container that went away *)
(* with the first item leaves room where that item was.                      *)
(***************************************************************************)
EXTENDS Trade, FiniteSetTheorems, WellFoundedInduction, TLAPS

-----------------------------------------------------------------------------
(* Induction over the natural numbers, as a fact about sets of them.         *)
LEMMA Induction ==
  ASSUME NEW S, 0 \in S, \A n \in Nat : n \in S => n + 1 \in S
  PROVE  Nat \subseteq S
<1> DEFINE T == Nat \ S
<1> SUFFICES ASSUME T # {} PROVE FALSE
  OBVIOUS
<1>1. PICK x \in T : \A y \in T : ~ (<<y, x>> \in OpToRel(<, Nat))
  <2>1. T \subseteq Nat
    OBVIOUS
  <2> HIDE DEF T
  <2> QED
    BY <2>1, NatLessThanWellFounded, WFMin
<1>2. \A y \in T : ~ (y < x)
  BY <1>1 DEF OpToRel
<1>3. x # 0 /\ x \in Nat
  OBVIOUS
<1>4. x - 1 \in Nat /\ x - 1 < x
  BY <1>3
<1>5. x - 1 \in S
  BY <1>2, <1>4
<1>6. x \in S
  BY <1>3, <1>4, <1>5
<1> QED
  BY <1>6

-----------------------------------------------------------------------------
(* Where things are.                                                         *)

(* Nothing is inside of itself: each item has a depth.                       *)
Deeper(in, d) == \A i \in Item : in[i] \in Bag => d[in[i]] < d[i]

Acyclic(in) == \E d \in [Item -> Nat] : Deeper(in, d)

(* What holds of an item if it holds of the container it is in, holds of all.*)
LEMMA ItemInduction ==
  ASSUME NEW in, Acyclic(in), NEW P,
         \A j \in Item : (in[j] \in Bag => in[j] \in P) => j \in P
  PROVE  Item \subseteq P
<1>1. PICK d \in [Item -> Nat] : Deeper(in, d)
  BY DEF Acyclic
<1> DEFINE N == {n \in Nat : \A j \in Item : d[j] < n => j \in P}
<1>2. 0 \in N
  OBVIOUS
<1>3. ASSUME NEW n \in Nat, n \in N PROVE n + 1 \in N
  <2> SUFFICES ASSUME NEW j \in Item, d[j] < n + 1 PROVE j \in P
    OBVIOUS
  <2>1. ASSUME in[j] \in Bag PROVE in[j] \in P
    <3>1. in[j] \in Item /\ d[in[j]] < d[j]
      BY <1>1, <2>1 DEF Deeper, Item
    <3>2. d[in[j]] < n
      BY <3>1
    <3> QED
      BY <1>3, <3>1, <3>2
  <2> QED
    BY <2>1
<1> HIDE DEF N
<1>4. Nat \subseteq N
  BY <1>2, <1>3, Induction
<1>5. ASSUME NEW j \in Item PROVE j \in P
  <2>1. d[j] + 1 \in N /\ d[j] < d[j] + 1
    BY <1>4
  <2> QED
    BY <2>1 DEF N
<1> QED
  BY <1>5

(* The containers around j, as the least set that is closed.                 *)
Closed(in, j, C) ==
  /\ in[j] \in Bag => in[j] \in C
  /\ \A c \in C : in[c] \in Bag => in[c] \in C

Above(in, j) == {b \in Bag : \A C \in SUBSET Bag : Closed(in, j, C) => b \in C}

(* The least set is closed.                                                  *)
LEMMA AboveRec ==
  ASSUME NEW in, NEW j \in Item
  PROVE  Above(in, j) = IF in[j] \in Bag THEN {in[j]} \cup Above(in, in[j]) ELSE {}
<1>1. CASE in[j] \notin Bag
  <2>1. Closed(in, j, {})
    BY <1>1 DEF Closed
  <2> QED
    BY <1>1, <2>1 DEF Above
<1>2. CASE in[j] \in Bag
  <2> DEFINE b == in[j]
             A == {b} \cup Above(in, b)
  <2>1. A \in SUBSET Bag
    BY <1>2 DEF Above
  <2>2. ASSUME NEW c \in A, in[c] \in Bag PROVE in[c] \in A
    <3> SUFFICES ASSUME NEW C \in SUBSET Bag, Closed(in, b, C) PROVE in[c] \in C
      BY <2>2 DEF Above
    <3> QED
      BY <2>2 DEF Above, Closed
  <2>3. Closed(in, j, A)
    BY <2>2 DEF Closed
  <2>4. ASSUME NEW C \in SUBSET Bag, Closed(in, j, C) PROVE A \subseteq C
    <3>1. Closed(in, b, C) /\ b \in C
      BY <1>2, <2>4 DEF Closed
    <3> QED
      BY <3>1 DEF Above
  <2> HIDE DEF A
  <2>5. Above(in, j) = A
    <3>1. Above(in, j) \subseteq A
      BY <2>1, <2>3 DEF Above
    <3>2. A \subseteq Above(in, j)
      BY <2>1, <2>4 DEF Above
    <3> QED
      BY <3>1, <3>2
  <2> QED
    BY <1>2, <2>5 DEF A
<1> QED
  BY <1>1, <1>2

(* The recursion of Around has a solution.                                   *)
LEMMA AroundRec ==
  ASSUME NEW in, NEW i \in Item
  PROVE  Around(in, i) = IF in[i] \in Bag THEN {in[i]} \cup Around(in, in[i]) ELSE {}
<1> DEFINE Solves(f) == f = [j \in Item |-> IF in[j] \in Bag THEN {in[j]} \cup f[in[j]] ELSE {}]
           a == [j \in Item |-> Above(in, j)]
<1>1. Solves(a)
  <2>1. ASSUME NEW j \in Item
        PROVE  Above(in, j) = IF in[j] \in Bag THEN {in[j]} \cup a[in[j]] ELSE {}
    BY AboveRec DEF Item
  <2> QED
    BY <2>1
<1>2. Solves(CHOOSE f : Solves(f))
  <2> HIDE DEF Solves, a
  <2> QED
    BY <1>1
<1>3. \A j \in Item : Around(in, j) = (CHOOSE f : Solves(f))[j]
  BY DEF Around
<1> DEFINE g == CHOOSE f : Solves(f)
<1>4. g[i] = IF in[i] \in Bag THEN {in[i]} \cup g[in[i]] ELSE {}
  <2> HIDE DEF g
  <2> QED
    BY <1>2 DEF g
<1> HIDE DEF g
<1>5. \A j \in Item : Around(in, j) = g[j]
  BY <1>3 DEF g
<1> QED
  BY <1>4, <1>5 DEF Item

(* The containers around an item: they go on outwards, and never back.       *)
LEMMA AroundIs ==
  ASSUME NEW in, Acyclic(in), NEW i \in Item
  PROVE  /\ Around(in, i) \subseteq Bag
         /\ i \notin Around(in, i)
         /\ \A b \in Around(in, i) : Around(in, b) \subseteq Around(in, i) /\ b # i
         /\ in[i] \in Bag => in[i] \in Around(in, i)
<1>1. PICK d \in [Item -> Nat] : Deeper(in, d)
  BY DEF Acyclic
<1> DEFINE P == {j \in Item : /\ Around(in, j) \subseteq Bag
                              /\ \A b \in Around(in, j) : /\ d[b] < d[j]
                                                          /\ Around(in, b) \subseteq Around(in, j)}
<1>2. ASSUME NEW j \in Item, in[j] \in Bag => in[j] \in P PROVE j \in P
  <2>1. CASE in[j] \notin Bag
    BY <2>1, AroundRec
  <2>2. CASE in[j] \in Bag
    <3> DEFINE c == in[j]
    <3>1. Around(in, j) = {c} \cup Around(in, c)
      BY <2>2, AroundRec
    <3>2. c \in Item /\ d[c] < d[j]
      BY <1>1, <2>2 DEF Deeper, Item
    <3>3. Around(in, c) \subseteq Bag
          /\ \A b \in Around(in, c) : d[b] < d[c] /\ Around(in, b) \subseteq Around(in, c)
      BY <1>2, <2>2
    <3>4. \A b \in Around(in, c) : d[b] \in Nat
      BY <3>3 DEF Item
    <3>5. \A b \in Around(in, c) : d[b] < d[j]
      BY <3>2, <3>3, <3>4
    <3> HIDE DEF c
    <3> QED
      BY <2>2, <3>1, <3>2, <3>3, <3>5 DEF c
  <2> QED
    BY <2>1, <2>2
<1> HIDE DEF P
<1>3. i \in P
  <2>1. Item \subseteq P
    BY <1>2, ItemInduction
  <2> QED
    BY <2>1
<1>4. d[i] \in Nat
  OBVIOUS
<1> QED
  BY <1>3, <1>4, AroundRec DEF P

(* The outermost of i and the containers around it.                          *)
Outer(in, i) == CHOOSE a \in {i} \cup Around(in, i) : in[a] \notin Bag

(* There is one outermost item.                                              *)
LEMMA OuterIs ==
  ASSUME NEW in, Acyclic(in), NEW i \in Item
  PROVE  Outer(in, i) = IF in[i] \in Bag THEN Outer(in, in[i]) ELSE i
<1> DEFINE Only(j, a) == /\ a \in {j} \cup Around(in, j) /\ in[a] \notin Bag
                         /\ \A b \in {j} \cup Around(in, j) : in[b] \notin Bag => b = a
           P == {j \in Item : \E a : Only(j, a)}
<1>1. ASSUME NEW j \in Item, in[j] \in Bag, NEW a, Only(in[j], a) PROVE Only(j, a)
  BY <1>1, AroundRec
<1>2. ASSUME NEW j \in Item, in[j] \notin Bag PROVE Only(j, j)
  BY <1>2, AroundRec
<1>3. ASSUME NEW j \in Item, in[j] \in Bag => in[j] \in P PROVE j \in P
  BY <1>1, <1>2, <1>3
<1>4. Item \subseteq P
  <2> HIDE DEF P
  <2> QED
    BY <1>3, ItemInduction
<1>5. ASSUME NEW j \in Item, NEW a, Only(j, a) PROVE Outer(in, j) = a
  BY <1>5 DEF Outer
<1>6. CASE in[i] \notin Bag
  BY <1>2, <1>5, <1>6
<1>7. CASE in[i] \in Bag
  <2>1. in[i] \in Item
    BY <1>7 DEF Item
  <2>2. PICK a : Only(in[i], a)
    BY <1>4, <2>1
  <2>3. Only(i, a)
    BY <1>1, <1>7, <2>2
  <2> HIDE DEF Only
  <2> QED
    BY <1>5, <1>7, <2>1, <2>2, <2>3
<1> QED
  BY <1>6, <1>7

(* The recursion of Root has a solution.                                     *)
LEMMA RootRec ==
  ASSUME NEW in, Acyclic(in), NEW i \in Item
  PROVE  Root(in, i) = IF in[i] \in Bag THEN Root(in, in[i]) ELSE in[i]
<1> DEFINE Solves(f) == f = [j \in Item |-> IF in[j] \in Bag THEN f[in[j]] ELSE in[j]]
           r == [j \in Item |-> in[Outer(in, j)]]
<1>1. Solves(r)
  <2>1. ASSUME NEW j \in Item
        PROVE  in[Outer(in, j)] = IF in[j] \in Bag THEN r[in[j]] ELSE in[j]
    BY OuterIs DEF Item
  <2> QED
    BY <2>1
<1>2. Solves(CHOOSE f : Solves(f))
  <2> HIDE DEF Solves, r
  <2> QED
    BY <1>1
<1>3. \A j \in Item : Root(in, j) = (CHOOSE f : Solves(f))[j]
  BY DEF Root
<1> DEFINE g == CHOOSE f : Solves(f)
<1>4. g[i] = IF in[i] \in Bag THEN g[in[i]] ELSE in[i]
  <2> HIDE DEF g
  <2> QED
    BY <1>2 DEF g
<1> HIDE DEF g
<1>5. \A j \in Item : Root(in, j) = g[j]
  BY <1>3 DEF g
<1> QED
  BY <1>4, <1>5 DEF Item

(* All that is around an item is in the same place.                          *)
LEMMA RootIs ==
  ASSUME NEW in \in [Item -> Place], Acyclic(in), NEW i \in Item
  PROVE  /\ Root(in, i) \in Place \ Bag
         /\ \A b \in Around(in, i) : Root(in, b) = Root(in, i)
<1> DEFINE P == {j \in Item : /\ Root(in, j) \in Place \ Bag
                              /\ \A b \in Around(in, j) : Root(in, b) = Root(in, j)}
<1>1. ASSUME NEW j \in Item, in[j] \in Bag => in[j] \in P PROVE j \in P
  <2>1. CASE in[j] \notin Bag
    BY <2>1, AroundRec, RootRec
  <2>2. CASE in[j] \in Bag
    <3>1. Around(in, j) = {in[j]} \cup Around(in, in[j]) /\ Root(in, j) = Root(in, in[j])
      BY <2>2, AroundRec, RootRec
    <3> QED
      BY <1>1, <2>2, <3>1
  <2> QED
    BY <2>1, <2>2
<1> HIDE DEF P
<1>2. Item \subseteq P
  BY <1>1, ItemInduction
<1> QED
  BY <1>2 DEF P

-----------------------------------------------------------------------------
(* One item is put elsewhere: i to d, which is not i nor inside of it.       *)
Puts(in, i, d, to) ==
  /\ in \in [Item -> Place] /\ Acyclic(in)
  /\ to = [in EXCEPT ![i] = d]
  /\ i \in Item /\ d \in Place
  /\ d \in Bag => i \notin {d} \cup Around(in, d)

(* An item that is not in i is where it was.                                 *)
LEMMA PutElsewhere ==
  ASSUME NEW in, NEW i, NEW d, NEW to, Puts(in, i, d, to), Acyclic(to)
  PROVE  \A j \in Item : j # i /\ i \notin Around(in, j) =>
           Around(to, j) = Around(in, j) /\ Root(to, j) = Root(in, j)
<1> DEFINE P == {j \in Item : j # i /\ i \notin Around(in, j) =>
                   Around(to, j) = Around(in, j) /\ Root(to, j) = Root(in, j)}
<1>1. in \in [Item -> Place] /\ Acyclic(in) /\ i \in Item
  BY DEF Puts
<1>2. \A j \in Item : j # i => to[j] = in[j]
  BY DEF Puts
<1>3. ASSUME NEW j \in Item, in[j] \in Bag => in[j] \in P PROVE j \in P
  <2> SUFFICES ASSUME j # i, i \notin Around(in, j)
               PROVE  Around(to, j) = Around(in, j) /\ Root(to, j) = Root(in, j)
    OBVIOUS
  <2>1. to[j] = in[j]
    BY <1>2
  <2>2. Around(in, j) = IF in[j] \in Bag THEN {in[j]} \cup Around(in, in[j]) ELSE {}
    BY AroundRec
  <2>3. Around(to, j) = IF in[j] \in Bag THEN {in[j]} \cup Around(to, in[j]) ELSE {}
    BY <2>1, AroundRec
  <2>4. Root(in, j) = IF in[j] \in Bag THEN Root(in, in[j]) ELSE in[j]
    BY <1>1, RootRec
  <2>5. Root(to, j) = IF in[j] \in Bag THEN Root(to, in[j]) ELSE in[j]
    BY <2>1, RootRec
  <2> QED
    BY <1>3, <2>2, <2>3, <2>4, <2>5
<1> HIDE DEF P
<1>4. Item \subseteq P
  BY <1>1, <1>3, ItemInduction
<1> QED
  BY <1>4 DEF P

(* Nothing is inside of itself afterwards.                                   *)
LEMMA PutAcyclic ==
  ASSUME NEW in, NEW i, NEW d, NEW to, Puts(in, i, d, to)
  PROVE  Acyclic(to)
<1>1. in \in [Item -> Place] /\ Acyclic(in) /\ i \in Item
      /\ (d \in Bag => d \in Item /\ d # i /\ i \notin Around(in, d))
      /\ to[i] = d /\ \A j \in Item : j # i => to[j] = in[j]
  BY DEF Puts, Item
<1>2. PICK e \in [Item -> Nat] : Deeper(in, e)
  BY <1>1 DEF Acyclic
<1> DEFINE more == IF d \in Bag THEN e[d] + 1 ELSE 0
           Inside(j) == j = i \/ i \in Around(in, j)
           f == [j \in Item |-> IF Inside(j) THEN e[j] + more ELSE e[j]]
<1>3. more \in Nat
  BY <1>1
<1>4. f \in [Item -> Nat]
  BY <1>3
<1>5. ASSUME NEW j \in Item, to[j] \in Bag PROVE f[to[j]] < f[j]
  <2>1. CASE j = i
    <3>1. to[j] = d /\ ~Inside(d) /\ d \in Bag
      BY <1>1, <1>5, <2>1
    <3>2. f[d] = e[d] /\ f[j] = e[j] + e[d] + 1 /\ e[j] \in Nat /\ e[d] \in Nat
      <4>1. f[d] = e[d]
        BY <1>1, <3>1
      <4>2. f[j] = e[j] + (e[d] + 1)
        BY <2>1, <3>1
      <4>3. e[j] \in Nat /\ e[d] \in Nat
        BY <1>1, <3>1
      <4> QED
        BY <4>1, <4>2, <4>3
    <3> QED
      BY <3>1, <3>2
  <2>2. CASE j # i
    <3> DEFINE c == in[j]
    <3>1. to[j] = c /\ c \in Bag /\ c \in Item /\ e[c] < e[j]
      BY <1>1, <1>2, <1>5, <2>2 DEF Deeper, Item
    <3>2. Around(in, j) = {c} \cup Around(in, c)
      BY <3>1, AroundRec
    <3> HIDE DEF c
    <3>3. Inside(j) <=> Inside(c)
      BY <2>2, <3>2
    <3>4. e[c] \in Nat /\ e[j] \in Nat
      BY <3>1
    <3> HIDE DEF Inside, more
    <3> QED
      BY <1>3, <3>1, <3>3, <3>4
  <2> QED
    BY <2>1, <2>2
<1> HIDE DEF f
<1> QED
  BY <1>4, <1>5 DEF Acyclic, Deeper

(* Where the item and all that is in it is then.                             *)
LEMMA PutIs ==
  ASSUME NEW in, NEW i, NEW d, NEW to, Puts(in, i, d, to)
  PROVE  /\ to \in [Item -> Place] /\ Acyclic(to)
         /\ \A j \in Item : j # i /\ i \notin Around(in, j) =>
              Around(to, j) = Around(in, j) /\ Root(to, j) = Root(in, j) /\ to[j] = in[j]
         /\ Around(to, i) = IF d \in Bag THEN {d} \cup Around(in, d) ELSE {}
         /\ Root(to, i) = IF d \in Bag THEN Root(in, d) ELSE d
         /\ \A j \in Item : i \in Around(in, j) =>
              /\ i \in Around(to, j) /\ to[j] = in[j]
              /\ \A b : b \notin Around(in, i) /\ b \notin Around(to, i) =>
                   (b \in Around(to, j) <=> b \in Around(in, j))
<1>1. in \in [Item -> Place] /\ Acyclic(in) /\ i \in Item /\ d \in Place
      /\ (d \in Bag => d \in Item /\ d # i /\ i \notin Around(in, d))
  BY DEF Puts, Item
<1>2. Acyclic(to)
  BY PutAcyclic
<1>3. \A j \in Item : j # i /\ i \notin Around(in, j) =>
        Around(to, j) = Around(in, j) /\ Root(to, j) = Root(in, j)
  BY <1>2, PutElsewhere
<1>4. to[i] = d /\ \A j \in Item : j # i => to[j] = in[j]
  BY DEF Puts
<1>5. to \in [Item -> Place]
  BY DEF Puts
<1>6. Around(to, i) = IF d \in Bag THEN {d} \cup Around(in, d) ELSE {}
  <2>1. Around(to, i) = IF d \in Bag THEN {d} \cup Around(to, d) ELSE {}
    BY <1>1, <1>4, AroundRec
  <2> QED
    BY <1>1, <1>3, <2>1
<1>7. Root(to, i) = IF d \in Bag THEN Root(in, d) ELSE d
  <2>1. Root(to, i) = IF d \in Bag THEN Root(to, d) ELSE d
    BY <1>1, <1>2, <1>4, RootRec
  <2> QED
    BY <1>1, <1>3, <2>1
<1> DEFINE P == {j \in Item : i \in Around(in, j) =>
                   /\ i \in Around(to, j)
                   /\ \A b : b \notin Around(in, i) /\ b \notin Around(to, i) =>
                        (b \in Around(to, j) <=> b \in Around(in, j))}
<1>8. ASSUME NEW j \in Item, in[j] \in Bag => in[j] \in P PROVE j \in P
  <2> SUFFICES ASSUME i \in Around(in, j) PROVE j \in P
    OBVIOUS
  <2>1. j # i
    BY <1>1, AroundIs
  <2>2. in[j] \in Bag /\ Around(in, j) = {in[j]} \cup Around(in, in[j])
    BY AroundRec
  <2>3. Around(to, j) = {in[j]} \cup Around(to, in[j])
    BY <1>4, <2>1, <2>2, AroundRec
  <2>4. CASE in[j] = i
    BY <2>2, <2>3, <2>4
  <2>5. CASE in[j] # i
    BY <1>8, <2>2, <2>3, <2>5
  <2> QED
    BY <2>4, <2>5
<1>9. Item \subseteq P
  <2> HIDE DEF P
  <2> QED
    BY <1>1, <1>8, ItemInduction
<1>10. \A j \in Item : i \in Around(in, j) => j # i
  BY <1>1, AroundIs
<1> QED
  BY <1>2, <1>3, <1>4, <1>5, <1>6, <1>7, <1>9, <1>10

-----------------------------------------------------------------------------
(* The two sides of a trade, and the registry of what is offered.            *)

Paired(t) ==
  \A p \in Player :
    IF t.partner[p] = Nobody THEN t.state[p] = "NONE" /\ t.offer[p] = Nothing
    ELSE /\ t.partner[p] # p
         /\ t.partner[t.partner[p]] = p
         /\ t.state[p] # "NONE"
         /\ t.state[p] = "INITIATED" => t.offer[p] # Nothing
         /\ t.state[p] = "ACKNOWLEDGE" => t.offer[p] = Nothing

Registered(t) ==
  /\ \A p \in Player : t.offer[p] # Nothing => t.items[t.offer[p]] = p
  /\ \A i \in Item : t.items[i] # Nobody => t.offer[t.items[i]] = i

(* Nothing is offered with what is around it.                                *)
Apart(in, t) ==
  \A i \in Item : t.items[i] # Nobody => \A b \in Around(in, i) : t.items[b] = Nobody

(* p, at w, has i or stands where it is.                                     *)
Has(w, in, p, i) == Carries(in, p, i) \/ Root(in, i) = w

(* Traders are in one place, and have what they offer.                       *)
Near(w, in, t) ==
  \A p \in Player :
    /\ t.partner[p] # Nobody => w[p] # Offline /\ w[t.partner[p]] = w[p]
    /\ t.offer[p] # Nothing => Has(w[p], in, p, t.offer[p])

Agreed(t) == t \in Trades /\ Paired(t) /\ Registered(t)

(* What the types say of a trade.                                            *)
LEMMA TradesAre ==
  ASSUME NEW t \in Trades
  PROVE  /\ t.state \in [Player -> {"NONE", "INITIATED", "ACCEPT", "ACKNOWLEDGE"}]
         /\ t.partner \in [Player -> Player \cup {Nobody}]
         /\ t.offer \in [Player -> Item \cup {Nothing}]
         /\ t.items \in [Item -> Player \cup {Nobody}]
BY DEF Trades

(* Constants of different sorts are different.                               *)
LEMMA Sorts ==
  /\ Nobody \notin Player /\ Nothing \notin Item /\ Nothing \notin Place
  /\ Bag \subseteq Item /\ Bag \subseteq Place /\ Stack \subseteq Item /\ Bag \cap Stack = {}
  /\ Gone \notin Bag /\ Gone \in Place /\ Offline \notin Place
  /\ SlotOf \subseteq Place /\ Spot \subseteq Place /\ SlotOf \cap Bag = {} /\ SlotOf \cap Spot = {}
  /\ Spot \cap Bag = {} /\ Gone \notin SlotOf /\ Gone \notin Spot
BY TradeAssumption DEF Item, Place

(* Closing trades, of the players in S and their partners, leaves the others *)
(* as they were.                                                             *)
Lessened(t, u, S) ==
  /\ Agreed(u)
  /\ \A p \in Player :
       /\ u.offer[p] \in {t.offer[p], Nothing}
       /\ u.partner[p] \in {t.partner[p], Nobody}
       /\ p \in S => u.offer[p] = Nothing /\ u.partner[p] = Nobody
       /\ t.partner[p] \in S => u.offer[p] = Nothing /\ u.partner[p] = Nobody
  /\ \A i \in Item : u.items[i] \in {t.items[i], Nobody}

(* Game::internalCloseTrade keeps the two sides and the registry together.   *)
LEMMA CloseTradesLessens ==
  ASSUME NEW t, Agreed(t), NEW S \in SUBSET Player
  PROVE  Lessened(t, CloseTrades(t, S), S)
<1> DEFINE both == S \cup ({t.partner[p] : p \in S} \ {Nobody})
           offers == {t.offer[p] : p \in both}
           u == CloseTrades(t, S)
<1>1. t \in Trades /\ Paired(t) /\ Registered(t)
  BY DEF Agreed
<1>2. /\ u.state = [p \in Player |-> IF p \in both THEN "NONE" ELSE t.state[p]]
      /\ u.partner = [p \in Player |-> IF p \in both THEN Nobody ELSE t.partner[p]]
      /\ u.offer = [p \in Player |-> IF p \in both THEN Nothing ELSE t.offer[p]]
      /\ u.items = [i \in Item |-> IF i \in offers THEN Nobody ELSE t.items[i]]
      /\ u = [state |-> u.state, partner |-> u.partner, offer |-> u.offer, items |-> u.items]
  BY DEF CloseTrades
<1>3. both \subseteq Player
  BY <1>1, TradesAre
<1>4. \A p \in Player : t.partner[p] \in both => p \in both
  <2> SUFFICES ASSUME NEW p \in Player, t.partner[p] \in both PROVE p \in both
    OBVIOUS
  <2>1. t.partner[p] # Nobody /\ t.partner[t.partner[p]] = p
    BY <1>1, <1>3, Sorts DEF Paired
  <2>2. CASE t.partner[p] \in S
    BY <2>1, <2>2, Sorts
  <2>3. CASE t.partner[p] \notin S
    <3>1. PICK s \in S : t.partner[p] = t.partner[s]
      BY <2>3
    <3>2. t.partner[t.partner[s]] = s
      BY <1>1, <2>1, <3>1 DEF Paired
    <3> QED
      BY <2>1, <3>1, <3>2
  <2> QED
    BY <2>2, <2>3
<1>5. \A p \in S : p \in both /\ t.partner[p] \in both \cup {Nobody}
  OBVIOUS
<1>6. \A p \in Player : p \in both => t.offer[p] \in offers
  OBVIOUS
<1>7. \A i \in offers : \E p \in both : t.offer[p] = i
  OBVIOUS
<1> HIDE DEF u, both, offers
<1>8. u \in Trades
  <2>1. u.state \in [Player -> {"NONE", "INITIATED", "ACCEPT", "ACKNOWLEDGE"}]
    BY <1>1, <1>2, TradesAre
  <2>2. u.partner \in [Player -> Player \cup {Nobody}]
    BY <1>1, <1>2, TradesAre
  <2>3. u.offer \in [Player -> Item \cup {Nothing}]
    BY <1>1, <1>2, TradesAre
  <2>4. u.items \in [Item -> Player \cup {Nobody}]
    BY <1>1, <1>2, TradesAre
  <2> QED
    BY <1>2, <2>1, <2>2, <2>3, <2>4 DEF Trades
<1>9. Paired(u)
  <2> SUFFICES ASSUME NEW p \in Player
               PROVE  IF u.partner[p] = Nobody THEN u.state[p] = "NONE" /\ u.offer[p] = Nothing
                      ELSE /\ u.partner[p] # p
                           /\ u.partner[u.partner[p]] = p
                           /\ u.state[p] # "NONE"
                           /\ u.state[p] = "INITIATED" => u.offer[p] # Nothing
                           /\ u.state[p] = "ACKNOWLEDGE" => u.offer[p] = Nothing
    BY DEF Paired
  <2>1. CASE p \in both
    BY <1>2, <2>1
  <2>2. CASE p \notin both
    <3>1. u.partner[p] = t.partner[p] /\ u.state[p] = t.state[p] /\ u.offer[p] = t.offer[p]
      BY <1>2, <2>2
    <3>2. t.partner[p] # Nobody => u.partner[t.partner[p]] = t.partner[t.partner[p]]
      BY <1>1, <1>2, <1>4, <2>2, TradesAre
    <3> QED
      BY <1>1, <3>1, <3>2 DEF Paired
  <2> QED
    BY <2>1, <2>2
<1>10. Registered(u)
  <2>1. ASSUME NEW p \in Player, u.offer[p] # Nothing PROVE u.items[u.offer[p]] = p
    <3>1. p \notin both /\ u.offer[p] = t.offer[p] /\ t.offer[p] # Nothing /\ t.offer[p] \in Item
      BY <1>1, <1>2, <2>1, TradesAre
    <3>2. t.items[t.offer[p]] = p
      BY <1>1, <3>1 DEF Registered
    <3>3. t.offer[p] \notin offers
      <4> SUFFICES ASSUME NEW q \in both, t.offer[q] = t.offer[p] PROVE FALSE
        BY <1>7
      <4>1. t.items[t.offer[q]] = q
        BY <1>1, <1>3, <3>1 DEF Registered
      <4> QED
        BY <3>1, <3>2, <4>1
    <3> QED
      BY <1>2, <3>1, <3>2, <3>3
  <2>2. ASSUME NEW i \in Item, u.items[i] # Nobody PROVE u.offer[u.items[i]] = i
    <3>1. i \notin offers /\ u.items[i] = t.items[i] /\ t.items[i] \in Player
      BY <1>1, <1>2, <2>2, TradesAre
    <3>2. t.offer[t.items[i]] = i
      BY <1>1, <2>2, <3>1 DEF Registered
    <3>3. t.items[i] \notin both
      BY <1>6, <3>1, <3>2
    <3> QED
      BY <1>2, <3>1, <3>2, <3>3
  <2> QED
    BY <2>1, <2>2 DEF Registered
<1>11. ASSUME NEW p \in Player
       PROVE  /\ u.offer[p] \in {t.offer[p], Nothing}
              /\ u.partner[p] \in {t.partner[p], Nobody}
              /\ p \in S => u.offer[p] = Nothing /\ u.partner[p] = Nobody
              /\ t.partner[p] \in S => u.offer[p] = Nothing /\ u.partner[p] = Nobody
  BY <1>2, <1>4, <1>5
<1>12. \A i \in Item : u.items[i] \in {t.items[i], Nobody}
  BY <1>2
<1> QED
  BY <1>8, <1>9, <1>10, <1>11, <1>12 DEF Lessened, Agreed, u

-----------------------------------------------------------------------------
(* Offers that stand.                                                        *)

(* The items that are seen with an offer.                                    *)
Seen(in, o) == {j \in Item : o = j \/ o \in Around(in, j) \/ j \in Around(in, o)}

(* Nothing is noticed of a step at o.                                        *)
Still(in, to, c, e, o) ==
  /\ Around(to, o) = Around(in, o)
  /\ Root(to, o) = Root(in, o)
  /\ Sight(to, e, o) = Sight(in, c, o)

(* What is seen is the same if the same items are seen, in the same places.  *)
LEMMA SightSame ==
  ASSUME NEW in, NEW to, NEW c, NEW e, NEW o, Seen(to, o) = Seen(in, o),
         \A j \in Seen(in, o) : to[j] = in[j] /\ (j \in Stack => e[j] = c[j])
  PROVE  Sight(to, e, o) = Sight(in, c, o)
<1> DEFINE F(j) == <<j, in[j], IF j \in Stack THEN c[j] ELSE 0>>
           G(j) == <<j, to[j], IF j \in Stack THEN e[j] ELSE 0>>
<1>1. \A j \in Seen(in, o) : F(j) = G(j)
  OBVIOUS
<1>2. Sight(in, c, o) = {F(j) : j \in Seen(in, o)} /\ Sight(to, e, o) = {G(j) : j \in Seen(to, o)}
  BY DEF Sight, Seen
<1> HIDE DEF F, G
<1> QED
  BY <1>1, <1>2

(* A step goes unnoticed at o if the item that moves is not o, not around it *)
(* and not inside of it, before and after.                                   *)
LEMMA PutStill ==
  ASSUME NEW in, NEW i, NEW d, NEW to, Puts(in, i, d, to), NEW c, NEW e,
         NEW o \in Item, o # i, i \notin Around(in, o),
         o \notin Around(in, i), o \notin Around(to, i),
         \A s \in Stack : s = o \/ o \in Around(in, s) => e[s] = c[s]
  PROVE  Still(in, to, c, e, o)
<1>1. Around(to, o) = Around(in, o) /\ Root(to, o) = Root(in, o)
  BY PutIs
<1>2. ASSUME NEW j \in Item PROVE o \in Around(to, j) <=> o \in Around(in, j)
  <2>1. CASE j = i
    BY <2>1
  <2>2. CASE j # i /\ i \notin Around(in, j)
    BY <2>2, PutIs
  <2>3. CASE i \in Around(in, j)
    BY <2>3, PutIs
  <2> QED
    BY <2>1, <2>2, <2>3
<1>3. Seen(to, o) = Seen(in, o)
  BY <1>1, <1>2 DEF Seen
<1>4. Acyclic(in) /\ i \in Item /\ \A j \in Item : j # i => to[j] = in[j]
  BY DEF Puts
<1>5. ASSUME NEW j \in Seen(in, o) PROVE to[j] = in[j] /\ (j \in Stack => e[j] = c[j])
  <2>1. j # i /\ j \in Item
    BY DEF Seen
  <2>2. j \in Stack => j \notin Around(in, o)
    BY <1>4, AroundIs, Sorts
  <2> QED
    BY <1>4, <2>1, <2>2 DEF Seen
<1>6. Sight(to, e, o) = Sight(in, c, o)
  BY <1>3, <1>5, SightSame
<1> QED
  BY <1>1, <1>6 DEF Still

(* Traders and offers stay near and apart if the offers that stand notice    *)
(* nothing.                                                                  *)
LEMMA StillKeeps ==
  ASSUME NEW w, NEW in, NEW to, NEW c, NEW e, NEW t, NEW u, NEW S,
         Acyclic(in), Agreed(t), Near(w, in, t), Apart(in, t), Lessened(t, u, S),
         \A p \in Player : u.offer[p] # Nothing => Still(in, to, c, e, u.offer[p])
  PROVE  Near(w, to, u) /\ Apart(to, u)
<1>1. t \in Trades /\ u \in Trades /\ Registered(u)
  BY DEF Agreed, Lessened
<1>2. ASSUME NEW p \in Player
      PROVE  /\ u.partner[p] # Nobody => w[p] # Offline /\ w[u.partner[p]] = w[p]
             /\ u.offer[p] # Nothing => Has(w[p], to, p, u.offer[p])
  <2>1. u.offer[p] \in {t.offer[p], Nothing} /\ u.partner[p] \in {t.partner[p], Nobody}
    BY DEF Lessened
  <2>2. u.partner[p] # Nobody => w[p] # Offline /\ w[u.partner[p]] = w[p]
    BY <2>1 DEF Near
  <2>3. u.offer[p] # Nothing => Has(w[p], to, p, u.offer[p])
    BY <2>1 DEF Near, Has, Carries, Still
  <2> QED
    BY <2>2, <2>3
<1>3. ASSUME NEW i \in Item, u.items[i] # Nobody, NEW b \in Around(to, i)
      PROVE  u.items[b] = Nobody
  <2>1. u.items[i] \in Player /\ u.offer[u.items[i]] = i /\ i # Nothing
    BY <1>1, <1>3, TradesAre, Sorts DEF Registered
  <2>2. Around(to, i) = Around(in, i)
    BY <2>1 DEF Still
  <2>3. t.items[i] # Nobody
    BY <1>3 DEF Lessened
  <2>4. t.items[b] = Nobody
    BY <2>2, <2>3 DEF Apart
  <2>5. CASE b \in Item
    BY <2>4, <2>5 DEF Lessened
  <2>6. b \in Item
    BY <1>3, <2>2, AroundIs, Sorts
  <2> QED
    BY <2>5, <2>6
<1> QED
  BY <1>2, <1>3 DEF Near, Apart

-----------------------------------------------------------------------------
(* Who is told of a step.                                                    *)

RootAt(in, x) == IF x \in Bag THEN Root(in, x) ELSE x

(* Who has an item is told of what happens in the same place.                *)
LEMMA ToldIs ==
  ASSUME at \in [Player -> Spot \cup {Offline}], NEW in, NEW x \in Place, NEW r \in Player,
         NEW o, Root(in, o) \in Place, Has(at[r], in, r, o), RootAt(in, x) = Root(in, o)
  PROVE  r \in Told(in, x)
<1>1. at[r] \in Spot \cup {Offline}
  OBVIOUS
<1>2. CASE x \in SlotOf
  <2>1. x = Root(in, o)
    BY <1>2, Sorts DEF RootAt
  <2>2. Root(in, o) \in {r} \X ToSet(Slot)
    BY <1>1, <1>2, <2>1, Sorts DEF Has, Carries
  <2> QED
    BY <1>2, <2>1, <2>2 DEF Told
<1>3. CASE x \notin SlotOf
  <2>1. Root(in, o) \in {r} \X ToSet(Slot) => Root(in, o) \in SlotOf /\ Root(in, o)[1] = r
    BY DEF SlotOf
  <2> QED
    BY <1>3, <2>1 DEF Told, Has, Carries, RootAt
<1> QED
  BY <1>2, <1>3

(* An offer of which nobody says that i is removed is not i, and neither is  *)
(* inside of the other.                                                      *)
LEMMA RemovalSpares ==
  ASSUME at \in [Player -> Spot \cup {Offline}], NEW in \in [Item -> Place], Acyclic(in),
         NEW i \in Item, NEW r \in Player, trade.offer[r] \in Item,
         Has(at[r], in, r, trade.offer[r]), r \notin Disturbed(in, i, in[i])
  PROVE  /\ trade.offer[r] # i
         /\ i \notin Around(in, trade.offer[r])
         /\ trade.offer[r] \notin Around(in, i)
<1> DEFINE o == trade.offer[r]
           x == in[i]
<1>1. o \in Item /\ o # Nothing /\ x \in Place /\ Has(at[r], in, r, o)
  BY Sorts
<1>2. Root(in, o) \in Place
  BY <1>1, RootIs
<1>3. RootAt(in, x) = Root(in, i)
  BY RootRec DEF RootAt
<1> HIDE DEF o
<1>4. ASSUME o = i \/ i \in Around(in, o) \/ o \in Around(in, i) PROVE FALSE
  <2>1. Root(in, i) = Root(in, o)
    BY <1>1, <1>4, RootIs
  <2>2. r \in Told(in, x)
    BY <1>1, <1>2, <1>3, <2>1, ToldIs
  <2>3. CASE o = i \/ o \in Around(in, i)
    BY <1>1, <2>2, <2>3 DEF Disturbed, o
  <2>4. CASE i \in Around(in, o)
    <3>1. (IF x \in Bag THEN x ELSE i) \in Around(in, o)
      BY <1>1, <2>4, AroundIs
    <3>2. in[o] # x
      <4> SUFFICES ASSUME in[o] = x PROVE FALSE
        OBVIOUS
      <4>1. x \in Bag /\ Around(in, o) = {x} \cup Around(in, x)
        BY <1>1, <2>4, AroundRec
      <4>2. Around(in, i) = {x} \cup Around(in, x)
        BY <4>1, AroundRec
      <4> QED
        BY <2>4, <4>1, <4>2, AroundIs
    <3> QED
      BY <1>1, <2>2, <3>1, <3>2 DEF Disturbed, o
  <2> QED
    BY <1>4, <2>3, <2>4
<1> QED
  BY <1>4 DEF o

(* An offer of which nobody says that i is added does not contain it.        *)
LEMMA AddingSpares ==
  ASSUME at \in [Player -> Spot \cup {Offline}], NEW in \in [Item -> Place], Acyclic(in),
         NEW i \in Item, NEW r \in Player, trade.offer[r] \in Item,
         Has(at[r], in, r, trade.offer[r]), r \notin DisturbedByAdding(in, i, in[i])
  PROVE  trade.offer[r] \notin Around(in, i)
<1> DEFINE o == trade.offer[r]
           x == in[i]
<1> SUFFICES ASSUME o \in Around(in, i) PROVE FALSE
  OBVIOUS
<1>1. x \in Bag /\ x \in Place /\ o \in Item
  BY AroundRec
<1>2. RootAt(in, x) = Root(in, i) /\ Root(in, o) = Root(in, i)
  BY <1>1, RootRec, RootIs DEF RootAt
<1>3. Root(in, o) \in Place
  BY <1>1, RootIs
<1> HIDE DEF o
<1>4. r \in Told(in, x)
  <2>1. Has(at[r], in, r, o)
    BY DEF o
  <2> QED
    BY <1>1, <1>2, <1>3, <2>1, ToldIs
<1> QED
  BY <1>1, <1>4 DEF DisturbedByAdding, o

(* ... and one of which nobody says that i is updated is not i either.       *)
LEMMA UpdatingSpares ==
  ASSUME at \in [Player -> Spot \cup {Offline}], NEW in \in [Item -> Place], Acyclic(in),
         NEW i \in Item, NEW r \in Player, trade.offer[r] \in Item,
         Has(at[r], in, r, trade.offer[r]), r \notin DisturbedByUpdating(in, i, in[i])
  PROVE  trade.offer[r] \notin {i} \cup Around(in, i)
<1> DEFINE o == trade.offer[r]
           x == in[i]
<1> SUFFICES ASSUME o \in {i} \cup Around(in, i) PROVE FALSE
  OBVIOUS
<1>1. x \in Place /\ o \in Item
  OBVIOUS
<1>2. RootAt(in, x) = Root(in, i) /\ Root(in, o) = Root(in, i)
  BY <1>1, RootRec, RootIs DEF RootAt
<1>3. Root(in, o) \in Place
  BY <1>1, RootIs
<1> HIDE DEF o
<1>4. r \in Told(in, x)
  <2>1. Has(at[r], in, r, o)
    BY DEF o
  <2> QED
    BY <1>1, <1>2, <1>3, <2>1, ToldIs
<1> QED
  BY <1>1, <1>4 DEF DisturbedByUpdating, o

-----------------------------------------------------------------------------
(* The invariant.                                                            *)

(* No container holds more than it has room for.                             *)
Roomy(in) == \A b \in Bag : Cardinality({j \in Item : in[j] = b}) <= BagSize

UnitsOf(c) == UNION {{s} \X (1 .. c[s]) : s \in Stack}

Counted(c) == c \in [Stack -> 0 .. MaxCount] /\ Cardinality(UnitsOf(c)) <= MaxCount

TradeInv ==
  /\ at \in [Player -> Spot \cup {Offline}]
  /\ place \in [Item -> Place] /\ Acyclic(place) /\ Roomy(place)
  /\ Counted(count)
  /\ Agreed(trade) /\ Apart(place, trade) /\ Near(at, place, trade)

(* A place is taken only where there is room.                                *)
LEMMA PutRoomy ==
  ASSUME NEW in, NEW i, NEW d, NEW to, Puts(in, i, d, to), Roomy(in),
         d \in Bag => Cardinality({j \in Item : in[j] = d}) < BagSize
  PROVE  Roomy(to)
<1> SUFFICES ASSUME NEW b \in Bag
             PROVE  Cardinality({j \in Item : to[j] = b}) <= BagSize
  BY DEF Roomy
<1> DEFINE A == {j \in Item : in[j] = b}
           B == {j \in Item : to[j] = b}
<1>1. i \in Item /\ to[i] = d /\ \A j \in Item : j # i => to[j] = in[j]
  BY DEF Puts
<1>2. IsFiniteSet(A) /\ Cardinality(A) \in Nat /\ Cardinality(A) <= BagSize /\ BagSize \in Nat
  <2>1. IsFiniteSet(A)
    BY TradeAssumption, FS_Subset
  <2> QED
    BY <2>1, TradeAssumption, FS_CardinalityType DEF Roomy
<1>3. CASE b # d
  <2>1. B \subseteq A
    BY <1>1, <1>3
  <2> HIDE DEF A, B
  <2>2. Cardinality(B) <= Cardinality(A) /\ Cardinality(B) \in Nat
    BY <1>2, <2>1, FS_Subset, FS_CardinalityType
  <2> QED
    BY <1>2, <2>2 DEF B
<1>4. CASE b = d
  <2>1. B \subseteq A \cup {i} /\ Cardinality(A) < BagSize
    BY <1>1, <1>4
  <2> HIDE DEF A, B
  <2>2. IsFiniteSet(A \cup {i}) /\ Cardinality(A \cup {i}) <= Cardinality(A) + 1
        /\ Cardinality(A \cup {i}) \in Nat
    BY <1>2, FS_AddElement, FS_CardinalityType
  <2>3. Cardinality(B) <= Cardinality(A \cup {i}) /\ Cardinality(B) \in Nat
    BY <2>1, <2>2, FS_Subset, FS_CardinalityType
  <2> QED
    BY <1>2, <2>1, <2>2, <2>3 DEF B
<1> QED
  BY <1>3, <1>4

-----------------------------------------------------------------------------
(* The units of all stacks.                                                  *)

(* A stack has as many units as it counts.                                   *)
LEMMA ColumnIs ==
  ASSUME NEW s, NEW n \in Nat
  PROVE  IsFiniteSet({s} \X (1 .. n)) /\ Cardinality({s} \X (1 .. n)) = n
<1>1. IsFiniteSet({s}) /\ Cardinality({s}) = 1
  BY FS_Singleton
<1>2. IsFiniteSet(1 .. n) /\ Cardinality(1 .. n) = n
  BY FS_Interval
<1>3. IsFiniteSet({s} \X (1 .. n)) /\ Cardinality({s} \X (1 .. n)) = 1 * n
  BY <1>1, <1>2, FS_Product
<1> QED
  BY <1>3

(* The units are those of each stack.                                        *)
LEMMA UnitsAre ==
  ASSUME NEW c, NEW u
  PROVE  u \in UnitsOf(c) <=> \E s \in Stack : u \in {s} \X (1 .. c[s])
BY DEF UnitsOf

(* There are finitely many, if each stack has a count.                       *)
LEMMA UnitsFinite ==
  ASSUME NEW c \in [Stack -> 0 .. MaxCount]
  PROVE  IsFiniteSet(UnitsOf(c)) /\ Cardinality(UnitsOf(c)) \in Nat
<1>1. IsFiniteSet(Stack) /\ IsFiniteSet(1 .. MaxCount)
  BY TradeAssumption, FS_Subset, FS_Interval, Sorts
<1>2. IsFiniteSet(Stack \X (1 .. MaxCount))
  BY <1>1, FS_Product
<1>3. UnitsOf(c) \subseteq Stack \X (1 .. MaxCount)
  <2>1. \A s \in Stack : 1 .. c[s] \subseteq 1 .. MaxCount
    BY TradeAssumption
  <2> QED
    BY <2>1 DEF UnitsOf
<1> QED
  BY <1>2, <1>3, FS_Subset, FS_CardinalityType

(* A stack is used up.                                                       *)
LEMMA CountedWithout ==
  ASSUME NEW c, Counted(c), NEW i
  PROVE  Counted([j \in Stack |-> IF j = i THEN 0 ELSE c[j]])
<1> DEFINE e == [j \in Stack |-> IF j = i THEN 0 ELSE c[j]]
<1>1. c \in [Stack -> 0 .. MaxCount] /\ IsFiniteSet(UnitsOf(c)) /\ Cardinality(UnitsOf(c)) <= MaxCount
  BY UnitsFinite DEF Counted
<1>2. e \in [Stack -> 0 .. MaxCount]
  BY <1>1, TradeAssumption
<1>3. UnitsOf(e) \subseteq UnitsOf(c)
  <2>1. \A s \in Stack : 1 .. e[s] \subseteq 1 .. c[s]
    OBVIOUS
  <2> HIDE DEF e
  <2> QED
    BY <2>1 DEF UnitsOf
<1> HIDE DEF e
<1>4. Cardinality(UnitsOf(e)) <= Cardinality(UnitsOf(c))
  BY <1>1, <1>3, FS_Subset
<1>5. Cardinality(UnitsOf(e)) \in Nat /\ Cardinality(UnitsOf(c)) \in Nat
  BY <1>1, <1>2, UnitsFinite
<1> QED
  BY <1>1, <1>2, <1>4, <1>5, TradeAssumption DEF Counted, e

(* A unit comes into the game.                                               *)
LEMMA CountedWith ==
  ASSUME NEW c, Counted(c), NEW i, i \in Stack => Cardinality(UnitsOf(c)) < MaxCount
  PROVE  Counted([j \in Stack |-> IF j = i THEN 1 ELSE c[j]])
<1> DEFINE e == [j \in Stack |-> IF j = i THEN 1 ELSE c[j]]
<1>1. c \in [Stack -> 0 .. MaxCount] /\ IsFiniteSet(UnitsOf(c)) /\ Cardinality(UnitsOf(c)) <= MaxCount
      /\ Cardinality(UnitsOf(c)) \in Nat
  BY UnitsFinite DEF Counted
<1>2. CASE i \notin Stack
  <2>1. e = c
    BY <1>1, <1>2
  <2> QED
    BY <2>1
<1>3. CASE i \in Stack
  <2>1. e \in [Stack -> 0 .. MaxCount]
    BY <1>1, <1>3, TradeAssumption
  <2>2. UnitsOf(e) \subseteq UnitsOf(c) \cup {<<i, 1>>}
    <3> SUFFICES ASSUME NEW s \in Stack, NEW u \in {s} \X (1 .. e[s])
                 PROVE  u \in UnitsOf(c) \cup {<<i, 1>>}
      BY UnitsAre
    <3>1. CASE s = i
      BY <3>1
    <3>2. CASE s # i
      BY <3>2, UnitsAre
    <3> QED
      BY <3>1, <3>2
  <2> HIDE DEF e
  <2>3. IsFiniteSet(UnitsOf(c) \cup {<<i, 1>>})
        /\ Cardinality(UnitsOf(c) \cup {<<i, 1>>}) <= Cardinality(UnitsOf(c)) + 1
        /\ Cardinality(UnitsOf(c) \cup {<<i, 1>>}) \in Nat
    <3>1. /\ IsFiniteSet(UnitsOf(c) \cup {<<i, 1>>})
          /\ Cardinality(UnitsOf(c) \cup {<<i, 1>>}) =
               IF <<i, 1>> \in UnitsOf(c) THEN Cardinality(UnitsOf(c)) ELSE Cardinality(UnitsOf(c)) + 1
      BY <1>1, FS_AddElement
    <3> QED
      BY <1>1, <3>1
  <2>4. Cardinality(UnitsOf(e)) <= Cardinality(UnitsOf(c) \cup {<<i, 1>>})
        /\ Cardinality(UnitsOf(e)) \in Nat
    BY <2>1, <2>2, <2>3, FS_Subset, UnitsFinite
  <2> QED
    BY <1>1, <1>3, <2>1, <2>3, <2>4, TradeAssumption DEF Counted, e
<1> QED
  BY <1>2, <1>3

(* Two stacks merge.                                                         *)
LEMMA CountedMerged ==
  ASSUME NEW c, Counted(c), NEW i \in Stack, NEW j \in Stack, i # j
  PROVE  Counted([c EXCEPT ![i] = 0, ![j] = @ + c[i]])
<1> DEFINE e == [c EXCEPT ![i] = 0, ![j] = @ + c[i]]
           U == UnitsOf(c)
           A == {i} \X (1 .. c[i])
           B == {j} \X (1 .. c[j])
           R == U \ (A \cup B)
           N == {j} \X (1 .. c[j] + c[i])
<1>1. c \in [Stack -> 0 .. MaxCount] /\ IsFiniteSet(U) /\ Cardinality(U) <= MaxCount
      /\ Cardinality(U) \in Nat /\ c[i] \in Nat /\ c[j] \in Nat
  BY UnitsFinite, TradeAssumption DEF Counted
<1>2. e[i] = 0 /\ e[j] = c[j] + c[i] /\ \A s \in Stack \ {i, j} : e[s] = c[s]
  BY <1>1
<1>3. e \in [Stack -> Int]
  BY <1>1
<1>4. A \subseteq U /\ B \subseteq U /\ A \cap B = {} /\ R \cap N = {}
  <2>1. A \subseteq U /\ B \subseteq U
    BY UnitsAre
  <2>2. R \cap N = {}
    <3> SUFFICES ASSUME NEW u \in R, NEW n \in 1 .. c[j] + c[i], u = <<j, n>> PROVE FALSE
      OBVIOUS
    <3>1. PICK s \in Stack : u \in {s} \X (1 .. c[s])
      BY UnitsAre
    <3> QED
      BY <3>1
  <2> QED
    BY <2>1, <2>2
<1>5. UnitsOf(e) = R \cup N
  <2>1. ASSUME NEW s \in Stack, NEW u \in {s} \X (1 .. e[s]) PROVE u \in R \cup N
    <3>1. CASE s = i
      BY <1>2, <3>1
    <3>2. CASE s = j
      BY <1>2, <3>2
    <3>3. CASE s # i /\ s # j
      BY <1>2, <3>3, UnitsAre
    <3> QED
      BY <3>1, <3>2, <3>3
  <2>2. ASSUME NEW u \in R PROVE u \in UnitsOf(e)
    <3>1. PICK s \in Stack : u \in {s} \X (1 .. c[s])
      BY UnitsAre
    <3>2. s # i /\ s # j
      BY <2>2, <3>1
    <3> HIDE DEF e, R
    <3> QED
      BY <1>2, <3>1, <3>2, UnitsAre
  <2>3. ASSUME NEW u \in N PROVE u \in UnitsOf(e)
    <3> HIDE DEF e
    <3> QED
      BY <1>2, UnitsAre
  <2> QED
    BY <2>1, <2>2, <2>3, UnitsAre
<1>6. /\ IsFiniteSet(A) /\ Cardinality(A) = c[i] /\ IsFiniteSet(B) /\ Cardinality(B) = c[j]
      /\ IsFiniteSet(N) /\ Cardinality(N) = c[j] + c[i]
  <2>1. c[j] + c[i] \in Nat
    BY <1>1
  <2>2. IsFiniteSet(A) /\ Cardinality(A) = c[i]
    BY <1>1, ColumnIs
  <2>3. IsFiniteSet(B) /\ Cardinality(B) = c[j]
    BY <1>1, ColumnIs
  <2>4. IsFiniteSet(N) /\ Cardinality(N) = c[j] + c[i]
    BY <2>1, ColumnIs
  <2> QED
    BY <2>2, <2>3, <2>4
<1> HIDE DEF U, A, B, N, e
<1>7. IsFiniteSet(A \cup B) /\ Cardinality(A \cup B) = c[i] + c[j]
  <2>1. IsFiniteSet(A \cup B)
        /\ Cardinality(A \cup B) = Cardinality(A) + Cardinality(B) - Cardinality(A \cap B)
    BY <1>6, FS_Union
  <2>2. Cardinality(A \cap B) = 0
    BY <1>4, FS_EmptySet
  <2> QED
    BY <1>1, <1>6, <2>1, <2>2
<1>8. IsFiniteSet(R) /\ Cardinality(R) = Cardinality(U) - (c[i] + c[j])
  <2>1. IsFiniteSet(R) /\ Cardinality(R) = Cardinality(U) - Cardinality(U \cap (A \cup B))
    BY <1>1, FS_Difference
  <2>2. U \cap (A \cup B) = A \cup B
    BY <1>4
  <2> QED
    BY <1>7, <2>1, <2>2
<1> HIDE DEF R
<1>9. Cardinality(R) \in Nat
  BY <1>8, FS_CardinalityType
<1>10. Cardinality(R \cup N) = Cardinality(U)
  <2>1. Cardinality(R \cup N) = Cardinality(R) + Cardinality(N) - Cardinality(R \cap N)
    BY <1>6, <1>8, FS_Union
  <2>2. Cardinality(R \cap N) = 0
    BY <1>4, FS_EmptySet
  <2> QED
    BY <1>1, <1>6, <1>8, <2>1, <2>2
<1>11. c[j] + c[i] <= MaxCount
  BY <1>1, <1>8, <1>9, TradeAssumption
<1>12. e \in [Stack -> 0 .. MaxCount]
  <2>1. ASSUME NEW s \in Stack PROVE e[s] \in 0 .. MaxCount
    BY <1>1, <1>2, <1>11, TradeAssumption
  <2> QED
    BY <1>3, <2>1
<1> QED
  BY <1>1, <1>5, <1>10, <1>12 DEF Counted, e

-----------------------------------------------------------------------------
(* The steps that move one item, or create one.                              *)

(* No offer that stands has changed in the eyes of the partner.              *)
Frozen ==
  \A p \in Player :
    trade.offer[p] # Nothing /\ trade'.offer[p] = trade.offer[p]
      => Sight(place', count', trade.offer[p]) = Sight(place, count, trade.offer[p])

(* What a step that may close trades has to do.                              *)
LEMMA ClosingKeeps ==
  ASSUME TradeInv, at' = at, NEW S \in SUBSET Player, trade' = CloseTrades(trade, S),
         place' \in [Item -> Place], Acyclic(place'), Roomy(place'), Counted(count'),
         \A p \in Player : trade'.offer[p] # Nothing =>
           Still(place, place', count, count', trade'.offer[p])
  PROVE  TradeInv' /\ Frozen
<1>1. Lessened(trade, trade', S)
  BY CloseTradesLessens DEF TradeInv
<1>2. Near(at, place', trade') /\ Apart(place', trade')
  BY <1>1, StillKeeps DEF TradeInv
<1>3. Agreed(trade')
  BY <1>1 DEF Lessened
<1>4. TradeInv'
  BY <1>2, <1>3 DEF TradeInv
<1>5. Frozen
  BY DEF Frozen, Still
<1> QED
  BY <1>4, <1>5

(* Only players are told.                                                    *)
LEMMA ToldPlayers ==
  ASSUME NEW in, NEW i, NEW x
  PROVE  /\ Told(in, x) \subseteq Player
         /\ Disturbed(in, i, x) \subseteq Player
         /\ DisturbedByAdding(in, i, x) \subseteq Player
         /\ DisturbedByUpdating(in, i, x) \subseteq Player
<1>1. Told(in, x) \subseteq Player
  BY DEF Told, SlotOf
<1> QED
  BY <1>1 DEF Disturbed, DisturbedByAdding, DisturbedByUpdating

(* An offer of which nobody says that it is concerned is not.                *)
LEMMA Spared ==
  ASSUME TradeInv, NEW i, NEW d, NEW to, Puts(place, i, d, to), NEW e,
         NEW r \in Player, trade.offer[r] # Nothing,
         r \notin Disturbed(place, i, place[i]), r \notin DisturbedByAdding(to, i, d),
         \A s \in Stack \ {i} : s = trade.offer[r] \/ trade.offer[r] \in Around(place, s) =>
           e[s] = count[s]
  PROVE  Still(place, to, count, e, trade.offer[r])
<1> DEFINE o == trade.offer[r]
<1>1. /\ at \in [Player -> Spot \cup {Offline}] /\ place \in [Item -> Place] /\ Acyclic(place)
      /\ trade \in Trades /\ Near(at, place, trade) /\ i \in Item
  BY DEF TradeInv, Agreed, Puts
<1>2. o \in Item /\ Has(at[r], place, r, o)
  BY <1>1, TradesAre DEF Near
<1>3. o # i /\ i \notin Around(place, o) /\ o \notin Around(place, i)
  BY <1>1, <1>2, RemovalSpares
<1>4. to \in [Item -> Place] /\ Acyclic(to) /\ Root(to, o) = Root(place, o) /\ to[i] = d
  <2>1. to[i] = d
    BY <1>1 DEF Puts
  <2> QED
    BY <1>2, <1>3, <2>1, PutIs
<1>5. Has(at[r], to, r, o)
  BY <1>2, <1>4 DEF Has, Carries
<1>6. o \notin Around(to, i)
  BY <1>1, <1>2, <1>4, <1>5, AddingSpares
<1>7. \A s \in Stack : s = o \/ o \in Around(place, s) => e[s] = count[s]
  BY <1>3
<1> HIDE DEF o
<1>8. Still(place, to, count, e, o)
  BY <1>2, <1>3, <1>6, <1>7, PutStill
<1> QED
  BY <1>8 DEF o

(* Game::playerMoveItem.                                                     *)
LEMMA MoveItemKeeps ==
  ASSUME TradeInv, NEW p \in Player, NEW i \in Item, NEW d \in Place, MoveItem(p, i, d)
  PROVE  TradeInv' /\ Frozen
<1> DEFINE S == Disturbed(place, i, place[i]) \cup DisturbedByAdding(place', i, d)
<1>1. /\ place' = [place EXCEPT ![i] = d] /\ trade' = CloseTrades(trade, S)
      /\ at' = at /\ count' = count
      /\ d \in Bag => HasRoom(place, d, i)
  BY Sorts DEF MoveItem, SlotOf
<1>2. Puts(place, i, d, place')
  BY <1>1 DEF TradeInv, Puts, HasRoom
<1>3. S \subseteq Player
  BY ToldPlayers
<1>4. place' \in [Item -> Place] /\ Acyclic(place')
  BY <1>2, PutIs
<1>5. Roomy(place')
  BY <1>1, <1>2, PutRoomy DEF TradeInv, HasRoom
<1>6. Counted(count')
  BY <1>1 DEF TradeInv
<1>7. ASSUME NEW r \in Player, trade'.offer[r] # Nothing
      PROVE  Still(place, place', count, count', trade'.offer[r])
  <2>1. Lessened(trade, trade', S)
    BY <1>1, <1>3, CloseTradesLessens DEF TradeInv
  <2>2. r \notin S /\ trade'.offer[r] = trade.offer[r]
    BY <1>7, <2>1 DEF Lessened
  <2> QED
    BY <1>1, <1>2, <1>7, <2>2, Spared
<1> HIDE DEF S
<1> QED
  BY <1>1, <1>3, <1>4, <1>5, <1>6, <1>7, ClosingKeeps

(* Two stacks become one.                                                    *)
LEMMA MergeItemsKeeps ==
  ASSUME TradeInv, NEW p \in Player, NEW i \in Stack, NEW j \in Stack, MergeItems(p, i, j)
  PROVE  TradeInv' /\ Frozen
<1> DEFINE S == Disturbed(place, i, place[i]) \cup DisturbedByUpdating(place, j, place[j])
<1>1. /\ place' = [place EXCEPT ![i] = Gone] /\ trade' = CloseTrades(trade, S)
      /\ at' = at /\ count' = [count EXCEPT ![i] = 0, ![j] = @ + count[i]] /\ i # j
  BY DEF MergeItems
<1>2. Puts(place, i, Gone, place')
  BY <1>1, Sorts DEF TradeInv, Puts
<1>3. S \subseteq Player
  BY ToldPlayers
<1>4. place' \in [Item -> Place] /\ Acyclic(place')
  BY <1>2, PutIs
<1>5. Roomy(place')
  BY <1>2, PutRoomy, Sorts DEF TradeInv
<1>6. Counted(count')
  BY <1>1, CountedMerged DEF TradeInv
<1>7. ASSUME NEW r \in Player, trade'.offer[r] # Nothing
      PROVE  Still(place, place', count, count', trade'.offer[r])
  <2> DEFINE o == trade.offer[r]
  <2>1. Lessened(trade, trade', S)
    BY <1>1, <1>3, CloseTradesLessens DEF TradeInv
  <2>2. r \notin S /\ trade'.offer[r] = o /\ o # Nothing
    BY <1>7, <2>1 DEF Lessened
  <2>3. o \in Item /\ Has(at[r], place, r, o)
    BY <2>2, TradesAre DEF TradeInv, Agreed, Near
  <2>4. o \notin {j} \cup Around(place, j)
    BY <2>2, <2>3, UpdatingSpares, Sorts DEF TradeInv
  <2>5. \A s \in Stack \ {i} : s = o \/ o \in Around(place, s) => count'[s] = count[s]
    BY <1>1, <2>4 DEF TradeInv, Counted
  <2>6. r \notin DisturbedByAdding(place', i, Gone)
    BY Sorts DEF DisturbedByAdding
  <2> HIDE DEF S
  <2>7. r \notin Disturbed(place, i, place[i])
    BY <2>2 DEF S
  <2> QED
    BY <1>2, <2>2, <2>5, <2>6, <2>7, Spared
<1> HIDE DEF S
<1> QED
  BY <1>1, <1>3, <1>4, <1>5, <1>6, <1>7, ClosingKeeps

(* An item is used up.                                                       *)
LEMMA RemoveItemKeeps ==
  ASSUME TradeInv, NEW i \in Item, RemoveItem(i)
  PROVE  TradeInv' /\ Frozen
<1> DEFINE S == Disturbed(place, i, place[i])
<1>1. /\ place' = [place EXCEPT ![i] = Gone] /\ trade' = CloseTrades(trade, S)
      /\ at' = at /\ count' = [j \in Stack |-> IF j = i THEN 0 ELSE count[j]]
  BY DEF RemoveItem
<1>2. Puts(place, i, Gone, place')
  BY <1>1, Sorts DEF TradeInv, Puts
<1>3. S \subseteq Player
  BY ToldPlayers
<1>4. place' \in [Item -> Place] /\ Acyclic(place')
  BY <1>2, PutIs
<1>5. Roomy(place')
  BY <1>2, PutRoomy, Sorts DEF TradeInv
<1>6. Counted(count')
  BY <1>1, CountedWithout DEF TradeInv
<1>7. ASSUME NEW r \in Player, trade'.offer[r] # Nothing
      PROVE  Still(place, place', count, count', trade'.offer[r])
  <2>1. Lessened(trade, trade', S)
    BY <1>1, <1>3, CloseTradesLessens DEF TradeInv
  <2>2. r \notin S /\ trade'.offer[r] = trade.offer[r]
    BY <1>7, <2>1 DEF Lessened
  <2>3. \A s \in Stack \ {i} : count'[s] = count[s]
    BY <1>1
  <2>4. r \notin DisturbedByAdding(place', i, Gone)
    BY Sorts DEF DisturbedByAdding
  <2> QED
    BY <1>2, <1>7, <2>2, <2>3, <2>4, Spared
<1> HIDE DEF S
<1> QED
  BY <1>1, <1>3, <1>4, <1>5, <1>6, <1>7, ClosingKeeps

(* An item comes into the game.  No offer was inside of it.                  *)
LEMMA CreateItemKeeps ==
  ASSUME TradeInv, NEW i \in Item, NEW s \in Spot, CreateItem(i, s)
  PROVE  TradeInv' /\ Frozen
<1>1. /\ place[i] = Gone /\ place' = [place EXCEPT ![i] = s] /\ trade' = trade /\ at' = at
      /\ count' = [j \in Stack |-> IF j = i THEN 1 ELSE count[j]]
      /\ i \in Stack => Cardinality(UnitsOf(count)) < MaxCount
  BY DEF CreateItem, Units, UnitsOf
<1>2. Puts(place, i, s, place')
  BY <1>1, Sorts DEF TradeInv, Puts
<1>3. place' \in [Item -> Place] /\ Acyclic(place')
  BY <1>2, PutIs
<1>4. Roomy(place')
  BY <1>2, PutRoomy, Sorts DEF TradeInv
<1>5. Counted(count')
  BY <1>1, CountedWith DEF TradeInv
<1>6. /\ at \in [Player -> Spot \cup {Offline}] /\ place \in [Item -> Place] /\ Acyclic(place)
      /\ Agreed(trade) /\ trade \in Trades /\ Near(at, place, trade) /\ Apart(place, trade)
  BY DEF TradeInv, Agreed
<1>7. Around(place, i) = {} /\ Around(place', i) = {} /\ Root(place, i) = Gone
  <2>1. Around(place, i) = {} /\ Root(place, i) = Gone
    BY <1>1, <1>6, AroundRec, RootRec, Sorts
  <2> QED
    BY <1>2, <2>1, PutIs, Sorts
<1>8. ASSUME NEW r \in Player, trade'.offer[r] # Nothing
      PROVE  Still(place, place', count, count', trade'.offer[r])
  <2> DEFINE o == trade.offer[r]
  <2>1. o \in Item /\ Has(at[r], place, r, o) /\ trade'.offer[r] = o
    BY <1>1, <1>6, <1>8, TradesAre DEF Near
  <2> HIDE DEF o
  <2>2. Root(place, o) # Gone
    <3>1. Gone \notin {r} \X ToSet(Slot)
      BY Sorts DEF SlotOf
    <3>2. at[r] # Gone
      BY <1>6, Sorts
    <3> QED
      BY <2>1, <3>1, <3>2 DEF Has, Carries
  <2>3. o # i /\ i \notin Around(place, o)
    BY <1>6, <1>7, <2>1, <2>2, RootIs
  <2>4. \A j \in Stack : j = o \/ o \in Around(place, j) => count'[j] = count[j]
    BY <1>1, <1>7, <2>3
  <2> QED
    BY <1>2, <1>7, <2>1, <2>3, <2>4, PutStill
<1>9. Lessened(trade, trade', {})
  BY <1>1, <1>6 DEF Lessened
<1>10. Near(at, place', trade') /\ Apart(place', trade')
  BY <1>6, <1>8, <1>9, StillKeeps
<1>11. TradeInv'
  BY <1>1, <1>3, <1>4, <1>5, <1>6, <1>10 DEF TradeInv
<1>12. Frozen
  BY <1>1, <1>8 DEF Frozen, Still
<1> QED
  BY <1>11, <1>12

-----------------------------------------------------------------------------
(* The steps that leave all items where they are.                            *)

(* Nothing is noticed where nothing moves.                                   *)
LEMMA UnmovedFrozen ==
  ASSUME place' = place, count' = count
  PROVE  Frozen
BY DEF Frozen

(* One side calls the trade off.                                             *)
LEMMA CloseTradeKeeps ==
  ASSUME TradeInv, NEW p \in Player, trade' = CloseTrades(trade, {p}),
         at' = at, place' = place, count' = count
  PROVE  TradeInv' /\ Frozen
<1>1. \A o : Still(place, place, count, count, o)
  BY DEF Still
<1> QED
  BY <1>1, ClosingKeeps DEF TradeInv

(* A player walks, comes or leaves: who trades has closed the trade.         *)
LEMMA ElsewhereKeeps ==
  ASSUME TradeInv, NEW p \in Player, NEW x \in Spot \cup {Offline},
         at' = [at EXCEPT ![p] = x], place' = place, count' = count,
         trade' = IF trade.partner[p] # Nobody THEN CloseTrades(trade, {p}) ELSE trade
  PROVE  TradeInv' /\ Frozen
<1>1. /\ at \in [Player -> Spot \cup {Offline}] /\ place \in [Item -> Place]
      /\ Agreed(trade) /\ Apart(place, trade) /\ Near(at, place, trade)
      /\ trade \in Trades /\ Paired(trade) /\ Registered(trade)
  BY DEF TradeInv, Agreed
<1>2. Lessened(trade, trade', {p})
  <2>1. CASE trade.partner[p] # Nobody
    BY <1>1, <2>1, CloseTradesLessens
  <2>2. CASE trade.partner[p] = Nobody
    <3>1. trade' = trade /\ trade.offer[p] = Nothing
      BY <1>1, <2>2 DEF Paired
    <3>2. \A r \in Player : trade.partner[r] # p
      BY <1>1, <2>2, Sorts DEF Paired
    <3> QED
      BY <1>1, <2>2, <3>1, <3>2 DEF Lessened
  <2> QED
    BY <2>1, <2>2
<1>3. \A o : Still(place, place, count, count, o)
  BY DEF Still
<1>4. Near(at, place, trade') /\ Apart(place, trade')
  BY <1>1, <1>2, <1>3, StillKeeps DEF TradeInv
<1>5. Agreed(trade') /\ trade' \in Trades /\ Paired(trade')
  BY <1>2 DEF Lessened, Agreed
<1>6. trade'.partner[p] = Nobody /\ trade'.offer[p] = Nothing
  BY <1>2 DEF Lessened
<1>7. \A r \in Player : r # p => at'[r] = at[r]
  BY <1>1
<1>8. ASSUME NEW r \in Player
      PROVE  /\ trade'.partner[r] # Nobody => at'[r] # Offline /\ at'[trade'.partner[r]] = at'[r]
             /\ trade'.offer[r] # Nothing => Has(at'[r], place, r, trade'.offer[r])
  <2>1. CASE r = p
    BY <1>6, <2>1
  <2>2. CASE r # p
    <3>1. trade'.partner[r] # p
      <4>1. trade'.partner[r] # Nobody => trade'.partner[trade'.partner[r]] = r
        BY <1>5 DEF Paired
      <4> QED
        BY <1>6, <4>1, Sorts
    <3>2. trade'.partner[r] # Nobody => trade'.partner[r] \in Player
      BY <1>5, TradesAre
    <3> QED
      BY <1>4, <1>7, <2>2, <3>1, <3>2 DEF Near
  <2> QED
    BY <2>1, <2>2
<1>9. Near(at', place, trade')
  BY <1>8 DEF Near
<1>10. at' \in [Player -> Spot \cup {Offline}]
  BY <1>1
<1>11. TradeInv'
  BY <1>4, <1>5, <1>9, <1>10 DEF TradeInv
<1> QED
  BY <1>11, UnmovedFrozen

(* Who trades and walks leaves the partner behind.                           *)
LEMMA WalkKeeps ==
  ASSUME TradeInv, NEW p \in Player, NEW to \in Spot, Walk(p, to)
  PROVE  TradeInv' /\ Frozen
<1>1. Near(at, place, trade) /\ Paired(trade)
  BY DEF TradeInv, Agreed
<1>2. CASE trade.partner[p] # Nobody
  <2>1. at[trade.partner[p]] # to
    BY <1>1, <1>2 DEF Near, Walk
  <2> QED
    BY <1>2, <2>1, ElsewhereKeeps DEF Walk
<1>3. CASE trade.partner[p] = Nobody
  <2>1. trade.offer[p] = Nothing
    BY <1>1, <1>3 DEF Paired
  <2> QED
    BY <1>3, <2>1, ElsewhereKeeps DEF Walk
<1> QED
  BY <1>2, <1>3

(* Nobody trades who is not in the game.                                     *)
LEMMA LoginKeeps ==
  ASSUME TradeInv, NEW p \in Player, NEW to \in Spot, TradeLogin(p, to)
  PROVE  TradeInv' /\ Frozen
<1>1. trade.partner[p] = Nobody
  BY DEF TradeInv, Near, TradeLogin
<1> QED
  BY <1>1, ElsewhereKeeps DEF TradeLogin

(* Who leaves the game ends the trade.                                       *)
LEMMA LogoutKeeps ==
  ASSUME TradeInv, NEW p \in Player, TradeLogout(p)
  PROVE  TradeInv' /\ Frozen
BY ElsewhereKeeps DEF TradeLogout

(* A trade begins, or the partner makes an offer as well.                    *)
LEMMA RequestTradeKeeps ==
  ASSUME TradeInv, NEW p \in Player, NEW q \in Player, NEW i \in Item,
         PlayerRequestTrade(p, q, i)
  PROVE  TradeInv' /\ Frozen
<1> DEFINE t == trade
           u == trade'
<1>1. /\ at \in [Player -> Spot \cup {Offline}] /\ place \in [Item -> Place] /\ Acyclic(place)
      /\ Apart(place, t) /\ Near(at, place, t) /\ t \in Trades /\ Paired(t) /\ Registered(t)
  BY DEF TradeInv, Agreed
<1>2. /\ p # q /\ at[p] # Offline /\ at[p] = at[q]
      /\ Has(at[p], place, p, i)
      /\ \A j \in Item : t.items[j] # Nobody =>
           i # j /\ j \notin Around(place, i) /\ i \notin Around(place, j)
      /\ t.state[p] = "NONE" \/ (t.state[p] = "ACKNOWLEDGE" /\ t.partner[p] = q)
      /\ t.state[q] = "NONE" \/ t.partner[q] = p
      /\ at' = at /\ place' = place /\ count' = count
  BY DEF PlayerRequestTrade, Reaches, Has
<1>3. /\ u.state = [t.state EXCEPT ![p] = "INITIATED",
                                   ![q] = IF @ = "NONE" THEN "ACKNOWLEDGE" ELSE @]
      /\ u.partner = [t.partner EXCEPT ![p] = q, ![q] = p]
      /\ u.offer = [t.offer EXCEPT ![p] = i]
      /\ u.items = [t.items EXCEPT ![i] = p]
      /\ u = [state |-> u.state, partner |-> u.partner, offer |-> u.offer, items |-> u.items]
  BY DEF PlayerRequestTrade
<1> HIDE DEF t, u
<1>4. /\ u.state \in [Player -> {"NONE", "INITIATED", "ACCEPT", "ACKNOWLEDGE"}]
      /\ u.partner \in [Player -> Player \cup {Nobody}]
      /\ u.offer \in [Player -> Item \cup {Nothing}]
      /\ u.items \in [Item -> Player \cup {Nobody}]
  <2>1. /\ t.state \in [Player -> {"NONE", "INITIATED", "ACCEPT", "ACKNOWLEDGE"}]
        /\ t.partner \in [Player -> Player \cup {Nobody}]
        /\ t.offer \in [Player -> Item \cup {Nothing}]
        /\ t.items \in [Item -> Player \cup {Nobody}]
    BY <1>1, TradesAre
  <2> QED
    BY <1>3, <2>1
<1>5. u \in Trades
  BY <1>3, <1>4 DEF Trades
<1>6. /\ u.state[p] = "INITIATED"
      /\ u.state[q] = IF t.state[q] = "NONE" THEN "ACKNOWLEDGE" ELSE t.state[q]
      /\ u.partner[p] = q /\ u.partner[q] = p /\ u.offer[p] = i /\ u.offer[q] = t.offer[q]
      /\ \A r \in Player \ {p, q} : /\ u.state[r] = t.state[r] /\ u.partner[r] = t.partner[r]
                                    /\ u.offer[r] = t.offer[r]
      /\ u.items[i] = p /\ \A j \in Item \ {i} : u.items[j] = t.items[j]
  BY <1>1, <1>2, <1>3, TradesAre
<1>7. t.offer[p] = Nothing /\ t.items[i] = Nobody
  BY <1>1, <1>2 DEF Paired
<1>8. \A r \in Player \ {p, q} : t.partner[r] # p /\ t.partner[r] # q
  <2> SUFFICES ASSUME NEW r \in Player \ {p, q} PROVE t.partner[r] # p /\ t.partner[r] # q
    OBVIOUS
  <2>1. t.partner[r] = p => t.partner[p] = r
    BY <1>1, Sorts DEF Paired
  <2>2. t.partner[r] = q => t.partner[q] = r
    BY <1>1, Sorts DEF Paired
  <2>3. t.partner[p] \in {Nobody, q} /\ t.partner[q] \in {Nobody, p}
    BY <1>1, <1>2 DEF Paired
  <2> QED
    BY <2>1, <2>2, <2>3, Sorts
<1>9. Paired(u)
  <2> SUFFICES ASSUME NEW r \in Player
               PROVE  IF u.partner[r] = Nobody THEN u.state[r] = "NONE" /\ u.offer[r] = Nothing
                      ELSE /\ u.partner[r] # r
                           /\ u.partner[u.partner[r]] = r
                           /\ u.state[r] # "NONE"
                           /\ u.state[r] = "INITIATED" => u.offer[r] # Nothing
                           /\ u.state[r] = "ACKNOWLEDGE" => u.offer[r] = Nothing
    BY DEF Paired
  <2>1. CASE r = p
    BY <1>2, <1>6, <2>1, Sorts
  <2>2. CASE r = q
    <3>1. t.state[q] = "NONE" => t.offer[q] = Nothing
      BY <1>1 DEF Paired
    <3>2. t.state[q] = "INITIATED" => t.offer[q] # Nothing
      BY <1>1 DEF Paired
    <3>3. t.state[q] = "ACKNOWLEDGE" => t.offer[q] = Nothing
      BY <1>1 DEF Paired
    <3> QED
      BY <1>2, <1>6, <2>2, <3>1, <3>2, <3>3, Sorts
  <2>3. CASE r # p /\ r # q
    <3>1. u.state[r] = t.state[r] /\ u.partner[r] = t.partner[r] /\ u.offer[r] = t.offer[r]
      BY <1>6, <2>3
    <3>2. t.partner[r] # Nobody => u.partner[t.partner[r]] = t.partner[t.partner[r]]
      BY <1>1, <1>6, <1>8, <2>3, TradesAre
    <3> QED
      BY <1>1, <3>1, <3>2 DEF Paired
  <2> QED
    BY <2>1, <2>2, <2>3
<1>10. Registered(u)
  <2>1. ASSUME NEW r \in Player, u.offer[r] # Nothing PROVE u.items[u.offer[r]] = r
    <3>1. CASE r = p
      BY <1>6, <3>1
    <3>2. CASE r # p
      <4>1. u.offer[r] = t.offer[r] /\ t.offer[r] \in Item /\ t.items[t.offer[r]] = r
        BY <1>1, <1>6, <2>1, <3>2, TradesAre DEF Registered
      <4> QED
        BY <1>6, <1>7, <4>1, Sorts
    <3> QED
      BY <3>1, <3>2
  <2>2. ASSUME NEW j \in Item, u.items[j] # Nobody PROVE u.offer[u.items[j]] = j
    <3>1. CASE j = i
      BY <1>6, <3>1
    <3>2. CASE j # i
      <4>1. u.items[j] = t.items[j] /\ t.items[j] \in Player /\ t.offer[t.items[j]] = j
        BY <1>1, <1>6, <2>2, <3>2, TradesAre DEF Registered
      <4>2. t.items[j] # p
        BY <1>7, <4>1, Sorts
      <4> QED
        BY <1>6, <4>1, <4>2
    <3> QED
      BY <3>1, <3>2
  <2> QED
    BY <2>1, <2>2 DEF Registered
<1>11. Apart(place, u)
  <2> SUFFICES ASSUME NEW j \in Item, u.items[j] # Nobody, NEW b \in Around(place, j)
               PROVE  u.items[b] = Nobody
    BY DEF Apart
  <2>1. b \in Item /\ b # j
    BY <1>1, AroundIs, Sorts
  <2>2. CASE j = i
    BY <1>2, <1>6, <2>1, <2>2
  <2>3. CASE j # i
    BY <1>1, <1>2, <1>6, <2>1, <2>3 DEF Apart
  <2> QED
    BY <2>2, <2>3
<1>12. Near(at, place, u)
  <2> SUFFICES ASSUME NEW r \in Player
               PROVE  /\ u.partner[r] # Nobody => at[r] # Offline /\ at[u.partner[r]] = at[r]
                      /\ u.offer[r] # Nothing => Has(at[r], place, r, u.offer[r])
    BY DEF Near
  <2>1. CASE r = p
    BY <1>2, <1>6, <2>1
  <2>2. CASE r = q
    BY <1>1, <1>2, <1>6, <2>2 DEF Near
  <2>3. CASE r # p /\ r # q
    BY <1>1, <1>6, <2>3 DEF Near
  <2> QED
    BY <2>1, <2>2, <2>3
<1>13. TradeInv'
  BY <1>2, <1>5, <1>9, <1>10, <1>11, <1>12 DEF TradeInv, Agreed, u
<1> QED
  BY <1>2, <1>13, UnmovedFrozen

-----------------------------------------------------------------------------
(* Where a player would get an item that is not added to a stack.            *)

(* A set of natural numbers has a smallest one.                              *)
LEMMA SmallestIs ==
  ASSUME NEW S, S \subseteq Nat, S # {}
  PROVE  \E x \in S : \A y \in S : x <= y
<1>1. PICK x \in S : \A y \in S : ~ (<<y, x>> \in OpToRel(<, Nat))
  BY NatLessThanWellFounded, WFMin
<1>2. \A y \in S : ~ (y < x)
  BY <1>1 DEF OpToRel
<1> QED
  BY <1>2

Empty(in, p, i, s) == Fits(s, i) /\ {j \in Item : in[j] = <<p, s>>} = {}

(* The slots that would do, by their numbers.                                *)
SlotsFor(in, p, i) == {k \in 1 .. Len(Slot) : Empty(in, p, i, Slot[k])}

PassedOver(in, b, i, offer) == \E j \in {b} \cup Around(in, b) : j \in {i, offer} /\ in[j] \in SlotOf

(* The containers that would do.                                             *)
BagsFor(in, p, i, offer) ==
  {b \in Bag : Carries(in, p, b) /\ ~PassedOver(in, b, i, offer) /\ HasRoom(in, b, i)}

Least(in, S) == {b \in S : \A c \in S : Cardinality(Around(in, b)) <= Cardinality(Around(in, c))}

(* Candidates, when i looks for no stack.                                    *)
LEMMA CandidatesAre ==
  ASSUME NEW in, NEW p, NEW i, NEW offer
  PROVE  Candidates(in, p, i, FALSE, offer) =
           IF SlotsFor(in, p, i) # {} THEN {<<p, Slot[Min(SlotsFor(in, p, i))]>>}
           ELSE Least(in, BagsFor(in, p, i, offer))
<1> DEFINE InSlot(s) == {j \in Item : in[j] = <<p, s>>}
           PO(j) == j \in {i, offer} /\ (FALSE \/ in[j] \in SlotOf)
           open == {b \in Bag : /\ Carries(in, p, b)
                                /\ \A j \in {b} \cup Around(in, b) : ~PO(j)}
           Depth(b) == Cardinality(Around(in, b))
           Test(s) == /\ Fits(s, i)
                      /\ \/ InSlot(s) = {}
                         \/ FALSE /\ InSlot(s) \subseteq Stack \ {i, offer}
           slot == SelectInSeq(Slot, Test)
           InBag(b) == LET stacks == {j \in Stack \ {i, offer} : in[j] = b}
                       IN  IF FALSE /\ stacks # {} THEN stacks
                           ELSE IF HasRoom(in, b, i) THEN {b} ELSE {}
           fitting == {b \in open : InBag(b) # {}}
           C == Candidates(in, p, i, FALSE, offer)
<1>1. C = IF slot # 0
          THEN IF InSlot(Slot[slot]) = {} THEN {<<p, Slot[slot]>>} ELSE InSlot(Slot[slot])
          ELSE UNION {InBag(b) : b \in {b \in fitting : \A c \in fitting : Depth(b) <= Depth(c)}}
  BY DEF Candidates
<1>2. slot = IF SlotsFor(in, p, i) # {} THEN Min(SlotsFor(in, p, i)) ELSE 0
  BY DEF SelectInSeq, SlotsFor, Empty
<1>3. SlotsFor(in, p, i) # {} =>
        Min(SlotsFor(in, p, i)) \in SlotsFor(in, p, i)
  <2>1. SlotsFor(in, p, i) \subseteq Nat
    BY DEF SlotsFor
  <2> QED
    BY <2>1, SmallestIs DEF Min
<1>4. \A k \in SlotsFor(in, p, i) : k # 0 /\ InSlot(Slot[k]) = {}
  BY DEF SlotsFor, Empty
<1>5. \A b : InBag(b) = IF HasRoom(in, b, i) THEN {b} ELSE {}
  OBVIOUS
<1>6. fitting = BagsFor(in, p, i, offer)
  BY <1>5 DEF BagsFor, PassedOver
<1> HIDE DEF InBag, fitting, slot, C
<1>7. UNION {InBag(b) : b \in {b \in fitting : \A c \in fitting : Depth(b) <= Depth(c)}}
        = Least(in, BagsFor(in, p, i, offer))
  <2>1. \A b \in fitting : InBag(b) = {b}
    BY <1>5, <1>6 DEF BagsFor
  <2> QED
    BY <1>6, <2>1 DEF Least
<1> QED
  BY <1>1, <1>2, <1>3, <1>4, <1>7 DEF C

(* If there is a container, one is least deep.                               *)
LEMMA LeastIs ==
  ASSUME NEW in, Acyclic(in), NEW S, S \subseteq Bag, S # {}
  PROVE  Least(in, S) # {}
<1> DEFINE Depth(b) == Cardinality(Around(in, b))
           D == {Depth(b) : b \in S}
<1>1. \A b \in S : Depth(b) \in Nat
  BY TradeAssumption, AroundIs, Sorts, FS_Subset, FS_CardinalityType
<1>2. D \subseteq Nat /\ D # {}
  BY <1>1
<1>3. PICK n \in D : \A m \in D : n <= m
  <2> HIDE DEF D
  <2> QED
    BY <1>2, SmallestIs
<1>4. PICK b \in S : n = Depth(b)
  OBVIOUS
<1>5. b \in Least(in, S)
  BY <1>3, <1>4 DEF Least
<1> QED
  BY <1>5

(* A place for i: an empty slot of p, or a container with room that p has.   *)
PlaceFor(in, p, i, d) ==
  \/ d \in {p} \X ToSet(Slot)
  \/ /\ d \in Bag /\ Carries(in, p, d)
     /\ Cardinality({j \in Item : in[j] = d}) < BagSize
     /\ i \notin {d} \cup Around(in, d)

(* Such a place has room, if it is a container.                              *)
LEMMA PlaceForRoom ==
  ASSUME NEW in, NEW p \in Player, NEW i, NEW d, PlaceFor(in, p, i, d)
  PROVE  d \in Bag => Cardinality({x \in Item : in[x] = d}) < BagSize
BY Sorts DEF PlaceFor, SlotOf

(* What Destinations finds without autostack.                                *)
LEMMA DestinationsAre ==
  ASSUME NEW in, NEW p \in Player, NEW i \in Item, NEW offer,
         NEW d \in Destinations(in, p, i, FALSE, offer), d # Nothing
  PROVE  d \in Place /\ PlaceFor(in, p, i, d)
<1>1. d \in Candidates(in, p, i, FALSE, offer)
  BY DEF Destinations
<1>2. CASE SlotsFor(in, p, i) # {}
  <2> DEFINE k == Min(SlotsFor(in, p, i))
  <2>1. k \in SlotsFor(in, p, i)
    <3>1. SlotsFor(in, p, i) \subseteq Nat
      BY DEF SlotsFor
    <3> QED
      BY <1>2, <3>1, SmallestIs DEF Min
  <2>2. d = <<p, Slot[k]>>
    BY <1>1, <1>2, CandidatesAre
  <2> HIDE DEF k
  <2>3. Slot[k] \in ToSet(Slot)
    BY <2>1, TradeAssumption DEF SlotsFor, ToSet
  <2> QED
    BY <2>2, <2>3, Sorts DEF PlaceFor, SlotOf
<1>3. CASE SlotsFor(in, p, i) = {}
  <2>1. d \in BagsFor(in, p, i, offer)
    <3>1. d \in Least(in, BagsFor(in, p, i, offer))
      BY <1>1, <1>3, CandidatesAre
    <3> QED
      BY <3>1 DEF Least
  <2> QED
    BY <2>1, Sorts DEF BagsFor, PlaceFor, HasRoom
<1> QED
  BY <1>2, <1>3

(* It finds something if there is a slot or a container.                     *)
LEMMA DestinationsFound ==
  ASSUME NEW in, Acyclic(in), NEW p \in Player, NEW i \in Item, NEW offer
  PROVE  Nothing \notin Destinations(in, p, i, FALSE, offer)
           <=> SlotsFor(in, p, i) # {} \/ BagsFor(in, p, i, offer) # {}
<1> DEFINE C == Candidates(in, p, i, FALSE, offer)
           B == BagsFor(in, p, i, offer)
<1>1. C # {} <=> SlotsFor(in, p, i) # {} \/ B # {}
  <2>1. B \subseteq Bag
    BY DEF BagsFor
  <2>2. B # {} => Least(in, B) # {}
    BY <2>1, LeastIs
  <2>3. B = {} => Least(in, B) = {}
    BY DEF Least
  <2> HIDE DEF B
  <2> QED
    BY <2>2, <2>3, CandidatesAre DEF B
<1>2. Destinations(in, p, i, FALSE, offer) = IF C = {} THEN {Nothing} ELSE C
  BY DEF Destinations
<1>3. Nothing \notin C
  <2> SUFFICES ASSUME Nothing \in C PROVE FALSE
    OBVIOUS
  <2>1. CASE SlotsFor(in, p, i) # {}
    <3> DEFINE k == Min(SlotsFor(in, p, i))
    <3>1. k \in SlotsFor(in, p, i)
      <4>1. SlotsFor(in, p, i) \subseteq Nat
        BY DEF SlotsFor
      <4> QED
        BY <2>1, <4>1, SmallestIs DEF Min
    <3>2. Nothing = <<p, Slot[k]>>
      BY <2>1, CandidatesAre
    <3> HIDE DEF k
    <3>3. Slot[k] \in ToSet(Slot)
      BY <3>1, TradeAssumption DEF SlotsFor, ToSet
    <3> QED
      BY <3>2, <3>3, Sorts DEF SlotOf
  <2>2. CASE SlotsFor(in, p, i) = {}
    <3>1. C = Least(in, B)
      BY <2>2, CandidatesAre
    <3>2. Least(in, B) \subseteq Bag
      BY DEF Least, BagsFor
    <3> HIDE DEF C, B
    <3> QED
      BY <3>1, <3>2, Sorts
  <2> QED
    BY <2>1, <2>2
<1> HIDE DEF C, B
<1> QED
  BY <1>1, <1>2, <1>3 DEF B

(* What looks for no stack is not put on one.                                *)
LEMMA NoStack ==
  ASSUME NEW in, NEW p, NEW i, i \notin Stack, NEW offer
  PROVE  Destinations(in, p, i, TRUE, offer) = Destinations(in, p, i, FALSE, offer)
<1>1. (TRUE /\ i \in Stack) = (FALSE /\ i \in Stack)
  OBVIOUS
<1> QED
  BY <1>1 DEF Destinations

-----------------------------------------------------------------------------
(* The exchange.                                                             *)

(* i has gone to q: what p can get still finds a place, if it did before.  A *)
(* container inside of i is lost, but then the one that i was in has room.   *)
LEMMA StillRoom ==
  ASSUME NEW in, NEW i, NEW d, NEW to, Puts(in, i, d, to), Roomy(in),
         NEW p \in Player, NEW q \in Player, p # q, PlaceFor(in, q, i, d),
         NEW j \in Item, i # j, i \notin Around(in, j), j \notin Around(in, i),
         SlotsFor(in, p, j) # {} \/ BagsFor(in, p, j, i) # {}
  PROVE  SlotsFor(to, p, j) # {} \/ BagsFor(to, p, j, i) # {}
<1>1. /\ in \in [Item -> Place] /\ Acyclic(in) /\ i \in Item
      /\ to[i] = d /\ \A x \in Item : x # i => to[x] = in[x]
  BY DEF Puts
<1>2. ASSUME NEW k \in SlotsFor(in, p, j) PROVE k \in SlotsFor(to, p, j)
  <2>1. <<p, Slot[k]>> \in SlotOf
    BY TradeAssumption DEF SlotsFor, ToSet, SlotOf
  <2>2. d # <<p, Slot[k]>>
    BY <2>1, Sorts DEF PlaceFor
  <2> QED
    BY <1>1, <2>2 DEF SlotsFor, Empty
<1>3. ASSUME NEW c \in Bag, Carries(in, p, c) PROVE d # c
  <2> SUFFICES ASSUME d = c PROVE FALSE
    OBVIOUS
  <2>1. Carries(in, q, c)
    BY Sorts DEF PlaceFor, SlotOf
  <2> QED
    BY <1>3, <2>1 DEF Carries
<1>4. ASSUME NEW c \in Bag, Carries(in, p, c), i \notin {c} \cup Around(in, c)
      PROVE  /\ Around(to, c) = Around(in, c) /\ Carries(to, p, c)
             /\ \A x \in {c} \cup Around(in, c) : to[x] = in[x]
             /\ {x \in Item : to[x] = c} = {x \in Item : in[x] = c} \ {i}
  <2>1. Around(to, c) = Around(in, c) /\ Root(to, c) = Root(in, c)
    BY <1>4, PutIs, Sorts
  <2>2. \A x \in {c} \cup Around(in, c) : x \in Item /\ x # i
    BY <1>1, <1>4, AroundIs, Sorts
  <2>3. d # c
    BY <1>3, <1>4
  <2>4. {x \in Item : to[x] = c} = {x \in Item : in[x] = c} \ {i}
    BY <1>1, <2>3
  <2> QED
    BY <1>1, <1>4, <2>1, <2>2, <2>4 DEF Carries
<1>5. ASSUME NEW c
      PROVE  /\ IsFiniteSet({x \in Item : in[x] = c})
             /\ Cardinality({x \in Item : in[x] = c}) \in Nat
             /\ Cardinality({x \in Item : in[x] = c} \ {i}) \in Nat
             /\ Cardinality({x \in Item : in[x] = c} \ {i}) =
                  IF in[i] = c THEN Cardinality({x \in Item : in[x] = c}) - 1
                  ELSE Cardinality({x \in Item : in[x] = c})
  <2> DEFINE A == {x \in Item : in[x] = c}
  <2>1. IsFiniteSet(A) /\ (i \in A <=> in[i] = c)
    BY <1>1, TradeAssumption, FS_Subset
  <2> HIDE DEF A
  <2>2. /\ IsFiniteSet(A \ {i})
        /\ Cardinality(A \ {i}) = IF i \in A THEN Cardinality(A) - 1 ELSE Cardinality(A)
    BY <2>1, FS_RemoveElement
  <2>3. Cardinality(A) \in Nat /\ Cardinality(A \ {i}) \in Nat
    BY <2>1, <2>2, FS_CardinalityType
  <2> QED
    BY <2>1, <2>2, <2>3 DEF A
<1>6. ASSUME NEW b \in BagsFor(in, p, j, i), i \notin {b} \cup Around(in, b)
      PROVE  b \in BagsFor(to, p, j, i)
  <2>1. b \in Bag /\ Carries(in, p, b) /\ ~PassedOver(in, b, j, i)
        /\ Cardinality({x \in Item : in[x] = b}) < BagSize /\ j \notin {b} \cup Around(in, b)
    BY DEF BagsFor, HasRoom
  <2>2. /\ Around(to, b) = Around(in, b) /\ Carries(to, p, b)
        /\ \A x \in {b} \cup Around(in, b) : to[x] = in[x]
        /\ {x \in Item : to[x] = b} = {x \in Item : in[x] = b} \ {i}
    BY <1>4, <1>6, <2>1
  <2>3. ~PassedOver(to, b, j, i)
    BY <2>1, <2>2 DEF PassedOver
  <2>4. Cardinality({x \in Item : to[x] = b}) < BagSize
    <3> DEFINE n == Cardinality({x \in Item : in[x] = b})
               m == Cardinality({x \in Item : in[x] = b} \ {i})
    <3>1. n \in Nat /\ m \in Nat /\ m = IF in[i] = b THEN n - 1 ELSE n
      BY <1>5
    <3>2. Cardinality({x \in Item : to[x] = b}) = m /\ n < BagSize
      BY <2>1, <2>2
    <3> HIDE DEF n, m
    <3> QED
      BY <3>1, <3>2, TradeAssumption
  <2> QED
    BY <2>1, <2>2, <2>3, <2>4 DEF BagsFor, HasRoom
<1>7. ASSUME NEW b \in BagsFor(in, p, j, i), i \in {b} \cup Around(in, b)
      PROVE  in[i] \in BagsFor(to, p, j, i)
  <2> DEFINE c == in[i]
  <2>1. b \in Bag /\ b \in Item /\ Carries(in, p, b) /\ ~PassedOver(in, b, j, i)
    BY Sorts DEF BagsFor
  <2>2. Root(in, i) = Root(in, b)
    BY <1>1, <1>7, <2>1, RootIs
  <2>3. c \notin SlotOf
    BY <1>7, <2>1 DEF PassedOver
  <2>4. c \in Bag
    <3>1. Root(in, i) \in SlotOf
      BY <2>1, <2>2 DEF Carries, SlotOf
    <3> QED
      BY <1>1, <2>3, <3>1, RootRec
  <2>5. c \in Around(in, i) /\ Around(in, c) \subseteq Around(in, i) /\ i \notin Around(in, i)
    BY <1>1, <2>4, AroundIs
  <2>6. Carries(in, p, c)
    BY <1>1, <2>1, <2>2, <2>5, RootIs DEF Carries
  <2>7. j \notin {c} \cup Around(in, c) /\ i \notin {c} \cup Around(in, c)
    BY <2>5
  <2> HIDE DEF c
  <2>8. /\ Around(to, c) = Around(in, c) /\ Carries(to, p, c)
        /\ {x \in Item : to[x] = c} = {x \in Item : in[x] = c} \ {i}
    BY <1>4, <2>4, <2>6, <2>7
  <2>9. ~PassedOver(to, c, j, i)
    BY <2>7, <2>8 DEF PassedOver
  <2>10. Cardinality({x \in Item : to[x] = c}) < BagSize
    <3> DEFINE n == Cardinality({x \in Item : in[x] = c})
               m == Cardinality({x \in Item : in[x] = c} \ {i})
    <3>1. n \in Nat /\ m \in Nat /\ m = IF in[i] = c THEN n - 1 ELSE n
      BY <1>5
    <3>2. Cardinality({x \in Item : to[x] = c}) = m /\ n <= BagSize
      BY <2>4, <2>8 DEF Roomy
    <3>3. in[i] = c
      BY DEF c
    <3> HIDE DEF n, m
    <3> QED
      BY <3>1, <3>2, <3>3, TradeAssumption
  <2>11. c \in BagsFor(to, p, j, i)
    BY <2>4, <2>7, <2>8, <2>9, <2>10 DEF BagsFor, HasRoom
  <2> QED
    BY <2>11 DEF c
<1> QED
  BY <1>2, <1>6, <1>7

(* An offer of another player does not notice what q gets.                   *)
LEMMA ForeignStill ==
  ASSUME at \in [Player -> Spot \cup {Offline}],
         NEW in, NEW i, NEW d, NEW to, Puts(in, i, d, to), NEW c,
         NEW q \in Player, PlaceFor(in, q, i, d),
         NEW r \in Player, r # q, NEW o \in Item, Has(at[r], in, r, o),
         o # i, i \notin Around(in, o), o \notin Around(in, i)
  PROVE  Still(in, to, c, c, o)
<1>1. in \in [Item -> Place] /\ Acyclic(in) /\ i \in Item
  BY DEF Puts
<1>2. o \notin Around(to, i)
  <2> SUFFICES ASSUME o \in Around(to, i) PROVE FALSE
    OBVIOUS
  <2>1. d \in Bag /\ o \in {d} \cup Around(in, d)
    BY PutIs
  <2>2. Carries(in, q, d) /\ d \in Item
    BY <2>1, Sorts DEF PlaceFor, SlotOf
  <2>3. Root(in, o) = Root(in, d)
    BY <1>1, <2>1, <2>2, RootIs
  <2>4. Root(in, o) \in {q} \X ToSet(Slot) /\ Root(in, o) \in SlotOf
    BY <2>2, <2>3 DEF Carries, SlotOf
  <2>5. at[r] \notin SlotOf
    BY Sorts
  <2> QED
    BY <2>4, <2>5 DEF Has, Carries
<1> QED
  BY <1>2, PutStill

(* The first move puts i at a place of q, or nowhere.                        *)
LEMMA FirstMoveIs ==
  ASSUME NEW in \in [Item -> Place], Acyclic(in), NEW q \in Player,
         NEW i \in Item, NEW j \in Item, NEW first \in FirstMove(in, q, i, j)
  PROVE  \/ first = in
         \/ \E d : /\ Puts(in, i, d, first) /\ PlaceFor(in, q, i, d)
                   /\ d \in Bag => j \notin {d} \cup Around(in, d)
<1> SUFFICES ASSUME first # in
             PROVE  \E d : /\ Puts(in, i, d, first) /\ PlaceFor(in, q, i, d)
                           /\ d \in Bag => j \notin {d} \cup Around(in, d)
  OBVIOUS
<1>1. PICK d \in Destinations(in, q, i, FALSE, j) :
        /\ d # Nothing /\ ~(d \in Bag /\ j \in {d} \cup Around(in, d))
        /\ first = [in EXCEPT ![i] = d]
  BY DEF FirstMove
<1>2. d \in Place /\ PlaceFor(in, q, i, d)
  BY <1>1, DestinationsAre
<1>3. d \in Bag => i \notin {d} \cup Around(in, d)
  BY <1>2, Sorts DEF PlaceFor, SlotOf
<1>4. Puts(in, i, d, first)
  BY <1>1, <1>2, <1>3 DEF Puts
<1> QED
  BY <1>1, <1>2, <1>4

(* ... and the second one j at one of p, or nowhere.                         *)
LEMMA SecondMoveIs ==
  ASSUME NEW in \in [Item -> Place], Acyclic(in), NEW p \in Player,
         NEW i \in Item, NEW j \in Item, NEW to \in SecondMove(in, p, i, j)
  PROVE  \/ to = in /\ Nothing \in Destinations(in, p, j, FALSE, i)
         \/ \E d : Puts(in, j, d, to) /\ PlaceFor(in, p, j, d)
<1>1. PICK d \in Destinations(in, p, j, FALSE, i) :
        to = IF d = Nothing THEN in ELSE [in EXCEPT ![j] = d]
  BY DEF SecondMove
<1>2. CASE d = Nothing
  BY <1>1, <1>2
<1>3. CASE d # Nothing
  <2>1. d \in Place /\ PlaceFor(in, p, j, d)
    BY <1>1, <1>3, DestinationsAre
  <2>2. d \in Bag => j \notin {d} \cup Around(in, d)
    BY <2>1, Sorts DEF PlaceFor, SlotOf
  <2>3. Puts(in, j, d, to)
    BY <1>1, <1>3, <2>1, <2>2 DEF Puts
  <2> QED
    BY <2>1, <2>3
<1> QED
  BY <1>2, <1>3

(* Who gets an item carries it.                                              *)
LEMMA PutCarries ==
  ASSUME NEW in, NEW i, NEW d, NEW to, Puts(in, i, d, to), NEW q \in Player,
         PlaceFor(in, q, i, d)
  PROVE  Carries(to, q, i)
<1>1. Root(to, i) = IF d \in Bag THEN Root(in, d) ELSE d
  BY PutIs
<1> QED
  BY <1>1, Sorts DEF PlaceFor, Carries, SlotOf

(* Others do not notice an exchange, and there is room for what is given.    *)
LEMMA ExchangeKeeps ==
  ASSUME TradeInv, NEW p \in Player, NEW q, q = trade.partner[p], q # Nobody,
         NEW i, i = trade.offer[p], NEW j, j = trade.offer[q],
         MayExchange(p, q, i, j),
         NEW first \in FirstMove(place, q, i, j), first # place,
         NEW to \in SecondMove(first, p, i, j)
  PROVE  /\ to \in [Item -> Place] /\ Acyclic(to) /\ Roomy(to)
         /\ \A r \in Player \ {p, q} : trade.offer[r] # Nothing =>
              Still(place, to, count, count, trade.offer[r])
         /\ Carries(to, q, i)
         /\ Carries(to, p, j) \/ j \in Stack
<1>1. /\ at \in [Player -> Spot \cup {Offline}] /\ place \in [Item -> Place] /\ Acyclic(place)
      /\ Roomy(place) /\ Apart(place, trade) /\ Near(at, place, trade)
      /\ trade \in Trades /\ Paired(trade) /\ Registered(trade)
  BY DEF TradeInv, Agreed
<1>2. q \in Player /\ p # q
  BY <1>1, TradesAre DEF Paired
<1>3. i \in Item /\ j \in Item /\ trade.items[i] = p /\ trade.items[j] = q
  BY <1>1, <1>2, TradesAre DEF MayExchange, Registered
<1>4. i # j /\ i \notin Around(place, j) /\ j \notin Around(place, i)
  BY <1>1, <1>2, <1>3, Sorts DEF Apart
<1>5. PICK d : /\ Puts(place, i, d, first) /\ PlaceFor(place, q, i, d)
               /\ d \in Bag => j \notin {d} \cup Around(place, d)
  BY <1>1, <1>2, <1>3, FirstMoveIs
<1>6. first \in [Item -> Place] /\ Acyclic(first) /\ Roomy(first)
  <2>1. Roomy(first)
    <3>1. d \in Bag => Cardinality({x \in Item : place[x] = d}) < BagSize
      BY <1>2, <1>5, PlaceForRoom
    <3> QED
      BY <1>1, <1>5, <3>1, PutRoomy
  <2> QED
    BY <1>5, <2>1, PutIs
<1>7. Around(first, j) = Around(place, j)
  BY <1>3, <1>4, <1>5, PutIs
<1>8. j \notin Around(first, i)
  BY <1>5, PutIs
<1>9. Carries(first, q, i)
  BY <1>2, <1>5, PutCarries
<1>10. ASSUME NEW r \in Player \ {p, q}, trade.offer[r] # Nothing
       PROVE  /\ Still(place, first, count, count, trade.offer[r])
              /\ trade.offer[r] \in Item /\ trade.offer[r] # j
              /\ Has(at[r], first, r, trade.offer[r])
              /\ j \notin Around(first, trade.offer[r])
              /\ trade.offer[r] \notin Around(first, j)
  <2> DEFINE o == trade.offer[r]
  <2>1. o \in Item /\ Has(at[r], place, r, o) /\ trade.items[o] = r
    BY <1>1, <1>10, TradesAre DEF Near, Registered
  <2> HIDE DEF o
  <2>2. /\ o # i /\ i \notin Around(place, o) /\ o \notin Around(place, i)
        /\ o # j /\ j \notin Around(place, o) /\ o \notin Around(place, j)
    BY <1>1, <1>2, <1>3, <2>1, Sorts DEF Apart
  <2>3. Still(place, first, count, count, o)
    BY <1>1, <1>2, <1>5, <2>1, <2>2, ForeignStill
  <2>4. Has(at[r], first, r, o)
    BY <2>1, <2>3 DEF Has, Carries, Still
  <2>5. Around(first, o) = Around(place, o)
    BY <2>3 DEF Still
  <2> QED
    BY <1>7, <2>1, <2>2, <2>3, <2>4, <2>5 DEF o
<1>11. CASE to = first /\ Nothing \in Destinations(first, p, j, FALSE, i)
  <2>1. ASSUME j \notin Stack PROVE FALSE
    <3>1. Nothing \notin Destinations(place, p, j, FALSE, i)
      BY <2>1, NoStack DEF MayExchange
    <3>2. SlotsFor(place, p, j) # {} \/ BagsFor(place, p, j, i) # {}
      BY <1>1, <1>3, <3>1, DestinationsFound
    <3>3. SlotsFor(first, p, j) # {} \/ BagsFor(first, p, j, i) # {}
      BY <1>1, <1>2, <1>3, <1>4, <1>5, <3>2, StillRoom
    <3> QED
      BY <1>3, <1>6, <1>11, <3>3, DestinationsFound
  <2> QED
    BY <1>6, <1>9, <1>10, <1>11, <2>1
<1>12. ASSUME NEW e, Puts(first, j, e, to), PlaceFor(first, p, j, e)
       PROVE  /\ to \in [Item -> Place] /\ Acyclic(to) /\ Roomy(to)
              /\ \A r \in Player \ {p, q} : trade.offer[r] # Nothing =>
                   Still(place, to, count, count, trade.offer[r])
              /\ Carries(to, q, i)
              /\ Carries(to, p, j)
  <2>1. to \in [Item -> Place] /\ Acyclic(to)
    BY <1>12, PutIs
  <2>2. Roomy(to)
    <3>1. e \in Bag => Cardinality({x \in Item : first[x] = e}) < BagSize
      BY <1>12, PlaceForRoom
    <3> QED
      BY <1>6, <1>12, <3>1, PutRoomy
  <2>3. ASSUME NEW r \in Player \ {p, q}, trade.offer[r] # Nothing
        PROVE  Still(place, to, count, count, trade.offer[r])
    <3> DEFINE o == trade.offer[r]
    <3>1. /\ Still(place, first, count, count, o)
          /\ o \in Item /\ o # j /\ Has(at[r], first, r, o)
          /\ j \notin Around(first, o) /\ o \notin Around(first, j)
      BY <1>10, <2>3
    <3> HIDE DEF o
    <3>2. Still(first, to, count, count, o)
      BY <1>1, <1>12, <3>1, ForeignStill
    <3>3. Still(place, to, count, count, o)
      BY <3>1, <3>2 DEF Still
    <3> QED
      BY <3>3 DEF o
  <2>4. Root(to, i) = Root(first, i)
    BY <1>3, <1>4, <1>8, <1>12, PutIs
  <2>5. Carries(to, q, i)
    BY <1>9, <2>4 DEF Carries
  <2>6. Carries(to, p, j)
    BY <1>12, PutCarries
  <2> QED
    BY <2>1, <2>2, <2>3, <2>5, <2>6
<1> QED
  BY <1>3, <1>6, <1>11, <1>12, SecondMoveIs

(* Both sides hand over what they offered, or nothing; see ExchangeIsWhole.  *)
Whole ==
  \A p, q \in Player :
    LET i == trade.offer[p]
        j == trade.offer[q]
    IN  trade.partner[p] = q /\ place' # place /\ PlayerAcceptTrade(p)
        => /\ Carries(place', q, i)
           /\ Carries(place', p, j) \/ j \in Stack

(* The moves of an acceptance, if it makes any.                              *)
Exchange(p, q, i, j, first) ==
  /\ MayExchange(p, q, i, j)
  /\ first \in FirstMove(place, q, i, j)
  /\ IF first = place THEN place' = place ELSE place' \in SecondMove(first, p, i, j)
  /\ trade' = CloseTrades(trade, {p} \cup DisturbedByMove(place, first, i)
                                     \cup DisturbedByMove(first, place', j))

(* What an acceptance does.                                                  *)
LEMMA AcceptIs ==
  ASSUME NEW p \in Player, PlayerAcceptTrade(p)
  PROVE  /\ trade.state[p] \in {"ACKNOWLEDGE", "INITIATED"}
         /\ at' = at /\ count' = count
         /\ \/ trade' = [trade EXCEPT !.state[p] = "ACCEPT"] /\ place' = place
            \/ trade' = CloseTrades(trade, {p}) /\ place' = place
            \/ \E first : Exchange(p, trade.partner[p], trade.offer[p],
                                   trade.offer[trade.partner[p]], first)
BY DEF PlayerAcceptTrade, Exchange

(* One side accepts first.                                                   *)
LEMMA AcceptFirstKeeps ==
  ASSUME TradeInv, NEW p \in Player, trade.state[p] \in {"ACKNOWLEDGE", "INITIATED"},
         trade' = [trade EXCEPT !.state[p] = "ACCEPT"],
         at' = at, place' = place, count' = count
  PROVE  TradeInv' /\ Frozen
<1> DEFINE t == trade
           u == trade'
<1>1. t \in Trades /\ Paired(t) /\ Registered(t) /\ Apart(place, t) /\ Near(at, place, t)
  BY DEF TradeInv, Agreed
<1>2. /\ u.state = [t.state EXCEPT ![p] = "ACCEPT"]
      /\ u.partner = t.partner /\ u.offer = t.offer /\ u.items = t.items
      /\ u = [state |-> u.state, partner |-> t.partner, offer |-> t.offer, items |-> t.items]
  BY <1>1 DEF Trades
<1> HIDE DEF t, u
<1>3. u \in Trades
  <2>1. u.state \in [Player -> {"NONE", "INITIATED", "ACCEPT", "ACKNOWLEDGE"}]
    BY <1>1, <1>2, TradesAre
  <2> QED
    BY <1>1, <1>2, <2>1, TradesAre DEF Trades
<1>4. u.state[p] = "ACCEPT" /\ \A r \in Player : r # p => u.state[r] = t.state[r]
  BY <1>1, <1>2, TradesAre
<1>5. Paired(u)
  <2>1. t.partner[p] # Nobody
    BY <1>1 DEF Paired, t
  <2> QED
    BY <1>1, <1>2, <1>4, <2>1 DEF Paired
<1>6. Registered(u) /\ Apart(place, u) /\ Near(at, place, u)
  BY <1>1, <1>2 DEF Registered, Apart, Near
<1>7. TradeInv'
  BY <1>3, <1>5, <1>6 DEF TradeInv, Agreed, u
<1> QED
  BY <1>7, UnmovedFrozen

(* The exchange, if it moves anything.                                       *)
LEMMA ExchangedKeeps ==
  ASSUME TradeInv, NEW p \in Player, NEW q, q = trade.partner[p], q # Nobody,
         NEW i, i = trade.offer[p], NEW j, j = trade.offer[q],
         NEW first, Exchange(p, q, i, j, first),
         at' = at, count' = count
  PROVE  /\ TradeInv' /\ Frozen
         /\ place' # place => Carries(place', q, i) /\ (Carries(place', p, j) \/ j \in Stack)
<1> DEFINE S == {p} \cup DisturbedByMove(place, first, i) \cup DisturbedByMove(first, place', j)
<1>1. S \subseteq Player /\ p \in S /\ trade' = CloseTrades(trade, S)
  <2>1. DisturbedByMove(place, first, i) \subseteq Player
        /\ DisturbedByMove(first, place', j) \subseteq Player
    BY ToldPlayers DEF DisturbedByMove
  <2> QED
    BY <2>1 DEF Exchange
<1> HIDE DEF S
<1>2. CASE place' = place
  <2>1. \A o : Still(place, place, count, count, o)
    BY DEF Still
  <2> QED
    BY <1>1, <1>2, <2>1, ClosingKeeps DEF TradeInv
<1>3. CASE place' # place
  <2>1. /\ place' \in [Item -> Place] /\ Acyclic(place') /\ Roomy(place')
        /\ \A r \in Player \ {p, q} : trade.offer[r] # Nothing =>
             Still(place, place', count, count, trade.offer[r])
        /\ Carries(place', q, i)
        /\ Carries(place', p, j) \/ j \in Stack
    <3>1. MayExchange(p, q, i, j) /\ first \in FirstMove(place, q, i, j) /\ first # place
          /\ place' \in SecondMove(first, p, i, j)
      BY <1>3 DEF Exchange
    <3> QED
      BY <3>1, ExchangeKeeps
  <2>2. ASSUME NEW r \in Player, trade'.offer[r] # Nothing
        PROVE  Still(place, place', count, count', trade'.offer[r])
    <3>1. Lessened(trade, trade', S)
      BY <1>1, CloseTradesLessens DEF TradeInv
    <3>2. r \notin S /\ trade.partner[r] \notin S /\ trade'.offer[r] = trade.offer[r]
      BY <2>2, <3>1 DEF Lessened
    <3>3. trade.partner[q] = p
      BY DEF TradeInv, Agreed, Paired
    <3>4. r # p /\ r # q
      BY <1>1, <3>2, <3>3
    <3> QED
      BY <2>1, <2>2, <3>2, <3>4
  <2>3. Counted(count')
    BY DEF TradeInv
  <2> QED
    BY <1>1, <2>1, <2>2, <2>3, ClosingKeeps
<1> QED
  BY <1>2, <1>3

(* Game::playerAcceptTrade.                                                  *)
LEMMA AcceptTradeKeeps ==
  ASSUME TradeInv, NEW p \in Player, PlayerAcceptTrade(p)
  PROVE  /\ TradeInv' /\ Frozen
         /\ place' # place => /\ Carries(place', trade.partner[p], trade.offer[p])
                              /\ \/ Carries(place', p, trade.offer[trade.partner[p]])
                                 \/ trade.offer[trade.partner[p]] \in Stack
<1>1. trade.partner[p] # Nobody
  <2>1. trade.state[p] # "NONE"
    BY AcceptIs
  <2> QED
    BY <2>1 DEF TradeInv, Agreed, Paired
<1>2. CASE trade' = [trade EXCEPT !.state[p] = "ACCEPT"] /\ place' = place
  BY <1>2, AcceptIs, AcceptFirstKeeps
<1>3. CASE trade' = CloseTrades(trade, {p}) /\ place' = place
  BY <1>3, AcceptIs, CloseTradeKeeps
<1>4. ASSUME NEW first, Exchange(p, trade.partner[p], trade.offer[p],
                                 trade.offer[trade.partner[p]], first)
      PROVE  /\ TradeInv' /\ Frozen
             /\ place' # place => /\ Carries(place', trade.partner[p], trade.offer[p])
                                  /\ \/ Carries(place', p, trade.offer[trade.partner[p]])
                                     \/ trade.offer[trade.partner[p]] \in Stack
  BY <1>1, <1>4, AcceptIs, ExchangedKeeps
<1> QED
  BY <1>2, <1>3, <1>4, AcceptIs

-----------------------------------------------------------------------------
(* The invariant holds of every behaviour.                                   *)

(* Nothing is in the game yet.                                               *)
LEMMA TradeInitHolds ==
  ASSUME TradeInit
  PROVE  TradeInv
<1>1. /\ at \in [Player -> Spot \cup {Offline}]
      /\ place = [i \in Item |-> Gone] /\ count = [s \in Stack |-> 0]
      /\ trade.state = [p \in Player |-> "NONE"]
      /\ trade.partner = [p \in Player |-> Nobody]
      /\ trade.offer = [p \in Player |-> Nothing]
      /\ trade.items = [i \in Item |-> Nobody]
  BY DEF TradeInit
<1>2. place \in [Item -> Place] /\ \A i \in Item : place[i] \notin Bag
  BY <1>1, Sorts
<1>3. Acyclic(place)
  <2> DEFINE d == [i \in Item |-> 0]
  <2>1. d \in [Item -> Nat] /\ Deeper(place, d)
    BY <1>2 DEF Deeper
  <2> QED
    BY <2>1 DEF Acyclic
<1>4. Roomy(place)
  <2>1. \A b \in Bag : {j \in Item : place[j] = b} = {}
    BY <1>2
  <2> QED
    BY <2>1, FS_EmptySet, TradeAssumption DEF Roomy
<1>5. Counted(count)
  <2>1. count \in [Stack -> 0 .. MaxCount]
    BY <1>1, TradeAssumption
  <2>2. UnitsOf(count) = {}
    BY <1>1 DEF UnitsOf
  <2> QED
    BY <2>1, <2>2, FS_EmptySet, TradeAssumption DEF Counted
<1>6. Agreed(trade)
  <2>1. trade \in Trades
    BY DEF TradeInit, Trades
  <2>2. Paired(trade) /\ Registered(trade)
    BY <1>1 DEF Paired, Registered
  <2> QED
    BY <2>1, <2>2 DEF Agreed
<1>7. Apart(place, trade) /\ Near(at, place, trade)
  BY <1>1 DEF Apart, Near
<1> QED
  BY <1>1, <1>2, <1>3, <1>4, <1>5, <1>6, <1>7 DEF TradeInv

(* Nothing happens.                                                          *)
LEMMA TradeStutterKeeps ==
  ASSUME TradeInv, UNCHANGED tradeVars
  PROVE  TradeInv' /\ Frozen
<1>1. at' = at /\ place' = place /\ count' = count /\ trade' = trade
  BY DEF tradeVars
<1> QED
  BY <1>1, UnmovedFrozen DEF TradeInv

(* Each step keeps the invariant and the offers as they are.                 *)
LEMMA TradeNextKeeps ==
  ASSUME TradeInv, [TradeNext]_tradeVars
  PROVE  TradeInv' /\ Frozen
<1>1. ASSUME NEW p \in Player, NEW q \in Player, NEW i \in Item, PlayerRequestTrade(p, q, i)
      PROVE  TradeInv' /\ Frozen
  BY <1>1, RequestTradeKeeps
<1>2. ASSUME NEW p \in Player, PlayerAcceptTrade(p)
      PROVE  TradeInv' /\ Frozen
  BY <1>2, AcceptTradeKeeps
<1>3. ASSUME NEW p \in Player, PlayerCloseTrade(p)
      PROVE  TradeInv' /\ Frozen
  BY <1>3, CloseTradeKeeps DEF PlayerCloseTrade
<1>4. ASSUME NEW p \in Player, NEW i \in Item, NEW d \in Place, MoveItem(p, i, d)
      PROVE  TradeInv' /\ Frozen
  BY <1>4, MoveItemKeeps
<1>5. ASSUME NEW p \in Player, NEW i \in Stack, NEW j \in Stack, MergeItems(p, i, j)
      PROVE  TradeInv' /\ Frozen
  BY <1>5, MergeItemsKeeps
<1>6. ASSUME NEW p \in Player, NEW to \in Spot, Walk(p, to)
      PROVE  TradeInv' /\ Frozen
  BY <1>6, WalkKeeps
<1>7. ASSUME NEW p \in Player, NEW to \in Spot, TradeLogin(p, to)
      PROVE  TradeInv' /\ Frozen
  BY <1>7, LoginKeeps
<1>8. ASSUME NEW p \in Player, TradeLogout(p)
      PROVE  TradeInv' /\ Frozen
  BY <1>8, LogoutKeeps
<1>9. ASSUME NEW i \in Item, RemoveItem(i)
      PROVE  TradeInv' /\ Frozen
  BY <1>9, RemoveItemKeeps
<1>10. ASSUME NEW i \in Item, NEW s \in Spot, CreateItem(i, s)
       PROVE  TradeInv' /\ Frozen
  BY <1>10, CreateItemKeeps
<1>11. CASE UNCHANGED tradeVars
  BY <1>11, TradeStutterKeeps
<1> QED
  BY <1>1, <1>2, <1>3, <1>4, <1>5, <1>6, <1>7, <1>8, <1>9, <1>10, <1>11 DEF TradeNext

(* An exchange is whole, whatever step it is taken for.                      *)
LEMMA AcceptIsWhole ==
  ASSUME TradeInv
  PROVE  Whole
BY AcceptTradeKeeps DEF Whole

(* What the invariant says of the traders; see TradersAgree.                 *)
LEMMA TradeInvAgrees ==
  ASSUME TradeInv
  PROVE  TradersAgree
<1>1. /\ at \in [Player -> Spot \cup {Offline}] /\ place \in [Item -> Place]
      /\ count \in [Stack -> 0 .. MaxCount]
      /\ trade \in Trades /\ Paired(trade) /\ Registered(trade)
      /\ Apart(place, trade) /\ Near(at, place, trade)
  BY DEF TradeInv, Agreed, Counted
<1>2. TradeTypeOK
  BY <1>1 DEF TradeTypeOK
<1>3. ASSUME NEW p \in Player
      PROVE  LET q == trade.partner[p]
                 i == trade.offer[p]
             IN  IF q = Nobody THEN trade.state[p] = "NONE" /\ i = Nothing
                 ELSE /\ trade.partner[q] = p
                      /\ trade.state[p] # "NONE"
                      /\ trade.state[p] = "INITIATED" => i # Nothing
                      /\ trade.state[p] = "ACKNOWLEDGE" => i = Nothing
                      /\ at[p] = at[q]
                      /\ i # Nothing => Reaches(place, p, i) /\ trade.items[i] = p
  BY <1>1 DEF Paired, Registered, Near, Has, Reaches
<1>4. ASSUME NEW i \in Item, trade.items[i] # Nobody
      PROVE  /\ trade.offer[trade.items[i]] = i
             /\ \A b \in Around(place, i) : trade.items[b] = Nobody
  BY <1>1, <1>4 DEF Registered, Apart
<1> QED
  BY <1>2, <1>3, <1>4 DEF TradersAgree

-----------------------------------------------------------------------------
(* What is proved.                                                           *)

(* The inductive invariant: both sides agree on who trades what, the offers  *)
(* lie apart and near their owners, no container is inside of itself or too  *)
(* full, and the units are counted.                                          *)
THEOREM TradeInvariance == TradeSpec => []TradeInv
<1>1. TradeInit => TradeInv
  BY TradeInitHolds
<1>2. TradeInv /\ [TradeNext]_tradeVars => TradeInv'
  BY TradeNextKeeps
<1> QED
  BY <1>1, <1>2, PTL DEF TradeSpec

(* Two players trade with each other or not at all, and what they offer is   *)
(* in reach, registered, and offered once (internalCloseTrade and all who    *)
(* call it).                                                                 *)
THEOREM TradersAlwaysAgree == TradeSpec => []TradersAgree
<1>1. TradeInv => TradersAgree
  BY TradeInvAgrees
<1> QED
  BY <1>1, TradeInvariance, PTL

(* What the partner sees of an offer stays as it is while the offer stands   *)
(* (Player::onRemoveTileItem and the others that check the trade).           *)
THEOREM OfferIsFrozen == TradeSpec => OfferFrozen
<1>1. TradeInv /\ [TradeNext]_tradeVars => Frozen
  BY TradeNextKeeps
<1>2. Frozen => \A p \in Player :
                  LET i == trade.offer[p]
                  IN  i # Nothing /\ trade'.offer[p] = i
                        => Sight(place', count', i) = Sight(place, count, i)
  BY DEF Frozen
<1> QED
  BY <1>1, <1>2, TradeInvariance, PTL DEF TradeSpec, OfferFrozen

(* Game::playerAcceptTrade hands over both offers, but for a second one that *)
(* is a stack.                                                               *)
THEOREM ExchangesAreWhole == TradeSpec => ExchangeIsWhole
<1>1. TradeInv => Whole
  BY AcceptIsWhole
<1>2. Whole => \A p, q \in Player :
                 LET i == trade.offer[p]
                     j == trade.offer[q]
                 IN  trade.partner[p] = q /\ place' # place /\ PlayerAcceptTrade(p)
                     => /\ Carries(place', q, i)
                        /\ Carries(place', p, j) \/ j \in Stack
  BY DEF Whole
<1> QED
  BY <1>1, <1>2, TradeInvariance, PTL DEF TradeSpec, ExchangeIsWhole
=============================================================================
