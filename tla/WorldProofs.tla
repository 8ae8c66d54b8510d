------------------------------ MODULE WorldProofs ----------------------------
(***************************************************************************)
(* The parts of MCWorld about which there are theorems.                      *)
(*                                                                           *)
(* The market, for any players, deals, fee and width of a product: nothing   *)
(* is made or lost.                                                          *)
(*                                                                           *)
(* What is held is a sum over the players and the rows, and a step changes   *)
(* the sums by what it transfers.  The first part has the facts about sums   *)
(* over finite sets that this takes: SumFunctionOnSet adds in the order that *)
(* CHOOSE picks, so that first of all the order must not matter.  The second *)
(* is about the updates of coins that wait, where each prefix of the queue   *)
(* counts.  The third has a lemma for each action.                           *)
(*                                                                           *)
(* NothingLost is not inductive.  The invariant adds that no prefix of the   *)
(* waiting updates takes an account below zero, unless coins were spent      *)
(* twice; that a row which is still there has the amount it was selected     *)
(* with, unless a part was accepted in between; that rows and results have   *)
(* only identifiers given out before; and that what overflows take from the  *)
(* gold is a multiple of Width.                                              *)
(*                                                                           *)
(* Spawns, for any blocks and any times longer than an announcement: a block *)
(* never has two monsters.  That is not inductive: a check brings a monster  *)
(* back to every block whose time has come and that has none in spawnedMap,  *)
(* announced or not.  The invariant adds that an announcement is over before *)
(* the next check, and that it is the only one of a block without a monster. *)
(*                                                                           *)
(* Raids, for any raids and any number of loadings: one raid executes at a   *)
(* time, and it is the running one, until a reload leaves one that it cannot *)
(* stop.  A reload that stops the events of the raids on its list stops all, *)
(* if each raid knows the event it has in the scheduler, and the raids it    *)
(* loads begin with their first event, if none of them has run.  The         *)
(* invariant adds this, and that only raids loaded so far have events.       *)
(*                                                                           *)
(* The database connection, for any number of statements, saves, tries,      *)
(* queries and losses: a save is stored as a whole, and a query that         *)
(* returned has taken effect.  SavesAreWhole is about what is stored, and so *)
(* is the first part of QueriesKept; a commit replaces what is stored by     *)
(* what the connection sees.  The invariant relates the two, and both to the *)
(* state of the save.                                                        *)
(*                                                                           *)
(* Items that decay, for any items and kinds of them: each has exactly the   *)
(* references counted for it, one that is marked as decaying has an entry    *)
(* that a check will visit, and one that nobody touches decays in time.  The *)
(* invariant says of each item where its clock must be, given its duration   *)
(* and its bucket.  A check visits the items of a bucket one by one, a fold  *)
(* over a set; what holds between two visits adds how many are left, that    *)
(* there is memory for what becomes of those, and what happened to the ones  *)
(* that the check found with a clock.                                        *)
(***************************************************************************)
EXTENDS Market, Raids, Spawns, Transactions, Decay,
        FiniteSetTheorems, SequenceTheorems, WellFoundedInduction, TLAPS

-----------------------------------------------------------------------------
(* Induction over the natural numbers, as a fact about sets of them.         *)
LEMMA Induction ==
  ASSUME NEW S, 0 \in S, \A n \in Nat : n \in S => n + 1 \in S
  PROVE  Nat \subseteq S
<1> DEFINE T == Nat \ S
<1> SUFFICES ASSUME T # {} PROVE FALSE
  OBVIOUS
<1>1. PICK x \in T : \A y \in T : ~ (<<y, x>> \in OpToRel(<, Nat))
  <2>1. T \subseteq Nat
    OBVIOUS
  <2> HIDE DEF T
  <2> QED
    BY <2>1, NatLessThanWellFounded, WFMin
<1>2. \A y \in T : ~ (y < x)
  BY <1>1 DEF OpToRel
<1>3. x # 0 /\ x \in Nat
  OBVIOUS
<1>4. x - 1 \in Nat /\ x - 1 < x
  BY <1>3
<1>5. x - 1 \in S
  BY <1>2, <1>4
<1>6. x \in S
  BY <1>3, <1>4, <1>5
<1> QED
  BY <1>6

(* Induction over the subsets of a finite set, as a fact about sets of them. *)
LEMMA SetInduction ==
  ASSUME NEW S, IsFiniteSet(S), NEW P, {} \in P,
         \A s \in SUBSET S : s # {} /\ (\A x \in s : s \ {x} \in P) => s \in P
  PROVE  SUBSET S \subseteq P
<1> DEFINE N == {n \in Nat : \A s \in SUBSET S : Cardinality(s) = n => s \in P}
<1>1. \A s \in SUBSET S : IsFiniteSet(s) /\ Cardinality(s) \in Nat /\ (Cardinality(s) = 0 <=> s = {})
  BY FS_Subset, FS_CardinalityType, FS_EmptySet
<1>2. 0 \in N
  BY <1>1
<1>3. ASSUME NEW n \in Nat, n \in N PROVE n + 1 \in N
  <2> SUFFICES ASSUME NEW s \in SUBSET S, Cardinality(s) = n + 1 PROVE s \in P
    OBVIOUS
  <2>1. s # {}
    BY <1>1
  <2>2. ASSUME NEW x \in s PROVE s \ {x} \in P
    <3>1. Cardinality(s \ {x}) = Cardinality(s) - 1
      BY <1>1, FS_RemoveElement
    <3>2. Cardinality(s \ {x}) = n /\ s \ {x} \in SUBSET S
      BY <3>1
    <3> QED
      BY <1>3, <3>2
  <2> QED
    BY <2>1, <2>2
<1> HIDE DEF N
<1>4. Nat \subseteq N
  BY <1>2, <1>3, Induction
<1> QED
  BY <1>1, <1>4 DEF N

-----------------------------------------------------------------------------
(* Folds.                                                                    *)

Pick(s) == CHOOSE x \in s : TRUE

(* A set that is not empty gives one of its elements.                       *)
LEMMA PickIs ==
  ASSUME NEW s, s # {}
  PROVE  Pick(s) \in s
BY DEF Pick

(* The functions that are folded: adding the values of a function, visiting  *)
(* one item again and again, and visiting the items one by one.              *)
Combine(o, x, y) ==
  IF o[1] = "sum" THEN o[2][x] + y
  ELSE IF o[1] = "visit" THEN Visit(y, o[2]) ELSE VisitAll(y, x)

(* h folds the subsets of S, beginning with a.                               *)
FoldsBy(o, a, S, h) ==
  h = [s \in SUBSET S |-> IF s = {} THEN a ELSE Combine(o, Pick(s), h[s \ {Pick(s)}])]

(* The equation of a function of folds.                                      *)
LEMMA FoldsAre ==
  ASSUME NEW o, NEW a, NEW S, NEW h, FoldsBy(o, a, S, h), NEW s \in SUBSET S
  PROVE  h[s] = IF s = {} THEN a ELSE Combine(o, Pick(s), h[s \ {Pick(s)}])
BY DEF FoldsBy

(* Folds of the same are the same, whatever larger set they are part of.     *)
LEMMA FoldsAgree ==
  ASSUME NEW o, NEW p, NEW a, NEW S, NEW T, NEW h, NEW k, IsFiniteSet(S), S \subseteq T,
         FoldsBy(o, a, S, h), FoldsBy(p, a, T, k),
         \A x \in S : \A y : Combine(o, x, y) = Combine(p, x, y)
  PROVE  \A s \in SUBSET S : h[s] = k[s]
<1> DEFINE P == {s \in SUBSET S : h[s] = k[s]}
<1>1. {} \in P
  BY FoldsAre
<1>2. ASSUME NEW s \in SUBSET S, s # {}, \A x \in s : s \ {x} \in P
      PROVE  s \in P
  <2> DEFINE c == Pick(s)
  <2>1. c \in s /\ s \in SUBSET T
    BY <1>2, PickIs
  <2>2. h[s] = Combine(o, c, h[s \ {c}])
    BY <1>2, <2>1, FoldsAre
  <2>3. k[s] = Combine(p, c, k[s \ {c}])
    BY <1>2, <2>1, FoldsAre
  <2> HIDE DEF c
  <2> QED
    BY <1>2, <2>1, <2>2, <2>3
<1> HIDE DEF P
<1>3. SUBSET S \subseteq P
  BY <1>1, <1>2, SetInduction
<1> QED
  BY <1>3 DEF P

(* A finite set has its function of folds.                                   *)
LEMMA FoldsExist ==
  ASSUME NEW o, NEW a, NEW S, IsFiniteSet(S)
  PROVE  \E h : FoldsBy(o, a, S, h)
<1> DEFINE P == {s \in SUBSET S : \E h : FoldsBy(o, a, s, h)}
<1>1. {} \in P
  <2>1. FoldsBy(o, a, {}, [s \in SUBSET {} |-> a])
    BY DEF FoldsBy
  <2> QED
    BY <2>1
<1>2. ASSUME NEW t \in SUBSET S, t # {}, \A x \in t : t \ {x} \in P
      PROVE  t \in P
  <2> DEFINE H(s) == CHOOSE h : FoldsBy(o, a, s, h)
             k == [s \in SUBSET t |-> IF s = {} THEN a ELSE Combine(o, Pick(s), H(s \ {Pick(s)})[s \ {Pick(s)}])]
  <2>1. \A s \in SUBSET t : s # {} => Pick(s) \in s
    BY PickIs
  <2>2. ASSUME NEW s \in SUBSET t, s # t PROVE FoldsBy(o, a, s, H(s))
    <3>1. PICK x \in t : x \notin s
      BY <2>2
    <3>2. PICK h : FoldsBy(o, a, t \ {x}, h)
      BY <1>2
    <3>3. FoldsBy(o, a, s, [r \in SUBSET s |-> h[r]])
      <4> DEFINE j == [r \in SUBSET s |-> h[r]]
      <4>1. ASSUME NEW r \in SUBSET s
            PROVE  j[r] = IF r = {} THEN a
                          ELSE Combine(o, Pick(r), j[r \ {Pick(r)}])
        <5>1. r \in SUBSET (t \ {x}) /\ r \ {Pick(r)} \in SUBSET s
          BY <3>1
        <5> QED
          BY <3>2, <5>1, FoldsAre
      <4>2. j = [r \in SUBSET s |-> j[r]]
        OBVIOUS
      <4> HIDE DEF j
      <4>3. FoldsBy(o, a, s, j)
        BY <4>1, <4>2 DEF FoldsBy
      <4> QED
        BY <4>3 DEF j
    <3>4. \E j : FoldsBy(o, a, s, j)
      BY <3>3
    <3> QED
      BY <3>4
  <2> HIDE DEF H
  <2>3. ASSUME NEW s \in SUBSET t, s # {}
        PROVE  k[s] = Combine(o, Pick(s), k[s \ {Pick(s)}])
    <3> DEFINE r == s \ {Pick(s)}
    <3>1. Pick(s) \in s /\ r \in SUBSET t /\ r # t /\ k[s] = Combine(o, Pick(s), H(r)[r])
      BY <2>1, <2>3
    <3>2. FoldsBy(o, a, r, H(r))
      BY <2>2, <3>1
    <3>3. CASE r = {}
      <4>1. k[r] = a
        BY <3>1, <3>3
      <4>2. H(r)[r] = a
        <5>1. r \in SUBSET r
          OBVIOUS
        <5> HIDE DEF r, k
        <5> QED
          BY <3>2, <3>3, <5>1, FoldsAre
      <4> QED
        BY <3>1, <4>1, <4>2
    <3>4. CASE r # {}
      <4> DEFINE q == r \ {Pick(r)}
      <4>1. Pick(r) \in r /\ q \in SUBSET r /\ q \in SUBSET t /\ q # t
        <5>1. Pick(r) \in r /\ q \in SUBSET r /\ q \in SUBSET t
          BY <2>1, <3>1, <3>4
        <5>2. Pick(s) \in t /\ Pick(s) \notin q
          BY <2>1, <2>3
        <5> QED
          BY <5>1, <5>2
      <4>2. k[r] = Combine(o, Pick(r), H(q)[q])
        BY <3>1, <3>4
      <4> HIDE DEF k
      <4>3. H(r)[r] = Combine(o, Pick(r), H(r)[q])
        <5>1. r \in SUBSET r
          OBVIOUS
        <5> HIDE DEF r
        <5> QED
          BY <3>2, <3>4, <5>1, FoldsAre
      <4>4. FoldsBy(o, a, q, H(q))
        BY <2>2, <4>1
      <4>5. IsFiniteSet(q)
        BY <4>1, FS_Subset
      <4> HIDE DEF q, r
      <4>6. H(q)[q] = H(r)[q]
        BY <3>2, <4>1, <4>4, <4>5, FoldsAgree
      <4> QED
        BY <3>1, <4>2, <4>3, <4>6 DEF r
    <3> QED
      BY <3>3, <3>4
  <2>4. k[{}] = a /\ k = [s \in SUBSET t |-> k[s]]
    OBVIOUS
  <2> HIDE DEF k
  <2>5. FoldsBy(o, a, t, k)
    BY <2>3, <2>4 DEF FoldsBy
  <2> QED
    BY <2>5
<1> HIDE DEF P
<1>3. SUBSET S \subseteq P
  BY <1>1, <1>2, SetInduction
<1> QED
  BY <1>3 DEF P

-----------------------------------------------------------------------------
(* Sums.                                                                     *)

(* h sums f over the subsets of S.                                           *)
Sums(f, S, h) ==
  h = [s \in SUBSET S |-> IF s = {} THEN 0 ELSE f[Pick(s)] + h[s \ {Pick(s)}]]

(* The equation of a function of sums.                                      *)
LEMMA SumsAre ==
  ASSUME NEW f, NEW S, NEW h, Sums(f, S, h), NEW s \in SUBSET S
  PROVE  h[s] = IF s = {} THEN 0 ELSE f[Pick(s)] + h[s \ {Pick(s)}]
BY DEF Sums

(* To sum is to fold.                                                        *)
LEMMA SumsFold ==
  ASSUME NEW f, NEW S, NEW h
  PROVE  Sums(f, S, h) <=> FoldsBy(<<"sum", f>>, 0, S, h)
<1>1. \A x, y : Combine(<<"sum", f>>, x, y) = f[x] + y
  BY DEF Combine
<1> QED
  BY <1>1 DEF Sums, FoldsBy

(* SumFunctionOnSet of the community modules, in these terms.               *)
LEMMA SumIs ==
  ASSUME NEW f, NEW S
  PROVE  SumFunctionOnSet(f, S) = (CHOOSE h : Sums(f, S, h))[S]
BY DEF SumFunctionOnSet, FoldFunctionOnSet, MapThenFoldSet, Sums, Pick

(* Sums of equal values are equal, whatever larger set they are part of.    *)
LEMMA SumsAgree ==
  ASSUME NEW f, NEW g, NEW S, NEW T, NEW h, NEW k, IsFiniteSet(S), S \subseteq T,
         Sums(f, S, h), Sums(g, T, k), \A x \in S : f[x] = g[x]
  PROVE  \A s \in SUBSET S : h[s] = k[s]
<1>1. \A x \in S : \A y : Combine(<<"sum", f>>, x, y) = Combine(<<"sum", g>>, x, y)
  BY DEF Combine
<1>2. FoldsBy(<<"sum", f>>, 0, S, h) /\ FoldsBy(<<"sum", g>>, 0, T, k)
  BY SumsFold
<1> QED
  BY <1>1, <1>2, FoldsAgree

(* A finite set has its function of sums.                                   *)
LEMMA SumsExist ==
  ASSUME NEW f, NEW S, IsFiniteSet(S)
  PROVE  \E h : Sums(f, S, h)
BY FoldsExist, SumsFold

(* A sum is that of the element picked first and the sum of the others.     *)
LEMMA SumRec ==
  ASSUME NEW f, NEW S, IsFiniteSet(S)
  PROVE  SumFunctionOnSet(f, S) =
           IF S = {} THEN 0 ELSE f[Pick(S)] + SumFunctionOnSet(f, S \ {Pick(S)})
<1> DEFINE T == S \ {Pick(S)}
           h == CHOOSE h : Sums(f, S, h)
           k == CHOOSE k : Sums(f, T, k)
<1>1. IsFiniteSet(T) /\ T \subseteq S /\ T \in SUBSET S /\ S \in SUBSET S
  BY FS_Subset
<1>2. SumFunctionOnSet(f, S) = h[S] /\ SumFunctionOnSet(f, T) = k[T]
  BY SumIs
<1>3. Sums(f, S, h)
  BY SumsExist
<1>4. Sums(f, T, k)
  BY <1>1, SumsExist
<1> HIDE DEF h, k
<1>5. k[T] = h[T]
  <2> HIDE DEF T
  <2>1. \A s \in SUBSET T : k[s] = h[s]
    BY <1>1, <1>3, <1>4, SumsAgree
  <2> QED
    BY <2>1
<1>6. h[S] = IF S = {} THEN 0 ELSE f[Pick(S)] + h[T]
  BY <1>1, <1>3, SumsAre
<1> QED
  BY <1>2, <1>5, <1>6

(* A sum depends on nothing but the values in the set.                       *)
LEMMA SumSame ==
  ASSUME NEW f, NEW g, NEW S, IsFiniteSet(S), \A x \in S : f[x] = g[x]
  PROVE  SumFunctionOnSet(f, S) = SumFunctionOnSet(g, S)
<1> DEFINE h == CHOOSE h : Sums(f, S, h)
           k == CHOOSE k : Sums(g, S, k)
<1>1. SumFunctionOnSet(f, S) = h[S] /\ SumFunctionOnSet(g, S) = k[S]
  BY SumIs
<1>2. Sums(f, S, h)
  BY SumsExist
<1>3. Sums(g, S, k)
  BY SumsExist
<1> HIDE DEF h, k
<1>4. \A s \in SUBSET S : h[s] = k[s]
  BY <1>2, <1>3, SumsAgree
<1> QED
  BY <1>1, <1>4

(* A sum of integers is an integer.                                         *)
LEMMA SumInt ==
  ASSUME NEW f, NEW S, IsFiniteSet(S), \A x \in S : f[x] \in Int
  PROVE  SumFunctionOnSet(f, S) \in Int
<1> DEFINE Sum(s) == SumFunctionOnSet(f, s)
           P == {s \in SUBSET S : Sum(s) \in Int}
<1>1. \A s \in SUBSET S : Sum(s) = IF s = {} THEN 0 ELSE f[Pick(s)] + Sum(s \ {Pick(s)})
  BY SumRec, FS_Subset
<1> HIDE DEF Sum
<1>2. {} \in P
  BY <1>1
<1>3. ASSUME NEW s \in SUBSET S, s # {}, \A x \in s : s \ {x} \in P
      PROVE  s \in P
  <2> DEFINE c == Pick(s)
  <2>1. c \in s /\ Sum(s) = f[c] + Sum(s \ {c})
    BY <1>1, <1>3, PickIs
  <2> HIDE DEF c
  <2>2. f[c] \in Int /\ Sum(s \ {c}) \in Int
    BY <1>3, <2>1
  <2> QED
    BY <2>1, <2>2
<1> HIDE DEF P
<1>4. S \in P
  <2>1. SUBSET S \subseteq P
    BY <1>2, <1>3, SetInduction
  <2> QED
    BY <2>1
<1> QED
  BY <1>4 DEF P, Sum

(* ... and not on the order in which they are added.                         *)
LEMMA SumSplits ==
  ASSUME NEW f, NEW S, IsFiniteSet(S), \A x \in S : f[x] \in Int, NEW y \in S
  PROVE  SumFunctionOnSet(f, S) = f[y] + SumFunctionOnSet(f, S \ {y})
<1> DEFINE Sum(s) == SumFunctionOnSet(f, s)
           P == {s \in SUBSET S : \A x \in s : Sum(s) = f[x] + Sum(s \ {x})}
<1>1. \A s \in SUBSET S : Sum(s) = IF s = {} THEN 0 ELSE f[Pick(s)] + Sum(s \ {Pick(s)})
  BY SumRec, FS_Subset
<1>2. \A s \in SUBSET S : Sum(s) \in Int
  BY SumInt, FS_Subset
<1> HIDE DEF Sum
<1>3. {} \in P
  OBVIOUS
<1>4. ASSUME NEW s \in SUBSET S, s # {}, \A x \in s : s \ {x} \in P
      PROVE  s \in P
  <2> DEFINE c == Pick(s)
  <2>1. c \in s /\ Sum(s) = f[c] + Sum(s \ {c})
    BY <1>1, <1>4, PickIs
  <2> HIDE DEF c
  <2>2. ASSUME NEW x \in s PROVE Sum(s) = f[x] + Sum(s \ {x})
    <3>1. CASE x = c
      BY <2>1, <3>1
    <3>2. CASE x # c
      <4> DEFINE r == s \ {c} 
                 t == s \ {x}
                 q == r \ {x}
      <4>1. x \in r /\ c \in t /\ q = t \ {c} /\ q \in SUBSET S
        BY <2>1, <3>2
      <4>2. Sum(r) = f[x] + Sum(q)
        BY <1>4, <2>1, <4>1
      <4>3. Sum(t) = f[c] + Sum(q)
        BY <1>4, <4>1
      <4>4. f[x] \in Int /\ f[c] \in Int /\ Sum(q) \in Int
        BY <1>2, <2>1, <4>1
      <4> HIDE DEF r, t, q
      <4>5. Sum(s) = f[x] + Sum(t)
        BY <2>1, <4>2, <4>3, <4>4 DEF r
      <4> QED
        BY <4>5 DEF t
    <3> QED
      BY <3>1, <3>2
  <2> QED
    BY <2>2
<1> HIDE DEF P
<1>5. S \in P
  <2>1. SUBSET S \subseteq P
    BY <1>3, <1>4, SetInduction
  <2> QED
    BY <2>1
<1> QED
  BY <1>5 DEF P, Sum

(* A sum of zeros is zero.                                                  *)
LEMMA SumZero ==
  ASSUME NEW f, NEW S, IsFiniteSet(S), \A x \in S : f[x] = 0
  PROVE  SumFunctionOnSet(f, S) = 0
<1> DEFINE Sum(s) == SumFunctionOnSet(f, s)
           P == {s \in SUBSET S : Sum(s) = 0}
<1>1. \A s \in SUBSET S : Sum(s) = IF s = {} THEN 0 ELSE f[Pick(s)] + Sum(s \ {Pick(s)})
  BY SumRec, FS_Subset
<1> HIDE DEF Sum
<1>2. {} \in P
  BY <1>1
<1>3. ASSUME NEW s \in SUBSET S, s # {}, \A x \in s : s \ {x} \in P
      PROVE  s \in P
  <2> DEFINE c == Pick(s)
  <2>1. c \in s /\ Sum(s) = f[c] + Sum(s \ {c})
    BY <1>1, <1>3, PickIs
  <2> HIDE DEF c
  <2>2. f[c] = 0 /\ Sum(s \ {c}) = 0
    BY <1>3, <2>1
  <2> QED
    BY <2>1, <2>2
<1> HIDE DEF P
<1>4. SUBSET S \subseteq P
  BY <1>2, <1>3, SetInduction
<1> QED
  BY <1>4 DEF P, Sum

(* A sum in which one element counts.                                       *)
LEMMA SumOnly ==
  ASSUME NEW f, NEW S, IsFiniteSet(S), NEW y \in S, f[y] \in Int, \A x \in S \ {y} : f[x] = 0
  PROVE  SumFunctionOnSet(f, S) = f[y]
<1>1. SumFunctionOnSet(f, S) = f[y] + SumFunctionOnSet(f, S \ {y})
  BY SumSplits
<1>2. SumFunctionOnSet(f, S \ {y}) = 0
  BY FS_RemoveElement, SumZero
<1> QED
  BY <1>1, <1>2

(* A sum in which two elements count.                                       *)
LEMMA SumTwo ==
  ASSUME NEW f, NEW S, IsFiniteSet(S), NEW y \in S, NEW z \in S, y # z,
         f[y] \in Int, f[z] \in Int, \A x \in S \ {y, z} : f[x] = 0
  PROVE  SumFunctionOnSet(f, S) = f[y] + f[z]
<1>1. \A x \in S : f[x] \in Int
  OBVIOUS
<1>2. SumFunctionOnSet(f, S) = f[y] + SumFunctionOnSet(f, S \ {y})
  BY <1>1, SumSplits
<1>3. IsFiniteSet(S \ {y}) /\ z \in S \ {y} /\ \A x \in (S \ {y}) \ {z} : f[x] = 0
  BY FS_RemoveElement
<1>4. SumFunctionOnSet(f, S \ {y}) = f[z]
  BY <1>3, SumOnly
<1> QED
  BY <1>2, <1>4

(* A sum of sums of two values is the two sums together.                    *)
LEMMA SumPlus ==
  ASSUME NEW f, NEW g, NEW h, NEW S, IsFiniteSet(S),
         \A x \in S : f[x] \in Int /\ g[x] \in Int /\ h[x] = f[x] + g[x]
  PROVE  SumFunctionOnSet(h, S) = SumFunctionOnSet(f, S) + SumFunctionOnSet(g, S)
<1> DEFINE F(s) == SumFunctionOnSet(f, s)
           G(s) == SumFunctionOnSet(g, s)
           H(s) == SumFunctionOnSet(h, s)
           P == {s \in SUBSET S : H(s) = F(s) + G(s)}
<1>1. \A s \in SUBSET S :
        /\ F(s) = IF s = {} THEN 0 ELSE f[Pick(s)] + F(s \ {Pick(s)})
        /\ G(s) = IF s = {} THEN 0 ELSE g[Pick(s)] + G(s \ {Pick(s)})
        /\ H(s) = IF s = {} THEN 0 ELSE h[Pick(s)] + H(s \ {Pick(s)})
  BY SumRec, FS_Subset
<1>2. \A s \in SUBSET S : F(s) \in Int /\ G(s) \in Int
  BY SumInt, FS_Subset
<1> HIDE DEF F, G, H
<1>3. {} \in P
  <2>1. {} \in SUBSET S /\ 0 + 0 = 0
    OBVIOUS
  <2>2. F({}) = 0 /\ G({}) = 0 /\ H({}) = 0
    BY <1>1, <2>1
  <2> QED
    BY <2>1, <2>2
<1>4. ASSUME NEW s \in SUBSET S, s # {}, \A x \in s : s \ {x} \in P
      PROVE  s \in P
  <2> DEFINE c == Pick(s)
             r == s \ {c}
  <2>1. c \in s /\ F(s) = f[c] + F(r) /\ G(s) = g[c] + G(r) /\ H(s) = h[c] + H(r)
    BY <1>1, <1>4, PickIs
  <2>2. r \in SUBSET S
    OBVIOUS
  <2> HIDE DEF c
  <2>3. H(r) = F(r) + G(r)
    BY <1>4, <2>1
  <2> HIDE DEF r
  <2>4. F(r) \in Int /\ G(r) \in Int /\ f[c] \in Int /\ g[c] \in Int /\ h[c] = f[c] + g[c]
    BY <1>2, <2>1, <2>2
  <2>5. H(s) = F(s) + G(s)
    BY ONLY <2>1, <2>3, <2>4
  <2> QED
    BY <2>5
<1> HIDE DEF P
<1>5. SUBSET S \subseteq P
  BY <1>3, <1>4, SetInduction
<1> QED
  BY <1>5 DEF P, F, G, H

(* A change at y.                                                            *)
LEMMA SumChange ==
  ASSUME NEW f, NEW g, NEW S, IsFiniteSet(S), NEW y \in S,
         \A x \in S : f[x] \in Int, g[y] \in Int, \A x \in S \ {y} : g[x] = f[x]
  PROVE  SumFunctionOnSet(g, S) = SumFunctionOnSet(f, S) - f[y] + g[y]
<1> DEFINE T == S \ {y}
<1>1. \A x \in S : g[x] \in Int
  OBVIOUS
<1>2. SumFunctionOnSet(f, S) = f[y] + SumFunctionOnSet(f, T)
  BY SumSplits
<1>3. SumFunctionOnSet(g, S) = g[y] + SumFunctionOnSet(g, T)
  BY <1>1, SumSplits
<1>4. IsFiniteSet(T) /\ T \subseteq S
  BY FS_RemoveElement
<1> HIDE DEF T
<1>5. SumFunctionOnSet(f, T) \in Int
  BY <1>4, SumInt
<1>6. SumFunctionOnSet(g, T) = SumFunctionOnSet(f, T)
  BY <1>4, SumSame DEF T
<1> QED
  BY ONLY <1>1, <1>2, <1>3, <1>5, <1>6, f[y] \in Int

(* What is outside of T counts nothing.                                      *)
LEMMA SumFilter ==
  ASSUME NEW f, NEW g, NEW S, NEW T \in SUBSET S, IsFiniteSet(S),
         \A x \in T : g[x] \in Int /\ g[x] = f[x], \A x \in S \ T : g[x] = 0
  PROVE  SumFunctionOnSet(g, S) = SumFunctionOnSet(f, T)
<1> DEFINE a == [x \in S |-> IF x \in T THEN g[x] ELSE 0]
           P == {s \in SUBSET S : SumFunctionOnSet(g, s) = SumFunctionOnSet(f, s \cap T)}
<1>1. \A s \in SUBSET S : IsFiniteSet(s) /\ IsFiniteSet(s \cap T) /\ s \cap T \subseteq S
  <2>1. \A s \in SUBSET S : s \cap T \in SUBSET S
    OBVIOUS
  <2> QED
    BY <2>1, FS_Subset
<1>2. {} \in P
  <2>1. {} \cap T = {}
    OBVIOUS
  <2>2. IsFiniteSet({})
    BY FS_EmptySet
  <2>3. SumFunctionOnSet(g, {}) = 0 /\ SumFunctionOnSet(f, {}) = 0
    BY <2>2, SumZero
  <2> QED
    BY <2>1, <2>3
<1>3. ASSUME NEW s \in SUBSET S, s # {}, \A x \in s : s \ {x} \in P
      PROVE  s \in P
  <2> DEFINE c == Pick(s)
             r == s \ {c}
  <2>1. c \in s
    BY <1>3, PickIs
  <2> HIDE DEF c
  <2>2. \A x \in s : g[x] \in Int
    OBVIOUS
  <2>3. SumFunctionOnSet(g, s) = g[c] + SumFunctionOnSet(g, r)
    BY <1>1, <2>1, <2>2, SumSplits
  <2>4. SumFunctionOnSet(g, r) = SumFunctionOnSet(f, r \cap T)
    BY <1>3, <2>1
  <2>5. IsFiniteSet(r \cap T)
    BY <1>1
  <2>6. CASE c \in T
    <3>1. c \in s \cap T /\ (s \cap T) \ {c} = r \cap T /\ \A x \in s \cap T : f[x] \in Int
      BY <2>1, <2>6
    <3>2. SumFunctionOnSet(f, s \cap T) = f[c] + SumFunctionOnSet(f, (s \cap T) \ {c})
      BY <1>1, <3>1, SumSplits
    <3> QED
      BY <2>3, <2>4, <2>6, <3>1, <3>2
  <2>7. CASE c \notin T
    <3>1. s \cap T = r \cap T /\ g[c] = 0
      BY <2>1, <2>7
    <3>2. \A x \in r \cap T : f[x] \in Int
      OBVIOUS
    <3>3. SumFunctionOnSet(f, r \cap T) \in Int
      BY <2>5, <3>2, SumInt
    <3>4. SumFunctionOnSet(g, s) = 0 + SumFunctionOnSet(f, r \cap T)
      BY <2>3, <2>4, <3>1
    <3>5. SumFunctionOnSet(g, s) = SumFunctionOnSet(f, r \cap T)
      BY ONLY <3>3, <3>4
    <3> QED
      BY <3>1, <3>5
  <2> QED
    BY <2>6, <2>7
<1> HIDE DEF P
<1>4. S \in P
  <2>1. SUBSET S \subseteq P
    BY <1>2, <1>3, SetInduction
  <2> QED
    BY <2>1
<1>5. S \cap T = T
  OBVIOUS
<1> QED
  BY <1>4, <1>5 DEF P

(* A sum of the same value is a product.                                    *)
LEMMA SumConst ==
  ASSUME NEW f, NEW S, IsFiniteSet(S), NEW n \in Int, \A x \in S : f[x] = n
  PROVE  SumFunctionOnSet(f, S) = Cardinality(S) * n
<1> DEFINE P == {s \in SUBSET S : SumFunctionOnSet(f, s) = Cardinality(s) * n}
<1>1. \A s \in SUBSET S : IsFiniteSet(s)
  BY FS_Subset
<1>2. {} \in P
  <2>1. SumFunctionOnSet(f, {}) = 0 /\ Cardinality({}) = 0
    BY SumZero, FS_EmptySet
  <2> QED
    BY <2>1
<1>3. ASSUME NEW s \in SUBSET S, s # {}, \A x \in s : s \ {x} \in P
      PROVE  s \in P
  <2> DEFINE c == Pick(s)
             r == s \ {c}
             k == Cardinality(r)
  <2>1. c \in s
    BY <1>3, PickIs
  <2> HIDE DEF c
  <2>2. SumFunctionOnSet(f, s) = f[c] + SumFunctionOnSet(f, r)
    BY <1>1, <2>1, SumSplits
  <2>3. SumFunctionOnSet(f, r) = k * n /\ f[c] = n
    BY <1>3, <2>1
  <2>4. Cardinality(s) \in Nat /\ k = Cardinality(s) - 1
    BY <1>1, <2>1, FS_RemoveElement, FS_CardinalityType
  <2> HIDE DEF k
  <2>5. Cardinality(s) = k + 1 /\ k \in Int
    BY <2>4
  <2>6. n + k * n = (k + 1) * n
    BY <2>5
  <2> QED
    BY <2>2, <2>3, <2>5, <2>6
<1> HIDE DEF P
<1>4. S \in P
  <2>1. SUBSET S \subseteq P
    BY <1>2, <1>3, SetInduction
  <2> QED
    BY <2>1
<1> QED
  BY <1>4 DEF P

(* Summed by whose it is: o tells whose, h how much each has.                *)
ByOwner(g, h, o, R, S) ==
  /\ \A x \in R : g[x] \in Int /\ o[x] \in S
  /\ \A y \in S : h[y] = SumFunctionOnSet(g, {x \in R : o[x] = y})

(* A sum over things is a sum over the owners of what each owns.            *)
LEMMA SumByOwner ==
  ASSUME NEW g, NEW h, NEW o, NEW R, NEW S, IsFiniteSet(R), IsFiniteSet(S),
         ByOwner(g, h, o, R, S)
  PROVE  SumFunctionOnSet(h, S) = SumFunctionOnSet(g, R)
<1> USE DEF ByOwner
<1> DEFINE own(s, y) == {x \in s : o[x] = y}
           H(s) == [y \in S |-> SumFunctionOnSet(g, own(s, y))]
           P == {s \in SUBSET R : SumFunctionOnSet(H(s), S) = SumFunctionOnSet(g, s)}
<1>1. \A s \in SUBSET R : IsFiniteSet(s) /\ \A y \in S : IsFiniteSet(own(s, y)) /\ own(s, y) \subseteq R
  <2>1. \A s \in SUBSET R : \A y \in S : own(s, y) \in SUBSET R
    OBVIOUS
  <2> QED
    BY <2>1, FS_Subset
<1>2. {} \in P
  <2>1. \A y \in S : own({}, y) = {}
    OBVIOUS
  <2>2. SumFunctionOnSet(g, {}) = 0
    BY FS_EmptySet, SumZero
  <2>3. \A y \in S : H({})[y] = 0
    BY <2>1, <2>2
  <2> HIDE DEF H
  <2>4. SumFunctionOnSet(H({}), S) = 0
    BY <2>3, SumZero
  <2> QED
    BY <2>2, <2>4
<1>3. ASSUME NEW s \in SUBSET R, s # {}, \A x \in s : s \ {x} \in P
      PROVE  s \in P
  <2> DEFINE c == Pick(s)
             r == s \ {c}
             y == o[c]
  <2>1. c \in s /\ y \in S
    BY <1>3, PickIs
  <2> HIDE DEF c
  <2>2. r \in SUBSET R
    OBVIOUS
  <2>3. SumFunctionOnSet(g, s) = g[c] + SumFunctionOnSet(g, r)
    BY <1>1, <2>1, SumSplits
  <2>4. \A z \in S : H(r)[z] \in Int
    <3>1. ASSUME NEW z \in S PROVE SumFunctionOnSet(g, own(r, z)) \in Int
      <4>1. IsFiniteSet(own(r, z)) /\ own(r, z) \subseteq R
        BY <1>1, <2>2
      <4> HIDE DEF own
      <4> QED
        BY <4>1, SumInt
    <3> QED
      BY <3>1
  <2>5. \A z \in S \ {y} : H(s)[z] = H(r)[z]
    <3>1. \A z \in S \ {y} : own(s, z) = own(r, z)
      OBVIOUS
    <3> HIDE DEF own
    <3> QED
      BY <3>1
  <2>6. H(s)[y] = g[c] + H(r)[y]
    <3>1. own(s, y) \ {c} = own(r, y) /\ c \in own(s, y)
      BY <2>1
    <3>2. IsFiniteSet(own(s, y)) /\ own(s, y) \subseteq R
      BY <1>1, <2>1
    <3> HIDE DEF own, r, y
    <3>3. SumFunctionOnSet(g, own(s, y)) = g[c] + SumFunctionOnSet(g, own(s, y) \ {c})
      BY <3>1, <3>2, SumSplits
    <3>4. SumFunctionOnSet(g, own(s, y)) = g[c] + SumFunctionOnSet(g, own(r, y))
      BY <3>1, <3>3
    <3> QED
      BY <2>1, <3>4
  <2>7. g[c] \in Int /\ SumFunctionOnSet(g, r) \in Int
    <3>1. IsFiniteSet(r)
      BY <1>1, <2>2
    <3> HIDE DEF r
    <3> QED
      BY <2>1, <2>2, <3>1, SumInt
  <2> DEFINE a == H(r)
             b == H(s)
  <2>8. SumFunctionOnSet(a, S) = SumFunctionOnSet(g, r)
    BY <1>3, <2>1
  <2> HIDE DEF H, own, r, y, a, b
  <2>9. a[y] \in Int /\ b[y] = g[c] + a[y] /\ b[y] \in Int /\ (\A z \in S : a[z] \in Int)
        /\ \A z \in S \ {y} : b[z] = a[z]
    BY <2>1, <2>4, <2>5, <2>6, <2>7 DEF a, b
  <2>10. SumFunctionOnSet(b, S) = SumFunctionOnSet(a, S) - a[y] + b[y]
    BY <2>1, <2>9, SumChange
  <2>11. SumFunctionOnSet(b, S) = SumFunctionOnSet(g, s)
    BY ONLY <2>3, <2>7, <2>8, <2>9, <2>10
  <2> QED
    BY <2>11 DEF b
<1> HIDE DEF P, H
<1>4. R \in P
  <2>1. SUBSET R \subseteq P
    BY <1>2, <1>3, SetInduction
  <2> QED
    BY <2>1
<1>5. \A y \in S : H(R)[y] = h[y]
  BY DEF H
<1>6. SumFunctionOnSet(H(R), S) = SumFunctionOnSet(h, S)
  BY <1>5, SumSame
<1> QED
  BY <1>4, <1>6 DEF P

(* A sum of natural numbers is one.                                          *)
LEMMA SumNat ==
  ASSUME NEW f, NEW S, IsFiniteSet(S), \A x \in S : f[x] \in Nat
  PROVE  SumFunctionOnSet(f, S) \in Nat
<1> DEFINE Sum(s) == SumFunctionOnSet(f, s)
           P == {s \in SUBSET S : Sum(s) \in Nat}
<1>1. \A s \in SUBSET S : Sum(s) = IF s = {} THEN 0 ELSE f[Pick(s)] + Sum(s \ {Pick(s)})
  BY SumRec, FS_Subset
<1> HIDE DEF Sum
<1>2. {} \in P
  BY <1>1
<1>3. ASSUME NEW s \in SUBSET S, s # {}, \A x \in s : s \ {x} \in P
      PROVE  s \in P
  <2> DEFINE c == Pick(s)
  <2>1. c \in s /\ Sum(s) = f[c] + Sum(s \ {c})
    BY <1>1, <1>3, PickIs
  <2> HIDE DEF c
  <2>2. f[c] \in Nat /\ Sum(s \ {c}) \in Nat
    BY <1>3, <2>1
  <2> QED
    BY <2>1, <2>2
<1> HIDE DEF P
<1>4. S \in P
  <2>1. SUBSET S \subseteq P
    BY <1>2, <1>3, SetInduction
  <2> QED
    BY <2>1
<1> QED
  BY <1>4 DEF P, Sum


-----------------------------------------------------------------------------
(* The updates of coins that wait.                                           *)
CoinQuery == [account : Trader, amount : Int]

(* What each update in q adds to the account of p, and the first j together. *)
Owed(q, p) == [k \in 1 .. Len(q) |-> IF q[k].account = p THEN q[k].amount ELSE 0]
Due(q, p, j) == SumFunctionOnSet(Owed(q, p), 1 .. j)

(* What an update adds is its amount, to its account.                       *)
LEMMA OwedIs ==
  ASSUME NEW q \in Seq(CoinQuery), NEW p, NEW k \in 1 .. Len(q)
  PROVE  /\ Owed(q, p)[k] = IF q[k].account = p THEN q[k].amount ELSE 0
         /\ Owed(q, p)[k] \in Int
         /\ q[k].account \in Trader
<1>1. q[k] \in CoinQuery
  BY ElementOfSeq
<1> QED
  BY <1>1 DEF Owed, CoinQuery

(* No update adds nothing.                                                  *)
LEMMA DueNone == \A q, p : Due(q, p, 0) = 0
<1>1. IsFiniteSet({}) /\ 1 .. 0 = {}
  BY FS_EmptySet
<1> QED
  BY <1>1, SumZero DEF Due

(* What updates add is an integer.                                          *)
LEMMA DueInt ==
  ASSUME NEW q \in Seq(CoinQuery), NEW p, NEW j \in 0 .. Len(q)
  PROVE  Due(q, p, j) \in Int
<1>1. IsFiniteSet(1 .. j)
  BY FS_Interval
<1>2. \A k \in 1 .. j : Owed(q, p)[k] \in Int
  BY OwedIs, LenProperties
<1> QED
  BY <1>1, <1>2, SumInt DEF Due

(* One update more.                                                         *)
LEMMA DueNext ==
  ASSUME NEW q \in Seq(CoinQuery), NEW p, NEW j \in 1 .. Len(q)
  PROVE  Due(q, p, j) = Due(q, p, j - 1) + Owed(q, p)[j]
<1>1. IsFiniteSet(1 .. j)
  BY FS_Interval
<1>2. \A k \in 1 .. j : Owed(q, p)[k] \in Int
  BY OwedIs, LenProperties
<1>3. j \in 1 .. j /\ (1 .. j) \ {j} = 1 .. (j - 1)
  BY LenProperties
<1>4. Due(q, p, j) = Owed(q, p)[j] + SumFunctionOnSet(Owed(q, p), (1 .. j) \ {j})
  BY <1>1, <1>2, <1>3, SumSplits DEF Due
<1>5. Due(q, p, j) = Owed(q, p)[j] + Due(q, p, j - 1)
  BY <1>3, <1>4 DEF Due
<1>6. Owed(q, p)[j] \in Int /\ Due(q, p, j - 1) \in Int
  BY <1>2, <1>3, DueInt, LenProperties
<1> QED
  BY ONLY <1>5, <1>6

(* One update runs: the others count as before.                              *)
LEMMA DueTail ==
  ASSUME NEW q \in Seq(CoinQuery), q # <<>>, NEW p, NEW j \in 0 .. Len(q) - 1
  PROVE  Due(Tail(q), p, j) = Due(q, p, j + 1) - Owed(q, p)[1]
<1> DEFINE n == Len(q)
           t == Tail(q)
           P == {i \in Nat : i <= n - 1 => Due(t, p, i) = Due(q, p, i + 1) - Owed(q, p)[1]}
<1>1. n \in Nat \ {0} /\ t \in Seq(CoinQuery) /\ Len(t) = n - 1
  BY HeadTailProperties, EmptySeq
<1>2. \A i \in 1 .. n - 1 : Owed(t, p)[i] = Owed(q, p)[i + 1]
  <2>1. \A i \in 1 .. n - 1 : t[i] = q[i + 1]
    BY <1>1, HeadTailProperties
  <2> QED
    BY <1>1, <2>1 DEF Owed
<1>3. \A i \in 1 .. n : Owed(q, p)[i] \in Int
  BY OwedIs
<1>4. \A i \in 0 .. n : Due(q, p, i) \in Int
  BY DueInt
<1>5. \A i \in 1 .. n - 1 : Due(t, p, i) = Due(t, p, i - 1) + Owed(t, p)[i]
  BY <1>1, DueNext
<1>6. \A i \in 1 .. n : Due(q, p, i) = Due(q, p, i - 1) + Owed(q, p)[i]
  BY DueNext
<1>7. Due(t, p, 0) = 0 /\ Due(q, p, 0) = 0
  BY DueNone
<1> DEFINE d(i) == Due(q, p, i)
           e(i) == Due(t, p, i)
           w == Owed(q, p)
           v == Owed(t, p)
<1> HIDE DEF d, e, w, v, n, t
<1>8. /\ n \in Nat \ {0}
      /\ \A i \in 1 .. n - 1 : v[i] = w[i + 1]
      /\ \A i \in 1 .. n : w[i] \in Int
      /\ \A i \in 0 .. n : d(i) \in Int
      /\ \A i \in 1 .. n - 1 : e(i) = e(i - 1) + v[i]
      /\ \A i \in 1 .. n : d(i) = d(i - 1) + w[i]
      /\ e(0) = 0 /\ d(0) = 0
  BY <1>1, <1>2, <1>3, <1>4, <1>5, <1>6, <1>7 DEF d, e, w, v
<1> DEFINE Q == {i \in Nat : i <= n - 1 => e(i) = d(i + 1) - w[1]}
<1>9. 0 \in Q
  <2>1. d(1) = d(0) + w[1] /\ w[1] \in Int
    BY <1>8
  <2> QED
    BY <1>8, <2>1
<1>10. ASSUME NEW i \in Nat, i \in Q PROVE i + 1 \in Q
  <2> SUFFICES ASSUME i + 1 <= n - 1 PROVE e(i + 1) = d(i + 2) - w[1]
    OBVIOUS
  <2>1. e(i) = d(i + 1) - w[1]
    BY <1>8, <1>10
  <2>2. e(i + 1) = e(i) + w[i + 2]
    BY <1>8
  <2>3. d(i + 2) = d(i + 1) + w[i + 2]
    BY <1>8
  <2>4. d(i + 1) \in Int /\ w[i + 2] \in Int /\ w[1] \in Int
    BY <1>8
  <2> QED
    BY <2>1, <2>2, <2>3, <2>4
<1> HIDE DEF Q
<1>11. Nat \subseteq Q
  BY <1>9, <1>10, Induction
<1>12. e(j) = d(j + 1) - w[1]
  BY <1>1, <1>11 DEF Q, n
<1> QED
  BY <1>12 DEF d, e, w, t

(* Updates are added: they count after those which waited already.           *)
LEMMA DueConcat ==
  ASSUME NEW q \in Seq(CoinQuery), NEW x \in Seq(CoinQuery), NEW p
  PROVE  /\ \A j \in 0 .. Len(q) : Due(q \o x, p, j) = Due(q, p, j)
         /\ \A j \in 0 .. Len(x) :
              Due(q \o x, p, Len(q) + j) = Due(q, p, Len(q)) + Due(x, p, j)
<1> DEFINE n == Len(q)
           m == Len(x)
           r == q \o x
<1>1. n \in Nat /\ m \in Nat /\ r \in Seq(CoinQuery) /\ Len(r) = n + m
  BY ConcatProperties, LenProperties
<1>2. \A i \in 1 .. n + m : r[i] = IF i <= n THEN q[i] ELSE x[i - n]
  BY ConcatProperties
<1>3. \A i \in 1 .. n : Owed(r, p)[i] = Owed(q, p)[i]
  <2>1. \A i \in 1 .. n : r[i] = q[i]
    BY <1>1, <1>2
  <2> HIDE DEF r
  <2> QED
    BY <1>1, <2>1 DEF Owed
<1>4. \A i \in 1 .. m : Owed(r, p)[n + i] = Owed(x, p)[i]
  <2>1. \A i \in 1 .. m : r[n + i] = x[i]
    BY <1>1, <1>2
  <2> HIDE DEF r
  <2> QED
    BY <1>1, <2>1 DEF Owed
<1>5. \A j \in 0 .. n : Due(r, p, j) = Due(q, p, j)
  <2>1. ASSUME NEW j \in 0 .. n PROVE Due(r, p, j) = Due(q, p, j)
    <3>1. IsFiniteSet(1 .. j)
      BY <1>1, FS_Interval
    <3>2. \A i \in 1 .. j : Owed(r, p)[i] = Owed(q, p)[i]
      BY <1>1, <1>3
    <3> HIDE DEF r
    <3> QED
      BY <3>1, <3>2, SumSame DEF Due
  <2> QED
    BY <2>1
<1> DEFINE d(i) == Due(r, p, n + i)
           e(i) == Due(x, p, i)
           Q == {i \in Nat : i <= m => d(i) = d(0) + e(i)}
<1>6. \A i \in 1 .. m : d(i) = d(i - 1) + Owed(x, p)[i] /\ e(i) = e(i - 1) + Owed(x, p)[i]
  <2>1. ASSUME NEW i \in 1 .. m
        PROVE  d(i) = d(i - 1) + Owed(x, p)[i] /\ e(i) = e(i - 1) + Owed(x, p)[i]
    <3>1. n + i \in 1 .. Len(r) /\ n + i - 1 = n + (i - 1)
      BY <1>1
    <3> HIDE DEF r
    <3>2. Due(r, p, n + i) = Due(r, p, n + i - 1) + Owed(r, p)[n + i]
      BY <1>1, <3>1, DueNext
    <3> QED
      BY <1>4, <3>1, <3>2, DueNext
  <2> QED
    BY <2>1
<1>7. \A i \in 0 .. m : d(i) \in Int /\ e(i) \in Int
  <2>1. \A i \in 0 .. m : n + i \in 0 .. Len(r)
    BY <1>1
  <2> HIDE DEF r
  <2> QED
    BY <1>1, <2>1, DueInt
<1>8. \A i \in 1 .. m : Owed(x, p)[i] \in Int
  BY OwedIs
<1>9. e(0) = 0
  BY DueNone
<1> HIDE DEF d, e, r
<1>10. 0 \in Q
  BY <1>1, <1>7, <1>9
<1>11. ASSUME NEW i \in Nat, i \in Q PROVE i + 1 \in Q
  <2> SUFFICES ASSUME i + 1 <= m PROVE d(i + 1) = d(0) + e(i + 1)
    OBVIOUS
  <2>1. d(i) = d(0) + e(i)
    BY <1>1, <1>11
  <2>2. d(i + 1) = d(i) + Owed(x, p)[i + 1] /\ e(i + 1) = e(i) + Owed(x, p)[i + 1]
    BY <1>1, <1>6
  <2>3. d(0) \in Int /\ e(i) \in Int /\ Owed(x, p)[i + 1] \in Int
    BY <1>1, <1>7, <1>8
  <2> QED
    BY <2>1, <2>2, <2>3
<1> HIDE DEF Q
<1>12. Nat \subseteq Q
  BY <1>10, <1>11, Induction
<1>13. \A i \in 0 .. m : d(i) = d(0) + e(i)
  BY <1>1, <1>12 DEF Q
<1>14. d(0) = Due(q, p, n)
  BY <1>1, <1>5 DEF d
<1> QED
  BY <1>5, <1>13, <1>14 DEF d, e, r

(* The balance of Market is the account with all updates that wait.         *)
LEMMA BalanceDue ==
  ASSUME NEW p, coinQueries \in Seq(CoinQuery)
  PROVE  Balance(p) = coins[p] + Due(coinQueries, p, Len(coinQueries))
<1> DEFINE q == coinQueries
           T == {k \in DOMAIN q : q[k].account = p}
           S == 1 .. Len(q)
           f == [k \in T |-> q[k].amount]
           g == Owed(q, p)
<1>1. DOMAIN q = S /\ T \in SUBSET S /\ Len(q) \in Nat
  BY LenProperties
<1>2. IsFiniteSet(S)
  BY <1>1, FS_Interval
<1>3. \A k \in T : g[k] \in Int /\ g[k] = f[k]
  BY <1>1, OwedIs
<1>4. \A k \in S \ T : g[k] = 0
  BY <1>1, OwedIs
<1>5. DOMAIN f = T
  OBVIOUS
<1>6. Balance(p) = coins[p] + SumFunctionOnSet(f, T)
  BY <1>5 DEF Balance, SumFunction
<1> HIDE DEF T, S, f, g
<1>7. SumFunctionOnSet(g, S) = SumFunctionOnSet(f, T)
  BY <1>1, <1>2, <1>3, <1>4, SumFilter
<1> QED
  BY <1>6, <1>7 DEF Due, S, g

BalancesAre ==
  \A p \in Trader : Balance(p) = coins[p] + Due(coinQueries, p, Len(coinQueries))

(* ... of every player.                                                     *)
LEMMA BalancesNow == coinQueries \in Seq(CoinQuery) => BalancesAre
BY BalanceDue DEF BalancesAre

-----------------------------------------------------------------------------
(* What players and offers hold, each as a function.                         *)
GoldOf == [p \in Trader |-> Held(p).gold]
ItemsOf == [p \in Trader |-> Held(p).items]
CoinItemsOf == [p \in Trader |-> Held(p).coinItems]
Balances == [p \in Trader |-> Balance(p)]

PaidFor(o) == IF o # NoOffer /\ ~o.sale THEN o.price * o.amount ELSE 0
OnSale(o, ware) == IF o # NoOffer /\ o.sale /\ o.ware = ware THEN o.amount ELSE 0
GoldIn == [id \in Id |-> PaidFor(offers[id])]
ItemsIn == [id \in Id |-> OnSale(offers[id], "item")]
CoinsIn == [id \in Id |-> OnSale(offers[id], "coin")]

AllGold == Fee * (nextId - 1) + SumFunctionOnSet(GoldOf, Trader) + SumFunctionOnSet(GoldIn, Id)
AllItems == SumFunctionOnSet(ItemsOf, Trader) + SumFunctionOnSet(ItemsIn, Id)
AllCoins == SumFunctionOnSet(Balances, Trader) + SumFunctionOnSet(CoinItemsOf, Trader)
              + SumFunctionOnSet(CoinsIn, Id)

Damages == {"overflow", "outdated", "lost", "overdrawn"}

(* The rows of a result, with the amounts they were selected with.           *)
Result == UNION {[rows -> Nat \ {0}] : rows \in SUBSET Id}

MarketTypes ==
  /\ inGame \subseteq Trader
  /\ purse \in [Trader -> Purse]
  /\ saved \in [Trader -> Purse]
  /\ coins \in [Trader -> Int]
  /\ coinQueries \in Seq(CoinQuery)
  /\ offers \in [Id -> Offer \cup {NoOffer}]
  /\ nextId \in 1 .. MaxOffer + 1
  /\ old \subseteq Id
  /\ results \in Seq(Result)
  /\ Len(results) <= MaxResult
  /\ damage \subseteq Damages

(* However many of the waiting updates have run, no account is below zero.   *)
NeverBelow ==
  "overdrawn" \notin damage =>
    \A p \in Trader : \A j \in 0 .. Len(coinQueries) : coins[p] + Due(coinQueries, p, j) >= 0

(* Identifiers to come have no row and are in no result.                     *)
Given ==
  \A id \in Id : id >= nextId =>
    /\ offers[id] = NoOffer
    /\ \A k \in DOMAIN results : id \notin DOMAIN results[k]

(* A row which is still there has the amount it was selected with.           *)
UpToDate ==
  "outdated" \notin damage =>
    \A k \in DOMAIN results : \A id \in DOMAIN results[k] :
      offers[id] # NoOffer => results[k][id] = offers[id].amount

GoldKept ==
  "outdated" \notin damage =>
    \E k \in Int : /\ AllGold = Cardinality(Trader) * Wealth + k * Width
                   /\ "overflow" \notin damage => k = 0

WaresKept ==
  damage \cap {"outdated", "lost"} = {} =>
    /\ AllItems = Cardinality(Trader) * Wealth
    /\ AllCoins = Cardinality(Trader) * Coins

MarketInv == MarketTypes /\ NeverBelow /\ Given /\ UpToDate /\ GoldKept /\ WaresKept

-----------------------------------------------------------------------------
(* What the assumption says of the constants, and of the identifiers.       *)
LEMMA Constants ==
  /\ IsFiniteSet(Trader) /\ IsFiniteSet(Id) /\ Cardinality(Trader) \in Nat
  /\ Wealth \in Nat /\ Coins \in Nat /\ Fee \in Nat /\ Width \in Nat \ {0}
  /\ MaxOffer \in Nat /\ MaxResult \in Nat /\ NoOffer \notin Offer
BY MarketAssumption, FS_Interval, FS_CardinalityType DEF Id

(* The fields of a row.                                                     *)
LEMMA OffersAre ==
  ASSUME MarketTypes, NEW id \in Id
  PROVE  /\ offers[id] \in Offer \cup {NoOffer}
         /\ offers[id] # NoOffer =>
              /\ offers[id].owner \in Trader
              /\ offers[id].sale \in BOOLEAN
              /\ offers[id].ware \in {"item", "coin"}
              /\ offers[id].amount \in Nat \ {0}
              /\ offers[id].price \in Nat \ {0}
<1>1. offers[id] \in Offer \cup {NoOffer}
  BY DEF MarketTypes
<1> DEFINE o == offers[id]
<1> HIDE DEF o
<1>2. o \in Offer \cup {NoOffer}
  BY <1>1 DEF o
<1>3. o # NoOffer =>
              /\ o.owner \in Trader
              /\ o.sale \in BOOLEAN
              /\ o.ware \in {"item", "coin"}
              /\ o.amount \in Nat \ {0}
              /\ o.price \in Nat \ {0}
  BY <1>2 DEF Offer
<1> QED
  BY <1>1, <1>3 DEF o

(* What a player holds is not negative.                                     *)
LEMMA HeldIs ==
  ASSUME MarketTypes, NEW p \in Trader
  PROVE  /\ Held(p) \in Purse
         /\ Held(p).gold \in Nat /\ Held(p).items \in Nat /\ Held(p).coinItems \in Nat
<1>1. Held(p) \in Purse
  BY DEF Held, MarketTypes
<1> DEFINE h == Held(p)
<1> HIDE DEF h
<1>2. h \in Purse => h.gold \in Nat /\ h.items \in Nat /\ h.coinItems \in Nat
  BY DEF Purse
<1> QED
  BY <1>1, <1>2 DEF h

(* A product of natural numbers is one.                                     *)
LEMMA ProductInNat == \A m, n \in Nat : m * n \in Nat
OBVIOUS

(* What a row counts for is a natural number.                               *)
LEMMA OfferCounts ==
  ASSUME NEW o \in Offer \cup {NoOffer}
  PROVE  PaidFor(o) \in Nat /\ OnSale(o, "item") \in Nat /\ OnSale(o, "coin") \in Nat
<1>1. o # NoOffer => o.amount \in Nat /\ o.price \in Nat
  BY DEF Offer
<1>2. o # NoOffer => o.price * o.amount \in Nat
  BY <1>1, ProductInNat
<1> QED
  BY <1>1, <1>2 DEF PaidFor, OnSale

(* ... of every identifier.                                                 *)
LEMMA RowsAreCounted ==
  ASSUME MarketTypes, NEW id \in Id
  PROVE  GoldIn[id] \in Nat /\ ItemsIn[id] \in Nat /\ CoinsIn[id] \in Nat
<1>1. offers[id] \in Offer \cup {NoOffer}
  BY DEF MarketTypes
<1> QED
  BY <1>1, OfferCounts DEF GoldIn, ItemsIn, CoinsIn

(* A balance is an integer (it may be below zero).                          *)
LEMMA BalanceInt ==
  ASSUME MarketTypes, NEW p \in Trader
  PROVE  Balance(p) \in Int
<1>1. coins[p] \in Int /\ coinQueries \in Seq(CoinQuery) /\ Len(coinQueries) \in 0 .. Len(coinQueries)
  BY LenProperties DEF MarketTypes
<1> QED
  BY <1>1, BalanceDue, DueInt

(* So all sums are integers.                                                *)
LEMMA SumsAreInt ==
  ASSUME MarketTypes
  PROVE  /\ SumFunctionOnSet(GoldOf, Trader) \in Int
         /\ SumFunctionOnSet(ItemsOf, Trader) \in Int
         /\ SumFunctionOnSet(CoinItemsOf, Trader) \in Int
         /\ SumFunctionOnSet(Balances, Trader) \in Int
         /\ SumFunctionOnSet(GoldIn, Id) \in Int
         /\ SumFunctionOnSet(ItemsIn, Id) \in Int
         /\ SumFunctionOnSet(CoinsIn, Id) \in Int
<1>1. \A p \in Trader : /\ GoldOf[p] \in Int /\ ItemsOf[p] \in Int
                        /\ CoinItemsOf[p] \in Int /\ Balances[p] \in Int
  BY HeldIs, BalanceInt DEF GoldOf, ItemsOf, CoinItemsOf, Balances
<1>2. \A id \in Id : GoldIn[id] \in Int /\ ItemsIn[id] \in Int /\ CoinsIn[id] \in Int
  BY RowsAreCounted
<1> QED
  BY <1>1, <1>2, SumInt, Constants

-----------------------------------------------------------------------------
(* What 32 bits keep of a product.                                           *)
LEMMA NoMultiple ==
  ASSUME NEW w \in Nat \ {0}, NEW d \in Int, d * w < w, -w < d * w
  PROVE  d = 0
<1>1. ASSUME d >= 1 PROVE FALSE
  <2>1. (d - 1) * w = d * w - w
    OBVIOUS
  <2>2. d - 1 \in Nat /\ w \in Nat /\ (d - 1) * w \in Nat
    BY <1>1
  <2> QED
    BY <2>1, <2>2
<1>2. ASSUME d <= -1 PROVE FALSE
  <2>1. (-1 - d) * w = -w - d * w
    OBVIOUS
  <2>2. -1 - d \in Nat /\ w \in Nat /\ (-1 - d) * w \in Nat
    BY <1>2
  <2> QED
    BY <2>1, <2>2
<1> QED
  BY <1>1, <1>2

(* Quotient and remainder.                                                  *)
LEMMA Division ==
  ASSUME NEW w \in Nat \ {0}, NEW n \in Int
  PROVE  n \div w \in Int /\ n % w \in 0 .. w - 1 /\ n = (n \div w) * w + (n % w)
OBVIOUS

(* There is one remainder.                                                  *)
LEMMA OneDivision ==
  ASSUME NEW w \in Nat \ {0}, NEW a \in Int, NEW b \in Int,
         NEW r \in 0 .. w - 1, NEW s \in 0 .. w - 1, a * w + r = b * w + s
  PROVE  r = s
<1> DEFINE d == a - b
<1>1. d \in Int /\ d * w = a * w - b * w
  OBVIOUS
<1>2. a * w \in Int /\ b * w \in Int
  OBVIOUS
<1>3. d * w = s - r
  BY <1>1, <1>2
<1>4. d * w < w /\ -w < d * w
  BY <1>3
<1> HIDE DEF d
<1>5. d = 0
  BY <1>1, <1>4, NoMultiple
<1>6. d * w = 0
  BY <1>5
<1> QED
  BY <1>3, <1>6

(* Multiples of the divisor do not change it.                               *)
LEMMA Remainders ==
  ASSUME NEW w \in Nat \ {0}, NEW n \in Int, NEW k \in Int
  PROVE  (n + k * w) % w = n % w
<1> DEFINE m == n + k * w
           a == m \div w
           b == n \div w
           r == m % w
           s == n % w
<1>1. m \in Int /\ k * w \in Int
  OBVIOUS
<1>2. a \in Int /\ b \in Int /\ r \in 0 .. w - 1 /\ s \in 0 .. w - 1 /\ n = b * w + s
  BY <1>1, Division
<1>3. m = a * w + r
  <2> HIDE DEF m
  <2> QED
    BY <1>1, Division
<1> HIDE DEF a, b, r, s
<1>4. (b + k) * w = b * w + k * w /\ b * w \in Int /\ a * w \in Int /\ b + k \in Int
  BY <1>2
<1>5. a * w + r = (b + k) * w + s
  BY <1>1, <1>2, <1>3, <1>4
<1>6. r = s
  BY <1>2, <1>4, <1>5, OneDivision
<1> QED
  BY <1>6 DEF r, s

(* A remainder differs by a multiple, and by none from a small number.      *)
LEMMA ModuloIs ==
  ASSUME NEW w \in Nat \ {0}, NEW n \in Nat
  PROVE  /\ n % w \in Nat
         /\ \E k \in Int : n % w = n + k * w
         /\ n < w => n % w = n
<1> DEFINE r == n % w
           q == n \div w
<1>1. q \in Int /\ r \in 0 .. w - 1 /\ n = q * w + r
  BY Division
<1> HIDE DEF r, q
<1>2. -q \in Int /\ (-q) * w = -(q * w) /\ q * w \in Int
  BY <1>1
<1>3. r = n + (-q) * w
  BY <1>1, <1>2
<1>4. ASSUME n < w PROVE r = n
  <2>1. q * w < w /\ -w < q * w
    BY <1>1, <1>2, <1>4
  <2>2. q = 0
    BY <1>1, <2>1, NoMultiple
  <2> QED
    BY <1>1, <2>2
<1>5. r \in Nat
  BY <1>1
<1>6. \E k \in Int : r = n + k * w
  BY <1>2, <1>3
<1> QED
  BY <1>4, <1>5, <1>6 DEF r
-----------------------------------------------------------------------------
(* What a transfer gives to the players.                                     *)
GoldGain(gain) == [p \in Trader |-> gain[p].gold]
ItemGain(gain) == [p \in Trader |-> gain[p].items]
CoinItemGain(gain) == [p \in Trader |-> gain[p].coinItems]

(* Each player can give what the transfer takes from it.                     *)
Possible(gain) ==
  \A p \in Trader : /\ gain[p].gold \in Int
                    /\ gain[p].items \in Int
                    /\ gain[p].coinItems \in Int
                    /\ Held(p).gold + gain[p].gold >= 0
                    /\ Held(p).items + gain[p].items >= 0
                    /\ Held(p).coinItems + gain[p].coinItems >= 0

(* A transfer adds to what each player holds, wherever that is kept.        *)
LEMMA TransferHeld ==
  ASSUME MarketTypes, NEW gain, Possible(gain), Transfer(gain), UNCHANGED inGame
  PROVE  /\ purse' \in [Trader -> Purse] /\ saved' \in [Trader -> Purse]
         /\ \A p \in Trader : /\ GoldOf'[p] = GoldOf[p] + gain[p].gold
                              /\ ItemsOf'[p] = ItemsOf[p] + gain[p].items
                              /\ CoinItemsOf'[p] = CoinItemsOf[p] + gain[p].coinItems
<1>1. ASSUME NEW p \in Trader
      PROVE  /\ purse'[p] \in Purse /\ saved'[p] \in Purse
             /\ Held(p)' = Add(Held(p), gain[p])
  <2>1. Held(p).gold + gain[p].gold \in Nat /\ Held(p).items + gain[p].items \in Nat
        /\ Held(p).coinItems + gain[p].coinItems \in Nat
    BY HeldIs DEF Possible
  <2>2. Add(Held(p), gain[p]) \in Purse
    BY <2>1 DEF Add, Purse
  <2>3. CASE p \in inGame
    <3>1. purse'[p] = Add(purse[p], gain[p]) /\ saved'[p] = saved[p]
      BY <2>3 DEF Transfer
    <3>2. Held(p) = purse[p] /\ Held(p)' = purse'[p]
      BY <2>3 DEF Held
    <3> QED
      BY <2>2, <3>1, <3>2 DEF MarketTypes
  <2>4. CASE p \notin inGame
    <3>1. purse'[p] = purse[p] /\ saved'[p] = Add(saved[p], gain[p])
      BY <2>4 DEF Transfer
    <3>2. Held(p) = saved[p] /\ Held(p)' = saved'[p]
      BY <2>4 DEF Held
    <3> QED
      BY <2>2, <3>1, <3>2 DEF MarketTypes
  <2> QED
    BY <2>3, <2>4
<1>2. purse' \in [Trader -> Purse] /\ saved' \in [Trader -> Purse]
  <2>1. DOMAIN purse' = Trader /\ DOMAIN saved' = Trader
    BY DEF Transfer
  <2>2. purse' = [p \in Trader |-> purse'[p]] /\ saved' = [p \in Trader |-> saved'[p]]
    BY DEF Transfer
  <2> QED
    BY <1>1, <2>2
<1>3. ASSUME NEW p \in Trader
      PROVE  /\ GoldOf'[p] = GoldOf[p] + gain[p].gold
             /\ ItemsOf'[p] = ItemsOf[p] + gain[p].items
             /\ CoinItemsOf'[p] = CoinItemsOf[p] + gain[p].coinItems
  BY <1>1 DEF GoldOf, ItemsOf, CoinItemsOf, Add
<1> QED
  BY <1>2, <1>3

(* ... and so its total to the totals.                                      *)
LEMMA TransferTotals ==
  ASSUME MarketTypes, NEW gain, Possible(gain), Transfer(gain), UNCHANGED inGame
  PROVE  /\ SumFunctionOnSet(GoldOf', Trader) =
              SumFunctionOnSet(GoldOf, Trader) + SumFunctionOnSet(GoldGain(gain), Trader)
         /\ SumFunctionOnSet(ItemsOf', Trader) =
              SumFunctionOnSet(ItemsOf, Trader) + SumFunctionOnSet(ItemGain(gain), Trader)
         /\ SumFunctionOnSet(CoinItemsOf', Trader) =
              SumFunctionOnSet(CoinItemsOf, Trader)
                + SumFunctionOnSet(CoinItemGain(gain), Trader)
<1>1. \A p \in Trader : /\ GoldOf[p] \in Int /\ ItemsOf[p] \in Int /\ CoinItemsOf[p] \in Int
  BY HeldIs DEF GoldOf, ItemsOf, CoinItemsOf
<1>2. \A p \in Trader : /\ GoldGain(gain)[p] = gain[p].gold
                        /\ ItemGain(gain)[p] = gain[p].items
                        /\ CoinItemGain(gain)[p] = gain[p].coinItems
  BY DEF GoldGain, ItemGain, CoinItemGain
<1>3. \A p \in Trader : gain[p].gold \in Int /\ gain[p].items \in Int /\ gain[p].coinItems \in Int
  BY DEF Possible
<1>4. \A p \in Trader : /\ GoldOf'[p] = GoldOf[p] + GoldGain(gain)[p]
                        /\ ItemsOf'[p] = ItemsOf[p] + ItemGain(gain)[p]
                        /\ CoinItemsOf'[p] = CoinItemsOf[p] + CoinItemGain(gain)[p]
  BY <1>2, TransferHeld
<1>5. SumFunctionOnSet(GoldOf', Trader) =
              SumFunctionOnSet(GoldOf, Trader) + SumFunctionOnSet(GoldGain(gain), Trader)
  BY <1>1, <1>2, <1>3, <1>4, Constants, SumPlus
<1>6. SumFunctionOnSet(ItemsOf', Trader) =
              SumFunctionOnSet(ItemsOf, Trader) + SumFunctionOnSet(ItemGain(gain), Trader)
  BY <1>1, <1>2, <1>3, <1>4, Constants, SumPlus
<1>7. SumFunctionOnSet(CoinItemsOf', Trader) =
              SumFunctionOnSet(CoinItemsOf, Trader)
                + SumFunctionOnSet(CoinItemGain(gain), Trader)
  BY <1>1, <1>2, <1>3, <1>4, Constants, SumPlus
<1> QED
  BY <1>5, <1>6, <1>7

(* One player's gain is everybody's.                                         *)
LEMMA OnlyTotals ==
  ASSUME NEW p \in Trader, NEW x, x.gold \in Int, x.items \in Int, x.coinItems \in Int
  PROVE  /\ SumFunctionOnSet(GoldGain(Only(p, x)), Trader) = x.gold
         /\ SumFunctionOnSet(ItemGain(Only(p, x)), Trader) = x.items
         /\ SumFunctionOnSet(CoinItemGain(Only(p, x)), Trader) = x.coinItems
<1> DEFINE g == GoldGain(Only(p, x))
           i == ItemGain(Only(p, x))
           c == CoinItemGain(Only(p, x))
<1>1. \A y \in Trader : Only(p, x)[y] = IF y = p THEN x ELSE Empty
  BY DEF Only
<1>2. Empty.gold = 0 /\ Empty.items = 0 /\ Empty.coinItems = 0
  BY DEF Empty
<1>3. /\ g[p] = x.gold /\ \A y \in Trader \ {p} : g[y] = 0
      /\ i[p] = x.items /\ \A y \in Trader \ {p} : i[y] = 0
      /\ c[p] = x.coinItems /\ \A y \in Trader \ {p} : c[y] = 0
  BY <1>1, <1>2 DEF GoldGain, ItemGain, CoinItemGain
<1> HIDE DEF g, i, c
<1>4. SumFunctionOnSet(g, Trader) = x.gold
  BY <1>3, Constants, SumOnly
<1>5. SumFunctionOnSet(i, Trader) = x.items
  BY <1>3, Constants, SumOnly
<1>6. SumFunctionOnSet(c, Trader) = x.coinItems
  BY <1>3, Constants, SumOnly
<1> QED
  BY <1>4, <1>5, <1>6 DEF g, i, c

-----------------------------------------------------------------------------
(* One row changes.                                                          *)
LEMMA RowTotals ==
  ASSUME MarketTypes, offers' \in [Id -> Offer \cup {NoOffer}],
         NEW id \in Id, \A x \in Id \ {id} : offers'[x] = offers[x]
  PROVE  /\ SumFunctionOnSet(GoldIn', Id) =
              SumFunctionOnSet(GoldIn, Id) - PaidFor(offers[id]) + PaidFor(offers'[id])
         /\ SumFunctionOnSet(ItemsIn', Id) =
              SumFunctionOnSet(ItemsIn, Id) - OnSale(offers[id], "item")
                + OnSale(offers'[id], "item")
         /\ SumFunctionOnSet(CoinsIn', Id) =
              SumFunctionOnSet(CoinsIn, Id) - OnSale(offers[id], "coin")
                + OnSale(offers'[id], "coin")
<1>1. \A x \in Id : GoldIn[x] \in Int /\ ItemsIn[x] \in Int /\ CoinsIn[x] \in Int
  BY RowsAreCounted
<1>2. \A x \in Id : GoldIn'[x] \in Int /\ ItemsIn'[x] \in Int /\ CoinsIn'[x] \in Int
  <2>1. \A x \in Id : offers'[x] \in Offer \cup {NoOffer}
    OBVIOUS
  <2> QED
    BY <2>1, OfferCounts DEF GoldIn, ItemsIn, CoinsIn
<1>3. /\ GoldIn[id] = PaidFor(offers[id]) /\ GoldIn'[id] = PaidFor(offers'[id])
      /\ ItemsIn[id] = OnSale(offers[id], "item") /\ ItemsIn'[id] = OnSale(offers'[id], "item")
      /\ CoinsIn[id] = OnSale(offers[id], "coin") /\ CoinsIn'[id] = OnSale(offers'[id], "coin")
  BY DEF GoldIn, ItemsIn, CoinsIn
<1>4. \A x \in Id \ {id} : GoldIn'[x] = GoldIn[x] /\ ItemsIn'[x] = ItemsIn[x]
                             /\ CoinsIn'[x] = CoinsIn[x]
  BY DEF GoldIn, ItemsIn, CoinsIn
<1>5. SumFunctionOnSet(GoldIn', Id) = SumFunctionOnSet(GoldIn, Id) - GoldIn[id] + GoldIn'[id]
  BY <1>1, <1>2, <1>4, Constants, SumChange
<1>6. SumFunctionOnSet(ItemsIn', Id) = SumFunctionOnSet(ItemsIn, Id) - ItemsIn[id] + ItemsIn'[id]
  BY <1>1, <1>2, <1>4, Constants, SumChange
<1>7. SumFunctionOnSet(CoinsIn', Id) = SumFunctionOnSet(CoinsIn, Id) - CoinsIn[id] + CoinsIn'[id]
  BY <1>1, <1>2, <1>4, Constants, SumChange
<1> QED
  BY <1>3, <1>5, <1>6, <1>7

-----------------------------------------------------------------------------
(* What updates add to the accounts.                                         *)
DueOf(x) == [p \in Trader |-> Due(x, p, Len(x))]

(* What new updates add to an account is an integer.                        *)
LEMMA DueOfInt ==
  ASSUME NEW x \in Seq(CoinQuery), NEW p \in Trader
  PROVE  DueOf(x)[p] \in Int
<1>1. Len(x) \in 0 .. Len(x)
  BY LenProperties
<1> QED
  BY <1>1, DueInt DEF DueOf

(* New updates add their total to the balances.                             *)
LEMMA QueriesTotal ==
  ASSUME MarketTypes, NEW x \in Seq(CoinQuery), coinQueries' = coinQueries \o x, UNCHANGED coins
  PROVE  /\ coinQueries' \in Seq(CoinQuery)
         /\ SumFunctionOnSet(Balances', Trader) =
              SumFunctionOnSet(Balances, Trader) + SumFunctionOnSet(DueOf(x), Trader)
<1> DEFINE q == coinQueries
           r == q \o x
<1>1. q \in Seq(CoinQuery) /\ r \in Seq(CoinQuery) /\ Len(r) = Len(q) + Len(x)
      /\ Len(x) \in 0 .. Len(x) /\ Len(q) \in 0 .. Len(q)
  BY ConcatProperties, LenProperties DEF MarketTypes
<1>2. BalancesAre'
  <2>1. (coinQueries \in Seq(CoinQuery))'
    BY <1>1
  <2> QED
    BY <2>1, BalancesNow, PTL
<1>3. ASSUME NEW p \in Trader
      PROVE  Balance(p)' = Balance(p) + DueOf(x)[p]
  <2>1. Balance(p) = coins[p] + Due(q, p, Len(q))
    BY <1>1, BalanceDue
  <2>2. Balance(p)' = coins'[p] + Due(coinQueries', p, Len(coinQueries'))
    BY <1>2 DEF BalancesAre
  <2>3. Due(r, p, Len(q) + Len(x)) = Due(q, p, Len(q)) + Due(x, p, Len(x))
    BY <1>1, DueConcat
  <2>4. Due(q, p, Len(q)) \in Int /\ Due(x, p, Len(x)) \in Int /\ coins[p] \in Int
    BY <1>1, DueInt DEF MarketTypes
  <2>5. DueOf(x)[p] = Due(x, p, Len(x))
    BY DEF DueOf
  <2> HIDE DEF q, r
  <2>6. Balance(p)' = coins[p] + Due(r, p, Len(q) + Len(x))
    BY <1>1, <2>2 DEF r, q
  <2> QED
    BY <2>1, <2>3, <2>4, <2>5, <2>6
<1>4. \A p \in Trader : Balances[p] \in Int /\ DueOf(x)[p] \in Int
                        /\ Balances'[p] = Balances[p] + DueOf(x)[p]
  BY <1>3, BalanceInt, DueOfInt DEF Balances
<1>5. SumFunctionOnSet(Balances', Trader) =
        SumFunctionOnSet(Balances, Trader) + SumFunctionOnSet(DueOf(x), Trader)
  BY <1>4, Constants, SumPlus
<1> QED
  BY <1>1, <1>5

(* The update of addCoins: one, of one account, if the ware is coins.       *)
LEMMA AddCoinsDue ==
  ASSUME NEW p \in Trader, NEW ware, NEW n \in Int
  PROVE  /\ AddCoins(p, ware, n) \in Seq(CoinQuery)
         /\ Len(AddCoins(p, ware, n)) = IF ware = "coin" THEN 1 ELSE 0
         /\ \A y : \A j \in 0 .. Len(AddCoins(p, ware, n)) :
              Due(AddCoins(p, ware, n), y, j) = IF j = 1 /\ y = p THEN n ELSE 0
         /\ SumFunctionOnSet(DueOf(AddCoins(p, ware, n)), Trader) =
              IF ware = "coin" THEN n ELSE 0
<1> DEFINE x == AddCoins(p, ware, n)
           e == [account |-> p, amount |-> n]
<1>1. e \in CoinQuery /\ e.account = p /\ e.amount = n
  BY DEF CoinQuery
<1> HIDE DEF e
<1>2. CASE ware = "coin"
  <2>1. x = <<e>>
    BY <1>2 DEF AddCoins, e
  <2>2. x \in Seq(CoinQuery) /\ Len(x) = 1 /\ x[1] = e
    BY <1>1, <2>1
  <2> HIDE DEF x
  <2>3. ASSUME NEW y PROVE Due(x, y, 0) = 0 /\ Due(x, y, 1) = IF y = p THEN n ELSE 0
    <3>1. Owed(x, y)[1] = IF y = p THEN n ELSE 0
      BY <1>1, <2>2, OwedIs
    <3>2. Due(x, y, 1) = Due(x, y, 1 - 1) + Owed(x, y)[1]
      BY <2>2, DueNext
    <3>3. Due(x, y, 0) = 0
      BY DueNone
    <3> QED
      BY <3>1, <3>2, <3>3
  <2>4. \A y : \A j \in 0 .. Len(x) : Due(x, y, j) = IF j = 1 /\ y = p THEN n ELSE 0
    <3>1. ASSUME NEW y, NEW j \in 0 .. Len(x)
          PROVE Due(x, y, j) = IF j = 1 /\ y = p THEN n ELSE 0
      <4>1. j = 0 \/ j = 1
        BY <2>2
      <4> QED
        BY <2>3, <4>1
    <3> QED
      BY <3>1
  <2> DEFINE h == DueOf(x)
  <2>5. h[p] = n /\ \A y \in Trader \ {p} : h[y] = 0
    BY <2>2, <2>3 DEF DueOf
  <2> HIDE DEF h
  <2>6. SumFunctionOnSet(h, Trader) = n
    BY <2>5, Constants, SumOnly
  <2> QED
    BY <1>2, <2>2, <2>4, <2>6 DEF x, h
<1>3. CASE ware # "coin"
  <2>1. x = <<>>
    BY <1>3 DEF AddCoins
  <2>2. x \in Seq(CoinQuery) /\ Len(x) = 0
    BY <2>1
  <2> HIDE DEF x
  <2>3. \A y : \A j \in 0 .. Len(x) : Due(x, y, j) = IF j = 1 /\ y = p THEN n ELSE 0
    <3>1. ASSUME NEW y, NEW j \in 0 .. Len(x)
          PROVE Due(x, y, j) = IF j = 1 /\ y = p THEN n ELSE 0
      <4>1. j = 0
        BY <2>2
      <4> QED
        BY <4>1, DueNone
    <3> QED
      BY <3>1
  <2> DEFINE h == DueOf(x)
  <2>4. \A y \in Trader : h[y] = 0
    BY <2>2, <2>3, DueNone DEF DueOf
  <2> HIDE DEF h
  <2>5. SumFunctionOnSet(h, Trader) = 0
    BY <2>4, Constants, SumZero
  <2> QED
    BY <1>3, <2>2, <2>3, <2>5 DEF x, h
<1> QED
  BY <1>2, <1>3

Adds(x, p, ware, n) ==
  /\ x \in Seq(CoinQuery)
  /\ Len(x) = IF ware = "coin" THEN 1 ELSE 0
  /\ \A y : \A j \in 0 .. Len(x) : Due(x, y, j) = IF j = 1 /\ y = p THEN n ELSE 0
  /\ SumFunctionOnSet(DueOf(x), Trader) = IF ware = "coin" THEN n ELSE 0

(* ... in the form the actions use.                                         *)
LEMMA AddCoinsAdds ==
  ASSUME NEW p \in Trader, NEW ware, NEW n \in Int
  PROVE  Adds(AddCoins(p, ware, n), p, ware, n)
BY AddCoinsDue DEF Adds

(* An action without an update adds nothing.                                *)
LEMMA NoQueryDue ==
  /\ <<>> \in Seq(CoinQuery)
  /\ Len(<<>>) = 0
  /\ \A y : Due(<<>>, y, 0) = 0
  /\ SumFunctionOnSet(DueOf(<<>>), Trader) = 0
<1>1. \A y \in Trader : DueOf(<<>>)[y] = 0
  BY DueNone DEF DueOf
<1>2. SumFunctionOnSet(DueOf(<<>>), Trader) = 0
  BY <1>1, Constants, SumZero
<1> QED
  BY <1>2, DueNone

(* Updates which take no more than there is leave no account below zero.     *)
LEMMA QueriesAllowed ==
  ASSUME MarketTypes, NeverBelow, NEW x \in Seq(CoinQuery), coinQueries' = coinQueries \o x,
         UNCHANGED coins, damage \subseteq damage',
         "overdrawn" \notin damage' =>
           \A p \in Trader : \A j \in 0 .. Len(x) : Balance(p) + Due(x, p, j) >= 0
  PROVE  NeverBelow'
<1> DEFINE q == coinQueries
           r == q \o x
           n == Len(q)
           m == Len(x)
<1>1. q \in Seq(CoinQuery) /\ Len(r) = n + m /\ n \in Nat /\ m \in Nat
  BY ConcatProperties, LenProperties DEF MarketTypes
<1> SUFFICES ASSUME "overdrawn" \notin damage', NEW p \in Trader, NEW j \in 0 .. Len(r)
             PROVE  coins[p] + Due(r, p, j) >= 0
  BY DEF NeverBelow
<1>2. "overdrawn" \notin damage
  OBVIOUS
<1>3. Balance(p) = coins[p] + Due(q, p, n) /\ coins[p] \in Int /\ Due(q, p, n) \in Int
  BY <1>1, BalanceDue, DueInt DEF MarketTypes
<1>4. \A i \in 0 .. n : Due(r, p, i) = Due(q, p, i)
  BY <1>1, DueConcat
<1>5. \A i \in 0 .. m : Due(r, p, n + i) = Due(q, p, n) + Due(x, p, i)
  BY <1>1, DueConcat
<1>6. \A i \in 0 .. m : Balance(p) + Due(x, p, i) >= 0 /\ Due(x, p, i) \in Int
  BY DueInt
<1>7. \A i \in 0 .. n : coins[p] + Due(q, p, i) >= 0
  BY <1>2 DEF NeverBelow
<1>8. j \in 0 .. n + m
  BY <1>1
<1> HIDE DEF q, r, n, m
<1>9. CASE j <= n
  BY <1>1, <1>4, <1>7, <1>8, <1>9
<1>10. CASE j > n
  <2> DEFINE i == j - n
  <2>1. i \in 0 .. m /\ j = n + i
    BY <1>1, <1>8, <1>10
  <2> HIDE DEF i
  <2> QED
    BY <1>3, <1>5, <1>6, <2>1
<1> QED
  BY <1>1, <1>8, <1>9, <1>10

(* Without "overdrawn", a balance is not below zero.                         *)
LEMMA BalanceNat ==
  ASSUME MarketTypes, NeverBelow, "overdrawn" \notin damage, NEW p \in Trader
  PROVE  Balance(p) >= 0 /\ coins[p] >= 0
<1>1. Len(coinQueries) \in 0 .. Len(coinQueries) /\ 0 \in 0 .. Len(coinQueries)
      /\ coinQueries \in Seq(CoinQuery)
  BY LenProperties DEF MarketTypes
<1>2. Balance(p) = coins[p] + Due(coinQueries, p, Len(coinQueries))
  BY <1>1, BalanceDue
<1>3. Due(coinQueries, p, 0) = 0 /\ coins[p] \in Int
  BY DueNone DEF MarketTypes
<1> QED
  BY <1>1, <1>2, <1>3 DEF NeverBelow

-----------------------------------------------------------------------------
(* What a step changes that concerns one row.                                *)
OneRow(id) ==
  /\ offers' \in [Id -> Offer \cup {NoOffer}]
  /\ \A i \in Id \ {id} : offers'[i] = offers[i]

Moved(gain, id, x) ==
  /\ purse' \in [Trader -> Purse] /\ saved' \in [Trader -> Purse]
  /\ coinQueries' \in Seq(CoinQuery)
  /\ AllGold' = AllGold + (Fee * (nextId' - 1) - Fee * (nextId - 1))
       + SumFunctionOnSet(GoldGain(gain), Trader)
       - PaidFor(offers[id]) + PaidFor(offers'[id])
  /\ AllItems' = AllItems + SumFunctionOnSet(ItemGain(gain), Trader)
       - OnSale(offers[id], "item") + OnSale(offers'[id], "item")
  /\ AllCoins' = AllCoins + SumFunctionOnSet(DueOf(x), Trader)
       + SumFunctionOnSet(CoinItemGain(gain), Trader)
       - OnSale(offers[id], "coin") + OnSale(offers'[id], "coin")

(* The totals change by what is transferred and by the one row.             *)
LEMMA RowStep ==
  ASSUME MarketTypes, NEW gain, Possible(gain), Transfer(gain), UNCHANGED <<inGame, coins>>,
         NEW id \in Id, OneRow(id),
         NEW x \in Seq(CoinQuery), coinQueries' = coinQueries \o x, nextId' \in Int
  PROVE  Moved(gain, id, x)
<1>1. /\ SumFunctionOnSet(GoldOf', Trader) =
              SumFunctionOnSet(GoldOf, Trader) + SumFunctionOnSet(GoldGain(gain), Trader)
      /\ SumFunctionOnSet(ItemsOf', Trader) =
              SumFunctionOnSet(ItemsOf, Trader) + SumFunctionOnSet(ItemGain(gain), Trader)
      /\ SumFunctionOnSet(CoinItemsOf', Trader) =
              SumFunctionOnSet(CoinItemsOf, Trader)
                + SumFunctionOnSet(CoinItemGain(gain), Trader)
  BY TransferTotals
<1>2. /\ SumFunctionOnSet(GoldIn', Id) =
              SumFunctionOnSet(GoldIn, Id) - PaidFor(offers[id]) + PaidFor(offers'[id])
      /\ SumFunctionOnSet(ItemsIn', Id) =
              SumFunctionOnSet(ItemsIn, Id) - OnSale(offers[id], "item")
                + OnSale(offers'[id], "item")
      /\ SumFunctionOnSet(CoinsIn', Id) =
              SumFunctionOnSet(CoinsIn, Id) - OnSale(offers[id], "coin")
                + OnSale(offers'[id], "coin")
  BY RowTotals DEF OneRow
<1>3. /\ coinQueries' \in Seq(CoinQuery)
      /\ SumFunctionOnSet(Balances', Trader) =
              SumFunctionOnSet(Balances, Trader) + SumFunctionOnSet(DueOf(x), Trader)
  BY QueriesTotal
<1>4. offers[id] \in Offer \cup {NoOffer} /\ offers'[id] \in Offer \cup {NoOffer}
  BY DEF MarketTypes, OneRow
<1>5. /\ PaidFor(offers[id]) \in Int /\ PaidFor(offers'[id]) \in Int
      /\ OnSale(offers[id], "item") \in Int /\ OnSale(offers'[id], "item") \in Int
      /\ OnSale(offers[id], "coin") \in Int /\ OnSale(offers'[id], "coin") \in Int
  BY <1>4, OfferCounts
<1>6. /\ SumFunctionOnSet(GoldGain(gain), Trader) \in Int
      /\ SumFunctionOnSet(ItemGain(gain), Trader) \in Int
      /\ SumFunctionOnSet(CoinItemGain(gain), Trader) \in Int
      /\ SumFunctionOnSet(DueOf(x), Trader) \in Int
  <2>1. \A p \in Trader : /\ GoldGain(gain)[p] \in Int /\ ItemGain(gain)[p] \in Int
                          /\ CoinItemGain(gain)[p] \in Int /\ DueOf(x)[p] \in Int
    BY DueOfInt DEF GoldGain, ItemGain, CoinItemGain, Possible
  <2> QED
    BY <2>1, Constants, SumInt
<1>7. Fee * (nextId' - 1) \in Int /\ Fee * (nextId - 1) \in Int
  <2>1. \A m, n \in Int : m * n \in Int
    OBVIOUS
  <2>2. nextId \in Int /\ Fee \in Int
    BY Constants DEF MarketTypes
  <2> QED
    BY <2>1, <2>2
<1>8. purse' \in [Trader -> Purse] /\ saved' \in [Trader -> Purse]
  BY TransferHeld
<1> DEFINE a == Fee * (nextId - 1)
           b == Fee * (nextId' - 1)
           gold == SumFunctionOnSet(GoldOf, Trader)
           items == SumFunctionOnSet(ItemsOf, Trader)
           coinItems == SumFunctionOnSet(CoinItemsOf, Trader)
           balances == SumFunctionOnSet(Balances, Trader)
           goldIn == SumFunctionOnSet(GoldIn, Id)
           itemsIn == SumFunctionOnSet(ItemsIn, Id)
           coinsIn == SumFunctionOnSet(CoinsIn, Id)
           g == SumFunctionOnSet(GoldGain(gain), Trader)
           i == SumFunctionOnSet(ItemGain(gain), Trader)
           c == SumFunctionOnSet(CoinItemGain(gain), Trader)
           d == SumFunctionOnSet(DueOf(x), Trader)
           o == offers[id]
           r == offers'[id]
<1>9. AllGold' = b + (gold + g) + (goldIn - PaidFor(o) + PaidFor(r)) /\ AllGold = a + gold + goldIn
  BY <1>1, <1>2 DEF AllGold
<1>10. /\ AllItems' = (items + i) + (itemsIn - OnSale(o, "item") + OnSale(r, "item"))
       /\ AllItems = items + itemsIn
  BY <1>1, <1>2 DEF AllItems
<1>11. /\ AllCoins' = (balances + d) + (coinItems + c)
                        + (coinsIn - OnSale(o, "coin") + OnSale(r, "coin"))
       /\ AllCoins = balances + coinItems + coinsIn
  BY <1>1, <1>2, <1>3 DEF AllCoins
<1>12. /\ a \in Int /\ b \in Int /\ gold \in Int /\ items \in Int /\ coinItems \in Int
       /\ balances \in Int /\ goldIn \in Int /\ itemsIn \in Int /\ coinsIn \in Int
       /\ g \in Int /\ i \in Int /\ c \in Int /\ d \in Int
       /\ PaidFor(o) \in Int /\ PaidFor(r) \in Int
       /\ OnSale(o, "item") \in Int /\ OnSale(r, "item") \in Int
       /\ OnSale(o, "coin") \in Int /\ OnSale(r, "coin") \in Int
  BY <1>5, <1>6, <1>7, SumsAreInt
<1> HIDE DEF a, b, gold, items, coinItems, balances, goldIn, itemsIn, coinsIn, g, i, c, d, o, r
<1>13. AllGold' = AllGold + (b - a) + g - PaidFor(o) + PaidFor(r)
  BY ONLY <1>9, <1>12
<1>14. AllItems' = AllItems + i - OnSale(o, "item") + OnSale(r, "item")
  BY ONLY <1>10, <1>12
<1>15. AllCoins' = AllCoins + d + c - OnSale(o, "coin") + OnSale(r, "coin")
  BY ONLY <1>11, <1>12
<1> QED
  BY <1>3, <1>8, <1>13, <1>14, <1>15 DEF Moved, a, b, g, i, c, d, o, r

(* The totals are integers.                                                 *)
LEMMA TotalsAreInt ==
  ASSUME MarketTypes
  PROVE  AllGold \in Int /\ AllItems \in Int /\ AllCoins \in Int
<1>1. Fee * (nextId - 1) \in Int
  <2>1. \A m, n \in Int : m * n \in Int
    OBVIOUS
  <2>2. nextId - 1 \in Int /\ Fee \in Int
    BY Constants DEF MarketTypes
  <2> QED
    BY <2>1, <2>2
<1> QED
  BY <1>1, SumsAreInt DEF AllGold, AllItems, AllCoins

(* A difference of so many times 2^32 is what an overflow may leave.         *)
LEMMA GoldStep ==
  ASSUME MarketTypes, GoldKept, damage \subseteq damage',
         "outdated" \notin damage' =>
           \E k \in Int : /\ AllGold' = AllGold + k * Width
                          /\ "overflow" \notin damage' => k = 0
  PROVE  GoldKept'
<1> SUFFICES ASSUME "outdated" \notin damage'
             PROVE  \E k \in Int : /\ AllGold' = Cardinality(Trader) * Wealth + k * Width
                                   /\ "overflow" \notin damage' => k = 0
  BY DEF GoldKept
<1>1. PICK k \in Int : /\ AllGold' = AllGold + k * Width
                       /\ "overflow" \notin damage' => k = 0
  OBVIOUS
<1>2. PICK l \in Int : /\ AllGold = Cardinality(Trader) * Wealth + l * Width
                       /\ "overflow" \notin damage => l = 0
  BY DEF GoldKept
<1>3. (k + l) * Width = k * Width + l * Width /\ k * Width \in Int /\ l * Width \in Int
  BY Constants
<1>4. Cardinality(Trader) * Wealth \in Int
  BY Constants, ProductInNat
<1>5. AllGold' = Cardinality(Trader) * Wealth + (k + l) * Width
  BY <1>1, <1>2, <1>3, <1>4
<1>6. "overflow" \notin damage' => k + l = 0
  BY <1>1, <1>2
<1>7. k + l \in Int
  OBVIOUS
<1> QED
  BY <1>5, <1>6, <1>7

-----------------------------------------------------------------------------
(* The fields of a deal.                                                    *)
LEMMA DealIs ==
  ASSUME NEW d \in Deal
  PROVE  /\ d.sale \in BOOLEAN /\ d.ware \in {"item", "coin"}
         /\ d.amount \in Nat \ {0} /\ d.price \in Nat \ {0}
<1>1. d \in [sale : BOOLEAN, ware : {"item", "coin"}, amount : Nat \ {0}, price : Nat \ {0}]
  BY MarketAssumption
<1> QED
  BY <1>1

(* A product of 32 bits is off by a multiple of Width if it overflows.      *)
LEMMA Times32Is ==
  ASSUME NEW m \in Nat, NEW n \in Nat
  PROVE  /\ Times32(m, n) \in Nat
         /\ m * n \in Nat
         /\ \E k \in Int : Times32(m, n) = m * n + k * Width
         /\ m * n < Width => Times32(m, n) = m * n
<1> DEFINE w == m * n
<1>1. w \in Nat
  BY ProductInNat
<1>2. Times32(m, n) = w % Width
  BY DEF Times32
<1> HIDE DEF w
<1>3. /\ w % Width \in Nat
      /\ \E k \in Int : w % Width = w + k * Width
      /\ w < Width => w % Width = w
  BY <1>1, Constants, ModuloIs
<1> QED
  BY <1>1, <1>2, <1>3 DEF w

(* The purses which the requests speak of.                                   *)
LEMMA PursesAre ==
  /\ \A n : Gold(n).gold = n /\ Gold(n).items = 0 /\ Gold(n).coinItems = 0
  /\ \A w, n : /\ Items(w, n).gold = 0 /\ Items(w, n).coinItems = 0
               /\ Items(w, n).items = IF w = "item" THEN n ELSE 0
  /\ \A a, b : /\ Add(a, b).gold = a.gold + b.gold
               /\ Add(a, b).items = a.items + b.items
               /\ Add(a, b).coinItems = a.coinItems + b.coinItems
  /\ Empty.gold = 0 /\ Empty.items = 0 /\ Empty.coinItems = 0
BY DEF Gold, Items, Add, Empty

(* A player who has enough can pay.                                         *)
LEMMA OnlyPossible ==
  ASSUME MarketTypes, NEW p \in Trader, NEW x, x.gold \in Int, x.items \in Int, x.coinItems \in Int,
         Held(p).gold + x.gold >= 0, Held(p).items + x.items >= 0,
         Held(p).coinItems + x.coinItems >= 0
  PROVE  Possible(Only(p, x))
<1> SUFFICES ASSUME NEW y \in Trader
    PROVE  /\ Only(p, x)[y].gold \in Int
           /\ Only(p, x)[y].items \in Int
           /\ Only(p, x)[y].coinItems \in Int
           /\ Held(y).gold + Only(p, x)[y].gold >= 0
           /\ Held(y).items + Only(p, x)[y].items >= 0
           /\ Held(y).coinItems + Only(p, x)[y].coinItems >= 0
  BY DEF Possible
<1>1. Only(p, x)[y] = IF y = p THEN x ELSE Empty
  BY DEF Only
<1>2. CASE y = p
  BY <1>1, <1>2
<1>3. CASE y # p
  <2>1. Only(p, x)[y] = Empty
    BY <1>1, <1>3
  <2>2. Held(y).gold \in Nat /\ Held(y).items \in Nat /\ Held(y).coinItems \in Nat
    BY HeldIs
  <2> QED
    BY <2>1, <2>2, PursesAre
<1> QED
  BY <1>2, <1>3

(* An offer is made: what it takes is what its row counts, but for the fee   *)
(* and for what an overflow leaves out.                                      *)
LEMMA CreateKeeps ==
  ASSUME MarketInv, NEW p \in Trader, NEW d \in Deal, CreateOffer(p, d)
  PROVE  MarketInv'
<1> DEFINE cost == Fee + IF d.sale THEN 0 ELSE Times32(d.price, d.amount)
           given == IF d.sale THEN Items(d.ware, -d.amount) ELSE Empty
           g == Add(Gold(-cost), given)
           gain == Only(p, g)
           x == IF d.sale THEN AddCoins(p, d.ware, -d.amount) ELSE <<>>
           o == [owner |-> p, sale |-> d.sale, ware |-> d.ware,
                 amount |-> d.amount, price |-> d.price]
           id == nextId
<1>1. /\ p \in inGame
      /\ id \in Id
      /\ Affords(p, cost)
      /\ d.sale => Owns(p, d.ware, d.amount)
      /\ Transfer(gain)
      /\ coinQueries' = coinQueries \o x
      /\ offers' = [offers EXCEPT ![id] = o]
      /\ nextId' = nextId + 1
      /\ UNCHANGED <<inGame, coins, old, results>>
  BY DEF CreateOffer
<1>2. damage' = damage \cup
                  IF d.sale THEN Overdraft(p, d.ware, d.amount)
                  ELSE IF d.price * d.amount >= Width THEN {"overflow"} ELSE {}
  BY DEF CreateOffer
<1>3. MarketTypes /\ NeverBelow /\ Given /\ UpToDate /\ GoldKept /\ WaresKept
  BY DEF MarketInv
<1>4. /\ d.sale \in BOOLEAN /\ d.ware \in {"item", "coin"}
      /\ d.amount \in Nat \ {0} /\ d.price \in Nat \ {0}
  BY DealIs
<1>5. damage \subseteq damage' /\ damage' \subseteq Damages
  BY <1>2, <1>3 DEF MarketTypes, Damages, Overdraft
<1>6. /\ Times32(d.price, d.amount) \in Nat
      /\ d.price * d.amount \in Nat
      /\ \E k \in Int : Times32(d.price, d.amount) = d.price * d.amount + k * Width
      /\ d.price * d.amount < Width => Times32(d.price, d.amount) = d.price * d.amount
  BY <1>4, Times32Is
<1>7. cost \in Nat /\ cost <= Held(p).gold
  <2>1. cost \in Nat
    BY <1>4, <1>6, Constants
  <2> QED
    BY <1>1, <2>1 DEF Affords, Held
<1>8. /\ given.gold = 0 /\ given.coinItems = 0
      /\ given.items = IF d.sale /\ d.ware = "item" THEN -d.amount ELSE 0
  BY <1>4, PursesAre
<1> HIDE DEF given
<1>9. /\ g.gold = -cost /\ g.coinItems = 0
      /\ g.items = IF d.sale /\ d.ware = "item" THEN -d.amount ELSE 0
  <2>1. g.gold = -cost + 0 /\ g.coinItems = 0 + 0 /\ g.items = 0 + given.items
    BY <1>8, PursesAre
  <2> QED
    BY <1>4, <1>7, <1>8, <2>1
<1>10. g.gold \in Int /\ g.items \in Int /\ g.coinItems \in Int
  BY <1>4, <1>7, <1>9
<1>11. Possible(gain)
  <2>1. d.sale /\ d.ware = "item" => d.amount <= Held(p).items
    BY <1>1 DEF Owns
  <2>2. Held(p).gold \in Nat /\ Held(p).items \in Nat /\ Held(p).coinItems \in Nat
    BY <1>3, HeldIs
  <2> HIDE DEF g
  <2>3. Held(p).gold + g.gold >= 0 /\ Held(p).items + g.items >= 0
        /\ Held(p).coinItems + g.coinItems >= 0
    BY <1>4, <1>7, <1>9, <2>1, <2>2
  <2> QED
    BY <1>3, <1>10, <2>3, OnlyPossible
<1>12. o \in Offer /\ o # NoOffer
  BY <1>4, Constants DEF Offer
<1>13. /\ PaidFor(o) = IF d.sale THEN 0 ELSE d.price * d.amount
       /\ \A w : OnSale(o, w) = IF d.sale /\ d.ware = w THEN d.amount ELSE 0
  BY <1>12 DEF PaidFor, OnSale
<1>14. /\ x \in Seq(CoinQuery) /\ Len(x) \in 0 .. 1
       /\ \A y \in Trader : \A j \in 0 .. Len(x) :
            Due(x, y, j) = IF j = 1 /\ y = p THEN -d.amount ELSE 0
       /\ Len(x) = 1 => d.sale /\ d.ware = "coin"
       /\ SumFunctionOnSet(DueOf(x), Trader) =
            IF d.sale /\ d.ware = "coin" THEN -d.amount ELSE 0
  <2>1. CASE d.sale
    <3> DEFINE m == -d.amount
               w == d.ware
    <3>1. m \in Int
      BY <1>4
    <3>2. x = AddCoins(p, w, m)
      BY <2>1
    <3> HIDE DEF x, m, w
    <3>3. /\ AddCoins(p, w, m) \in Seq(CoinQuery)
          /\ Len(AddCoins(p, w, m)) = IF w = "coin" THEN 1 ELSE 0
          /\ \A y : \A j \in 0 .. Len(AddCoins(p, w, m)) :
               Due(AddCoins(p, w, m), y, j) = IF j = 1 /\ y = p THEN m ELSE 0
          /\ SumFunctionOnSet(DueOf(AddCoins(p, w, m)), Trader) =
               IF w = "coin" THEN m ELSE 0
      BY <3>1, AddCoinsDue
    <3>4. /\ x \in Seq(CoinQuery)
          /\ Len(x) = IF w = "coin" THEN 1 ELSE 0
          /\ \A y : \A j \in 0 .. Len(x) :
               Due(x, y, j) = IF j = 1 /\ y = p THEN m ELSE 0
          /\ SumFunctionOnSet(DueOf(x), Trader) = IF w = "coin" THEN m ELSE 0
      BY <3>2, <3>3
    <3> QED
      BY <2>1, <3>4 DEF m, w
  <2>2. CASE ~d.sale
    <3>1. x = <<>>
      BY <2>2
    <3> HIDE DEF x
    <3>2. x \in Seq(CoinQuery) /\ Len(x) = 0 /\ (\A y : Due(x, y, 0) = 0)
          /\ SumFunctionOnSet(DueOf(x), Trader) = 0
      BY <3>1, NoQueryDue
    <3> QED
      BY <2>2, <3>2
  <2> QED
    BY <2>1, <2>2
<1>15. offers[id] = NoOffer /\ offers' \in [Id -> Offer \cup {NoOffer}]
       /\ offers'[id] = o /\ \A i \in Id \ {id} : offers'[i] = offers[i]
  <2>1. id >= nextId
    BY <1>3 DEF MarketTypes
  <2> HIDE DEF o
  <2> QED
    BY <1>1, <1>3, <1>12, <2>1 DEF Given, MarketTypes
<1>16. nextId \in Int /\ nextId' \in 1 .. MaxOffer + 1
  BY <1>1, <1>3, Constants DEF MarketTypes, Id
<1> HIDE DEF o, x, g, gain
<1>17. /\ purse' \in [Trader -> Purse] /\ saved' \in [Trader -> Purse]
       /\ coinQueries' \in Seq(CoinQuery)
       /\ AllGold' = AllGold + (Fee * (nextId' - 1) - Fee * (nextId - 1))
              + SumFunctionOnSet(GoldGain(gain), Trader)
              - PaidFor(offers[id]) + PaidFor(offers'[id])
       /\ AllItems' = AllItems + SumFunctionOnSet(ItemGain(gain), Trader)
              - OnSale(offers[id], "item") + OnSale(offers'[id], "item")
       /\ AllCoins' = AllCoins + SumFunctionOnSet(DueOf(x), Trader)
              + SumFunctionOnSet(CoinItemGain(gain), Trader)
              - OnSale(offers[id], "coin") + OnSale(offers'[id], "coin")
  <2>1. nextId' \in Int
    BY <1>16
  <2>2. OneRow(id)
    BY <1>15 DEF OneRow
  <2> HIDE DEF id
  <2>3. Moved(gain, id, x)
    BY <1>1, <1>3, <1>11, <1>14, <2>1, <2>2, RowStep
  <2> QED
    BY <2>3 DEF Moved
<1>18. PaidFor(NoOffer) = 0 /\ \A w : OnSale(NoOffer, w) = 0
  BY DEF PaidFor, OnSale
<1>19. /\ SumFunctionOnSet(GoldGain(gain), Trader) = -cost
       /\ SumFunctionOnSet(ItemGain(gain), Trader) =
            IF d.sale /\ d.ware = "item" THEN -d.amount ELSE 0
       /\ SumFunctionOnSet(CoinItemGain(gain), Trader) = 0
  BY <1>9, <1>10, OnlyTotals DEF gain
<1>20. Fee * (nextId' - 1) - Fee * (nextId - 1) = Fee
  <2>1. Fee * ((nextId + 1) - 1) = Fee * (nextId - 1) + Fee /\ Fee * (nextId - 1) \in Int
    BY <1>16, Constants
  <2> QED
    BY <1>1, <2>1, Constants
<1>21. AllGold \in Int /\ AllItems \in Int /\ AllCoins \in Int
  BY <1>3, TotalsAreInt
<1>22. AllItems' = AllItems /\ AllCoins' = AllCoins
  BY <1>4, <1>13, <1>14, <1>15, <1>17, <1>18, <1>19, <1>21
<1>23. AllGold' = AllGold + Fee - cost + IF d.sale THEN 0 ELSE d.price * d.amount
  <2> HIDE DEF cost
  <2>1. AllGold' = AllGold + Fee + (-cost) - 0 + IF d.sale THEN 0 ELSE d.price * d.amount
    BY <1>13, <1>15, <1>17, <1>18, <1>19, <1>20
  <2>2. (IF d.sale THEN 0 ELSE d.price * d.amount) \in Int
    BY <1>6
  <2> QED
    BY <1>7, <1>21, <2>1, <2>2, Constants
<1>24. \E k \in Int : /\ AllGold' = AllGold + k * Width
                      /\ "overflow" \notin damage' => k = 0
  <2>1. CASE d.sale
    <3>1. AllGold' = AllGold + 0 * Width
      BY <1>21, <1>23, <2>1, Constants
    <3> QED
      BY <3>1
  <2>2. CASE ~d.sale
    <3> DEFINE w == d.price * d.amount
               t == Times32(d.price, d.amount)
    <3>1. t \in Nat /\ w \in Nat /\ (\E k \in Int : t = w + k * Width) /\ (w < Width => t = w)
      BY <1>6
    <3>2. AllGold' = AllGold + Fee - (Fee + t) + w
      BY <1>23, <2>2
    <3>3. w >= Width => "overflow" \in damage'
      BY <1>2, <2>2
    <3> HIDE DEF w, t
    <3>4. AllGold' = AllGold + (w - t)
      BY <1>21, <3>1, <3>2, Constants
    <3>5. CASE w < Width
      <4>1. AllGold' = AllGold + 0 * Width
        BY <1>21, <3>1, <3>4, <3>5, Constants
      <4> QED
        BY <4>1
    <3>6. CASE w >= Width
      <4>1. PICK k \in Int : t = w + k * Width
        BY <3>1
      <4>2. (-k) * Width = -(k * Width) /\ k * Width \in Int /\ -k \in Int
        BY Constants
      <4>3. AllGold' = AllGold + (-k) * Width
        BY <1>21, <3>1, <3>4, <4>1, <4>2
      <4> QED
        BY <3>3, <3>6, <4>2, <4>3
    <3> QED
      BY <3>1, <3>5, <3>6, Constants
  <2> QED
    BY <1>4, <2>1, <2>2
<1>25. MarketTypes'
  BY <1>1, <1>3, <1>5, <1>15, <1>16, <1>17 DEF MarketTypes
<1>26. NeverBelow'
  <2>1. ASSUME "overdrawn" \notin damage', NEW y \in Trader, NEW j \in 0 .. Len(x)
        PROVE  Balance(y) + Due(x, y, j) >= 0
    <3>1. Balance(y) >= 0 /\ Balance(y) \in Int
      BY <1>3, <1>5, <2>1, BalanceNat, BalanceInt
    <3>2. Due(x, y, j) = IF j = 1 /\ y = p THEN -d.amount ELSE 0
      BY <1>14
    <3>3. CASE j = 1 /\ y = p
      <4>1. d.sale /\ d.ware = "coin"
        BY <1>14, <3>3
      <4>2. d.amount <= Balance(p)
        <5>1. ~(d.amount > Balance(p))
          BY <1>2, <2>1, <4>1 DEF Overdraft
        <5> QED
          BY <1>4, <3>1, <3>3, <5>1
      <4> QED
        BY <1>4, <3>1, <3>2, <3>3, <4>2
    <3>4. CASE ~(j = 1 /\ y = p)
      BY <3>1, <3>2, <3>4
    <3> QED
      BY <3>3, <3>4
  <2> QED
    BY <1>1, <1>3, <1>5, <1>14, <2>1, QueriesAllowed
<1>27. Given'
  <2> SUFFICES ASSUME NEW i \in Id, i >= nextId'
               PROVE  offers'[i] = NoOffer /\ \A k \in DOMAIN results' : i \notin DOMAIN results'[k]
    BY DEF Given
  <2>1. i >= nextId /\ i # id
    BY <1>1, <1>16 DEF Id
  <2> QED
    BY <1>1, <1>3, <1>15, <2>1 DEF Given
<1>28. UpToDate'
  <2> SUFFICES ASSUME "outdated" \notin damage',
                      NEW k \in DOMAIN results', NEW i \in DOMAIN results'[k],
                      offers'[i] # NoOffer
               PROVE  results'[k][i] = offers'[i].amount
    BY DEF UpToDate
  <2>1. i \in Id
    <3>1. k \in 1 .. Len(results) /\ results' = results
      BY <1>1, <1>3, LenProperties DEF MarketTypes
    <3>2. results[k] \in Result
      BY <1>3, <3>1, ElementOfSeq DEF MarketTypes
    <3> QED
      BY <3>1, <3>2 DEF Result
  <2>2. i # id
    <3>1. id >= nextId
      BY <1>16
    <3> QED
      BY <1>1, <1>3, <3>1 DEF Given
  <2> QED
    BY <1>1, <1>3, <1>5, <1>15, <2>1, <2>2 DEF UpToDate
<1>29. GoldKept'
  BY <1>3, <1>5, <1>24, GoldStep
<1>30. WaresKept'
  BY <1>3, <1>5, <1>22 DEF WaresKept
<1> QED
  BY <1>25, <1>26, <1>27, <1>28, <1>29, <1>30 DEF MarketInv

(* One row becomes o: results and identifiers stay as they are.              *)
LEMMA RowsStay ==
  ASSUME MarketTypes, Given, NEW id \in Id, OneRow(id), offers[id] # NoOffer,
         UNCHANGED <<nextId, results>>
  PROVE  Given'
<1> SUFFICES ASSUME NEW i \in Id, i >= nextId'
             PROVE  offers'[i] = NoOffer /\ \A k \in DOMAIN results' : i \notin DOMAIN results'[k]
  BY DEF Given
<1>1. i # id /\ i >= nextId
  BY DEF Given
<1> QED
  BY <1>1 DEF Given, OneRow

(* The rows of a result that waits.                                         *)
LEMMA ResultRows ==
  ASSUME MarketTypes, NEW k \in DOMAIN results
  PROVE  /\ results[k] \in Result
         /\ DOMAIN results[k] \subseteq Id
         /\ \A id \in DOMAIN results[k] : results[k][id] \in Nat \ {0}
<1>1. results[k] \in Result
  BY LenProperties, ElementOfSeq DEF MarketTypes
<1> DEFINE r == results[k]
<1> HIDE DEF r
<1>2. r \in Result => DOMAIN r \subseteq Id /\ \A id \in DOMAIN r : r[id] \in Nat \ {0}
  BY DEF Result
<1> QED
  BY <1>1, <1>2 DEF r

(* An offer is cancelled: all it counts goes back to the owner.              *)
LEMMA CancelKeeps ==
  ASSUME MarketInv, NEW p \in Trader, NEW id \in Id, CancelOffer(p, id)
  PROVE  MarketInv'
<1> DEFINE o == offers[id]
           g == IF o.sale THEN Items(o.ware, o.amount) ELSE Gold(o.price * o.amount)
           gain == Only(p, g)
           x == IF o.sale THEN AddCoins(p, o.ware, o.amount) ELSE <<>>
<1>1. /\ o # NoOffer
      /\ Transfer(gain)
      /\ coinQueries' = coinQueries \o x
      /\ offers' = [offers EXCEPT ![id] = NoOffer]
      /\ UNCHANGED <<inGame, coins, nextId, old, results, damage>>
  BY DEF CancelOffer
<1>2. MarketTypes /\ NeverBelow /\ Given /\ UpToDate /\ GoldKept /\ WaresKept
  BY DEF MarketInv
<1>3. /\ o.sale \in BOOLEAN /\ o.ware \in {"item", "coin"}
      /\ o.amount \in Nat \ {0} /\ o.price \in Nat \ {0}
  BY <1>1, <1>2, OffersAre
<1>4. /\ PaidFor(o) = IF o.sale THEN 0 ELSE o.price * o.amount
      /\ \A w : OnSale(o, w) = IF o.sale /\ o.ware = w THEN o.amount ELSE 0
      /\ PaidFor(NoOffer) = 0 /\ \A w : OnSale(NoOffer, w) = 0
  BY <1>1, <1>3 DEF PaidFor, OnSale
<1>5. offers'[id] = NoOffer /\ OneRow(id)
  BY <1>1, <1>2 DEF MarketTypes, OneRow
<1> HIDE DEF o
<1>6. o.price * o.amount \in Nat
  BY <1>3, ProductInNat
<1>7. /\ g.gold = PaidFor(o) /\ g.items = OnSale(o, "item") /\ g.coinItems = 0
  BY <1>3, <1>4, PursesAre
<1>8. /\ g.gold \in Nat /\ g.items \in Nat /\ g.coinItems \in Nat
      /\ OnSale(o, "coin") \in Nat
  BY <1>3, <1>4, <1>6, <1>7
<1> HIDE DEF g
<1>9. Possible(gain)
  <2>1. Held(p).gold \in Nat /\ Held(p).items \in Nat /\ Held(p).coinItems \in Nat
    BY <1>2, HeldIs
  <2>2. Held(p).gold + g.gold >= 0 /\ Held(p).items + g.items >= 0
        /\ Held(p).coinItems + g.coinItems >= 0
    BY <1>8, <2>1
  <2> QED
    BY <1>2, <1>8, <2>2, OnlyPossible
<1>10. /\ x \in Seq(CoinQuery)
       /\ \A y : \A j \in 0 .. Len(x) : Due(x, y, j) \in Nat
       /\ SumFunctionOnSet(DueOf(x), Trader) = OnSale(o, "coin")
  <2>1. CASE o.sale
    <3>1. x = AddCoins(p, o.ware, o.amount)
      BY <2>1
    <3> HIDE DEF x
    <3>2. /\ x \in Seq(CoinQuery)
          /\ \A y : \A j \in 0 .. Len(x) :
               Due(x, y, j) = IF j = 1 /\ y = p THEN o.amount ELSE 0
          /\ SumFunctionOnSet(DueOf(x), Trader) = IF o.ware = "coin" THEN o.amount ELSE 0
      BY <1>3, <3>1, AddCoinsDue
    <3> QED
      BY <1>3, <1>4, <2>1, <3>2
  <2>2. CASE ~o.sale
    <3>1. x = <<>>
      BY <2>2
    <3> HIDE DEF x
    <3>2. x \in Seq(CoinQuery) /\ Len(x) = 0 /\ (\A y : Due(x, y, 0) = 0)
          /\ SumFunctionOnSet(DueOf(x), Trader) = 0
      BY <3>1, NoQueryDue
    <3> QED
      BY <1>4, <2>2, <3>2
  <2> QED
    BY <2>1, <2>2
<1> HIDE DEF x, gain
<1>11. nextId' \in Int /\ nextId' = nextId
  BY <1>1, <1>2 DEF MarketTypes
<1>12. Moved(gain, id, x)
  BY <1>1, <1>2, <1>5, <1>9, <1>10, <1>11, RowStep
<1>13. /\ SumFunctionOnSet(GoldGain(gain), Trader) = g.gold
       /\ SumFunctionOnSet(ItemGain(gain), Trader) = g.items
       /\ SumFunctionOnSet(CoinItemGain(gain), Trader) = g.coinItems
  BY <1>8, OnlyTotals DEF gain
<1>14. AllGold \in Int /\ AllItems \in Int /\ AllCoins \in Int
  BY <1>2, TotalsAreInt
<1>15. AllGold' = AllGold /\ AllItems' = AllItems /\ AllCoins' = AllCoins
  <2> DEFINE f == Fee * (nextId - 1)
  <2>1. f \in Int
    <3>1. nextId - 1 \in Int /\ Fee \in Int
      BY <1>2, Constants DEF MarketTypes
    <3>2. \A m, n \in Int : m * n \in Int
      OBVIOUS
    <3> QED
      BY <3>1, <3>2
  <2>2. Fee * (nextId' - 1) = f
    BY <1>11
  <2> HIDE DEF f
  <2>3. AllGold' = AllGold + (f - f) + PaidFor(o) - PaidFor(o) + PaidFor(NoOffer)
    BY <1>5, <1>7, <1>12, <1>13, <2>2 DEF Moved, f, o
  <2>4. PaidFor(o) \in Int
    BY <1>7, <1>8
  <2>5. AllGold' = AllGold
    BY <1>4, <1>14, <2>1, <2>3, <2>4
  <2>6. AllItems' = AllItems + OnSale(o, "item") - OnSale(o, "item") + OnSale(NoOffer, "item")
    BY <1>5, <1>7, <1>12, <1>13 DEF Moved, o
  <2>7. AllCoins' = AllCoins + OnSale(o, "coin") + 0 - OnSale(o, "coin") + OnSale(NoOffer, "coin")
    BY <1>5, <1>7, <1>10, <1>12, <1>13 DEF Moved, o
  <2> QED
    BY <1>4, <1>7, <1>8, <1>14, <2>5, <2>6, <2>7
<1>16. MarketTypes'
  BY <1>1, <1>2, <1>5, <1>12 DEF MarketTypes, Moved, OneRow
<1>17. NeverBelow'
  <2>1. ASSUME "overdrawn" \notin damage', NEW y \in Trader, NEW j \in 0 .. Len(x)
        PROVE  Balance(y) + Due(x, y, j) >= 0
    <3>1. Balance(y) >= 0 /\ Balance(y) \in Int
      BY <1>1, <1>2, <2>1, BalanceNat, BalanceInt
    <3> QED
      BY <1>10, <3>1
  <2> QED
    BY <1>1, <1>2, <1>10, <2>1, QueriesAllowed
<1>18. Given'
  BY <1>1, <1>2, <1>5, RowsStay DEF o
<1>19. UpToDate'
  <2> SUFFICES ASSUME "outdated" \notin damage',
                      NEW k \in DOMAIN results', NEW i \in DOMAIN results'[k],
                      offers'[i] # NoOffer
               PROVE  results'[k][i] = offers'[i].amount
    BY DEF UpToDate
  <2>1. i \in Id /\ i # id
    BY <1>1, <1>2, <1>5, ResultRows
  <2> QED
    BY <1>1, <1>2, <1>5, <2>1 DEF UpToDate, OneRow
<1>20. GoldKept'
  BY <1>1, <1>2, <1>15 DEF GoldKept
<1>21. WaresKept'
  BY <1>1, <1>2, <1>15 DEF WaresKept
<1> QED
  BY <1>16, <1>17, <1>18, <1>19, <1>20, <1>21 DEF MarketInv

(* Updates of two calls add what each adds.                                 *)
LEMMA ConcatTotal ==
  ASSUME NEW x \in Seq(CoinQuery), NEW y \in Seq(CoinQuery)
  PROVE  SumFunctionOnSet(DueOf(x \o y), Trader) =
           SumFunctionOnSet(DueOf(x), Trader) + SumFunctionOnSet(DueOf(y), Trader)
<1>1. ASSUME NEW p \in Trader PROVE DueOf(x \o y)[p] = DueOf(x)[p] + DueOf(y)[p]
  <2>1. Len(x \o y) = Len(x) + Len(y) /\ Len(y) \in 0 .. Len(y)
    BY ConcatProperties, LenProperties
  <2>2. \A j \in 0 .. Len(y) : Due(x \o y, p, Len(x) + j) = Due(x, p, Len(x)) + Due(y, p, j)
    BY DueConcat
  <2>3. Due(x \o y, p, Len(x) + Len(y)) = Due(x, p, Len(x)) + Due(y, p, Len(y))
    BY <2>1, <2>2
  <2> QED
    BY <2>1, <2>3 DEF DueOf
<1>2. \A p \in Trader : DueOf(x)[p] \in Int /\ DueOf(y)[p] \in Int
  BY DueOfInt
<1> DEFINE f == DueOf(x)
           g == DueOf(y)
           h == DueOf(x \o y)
<1> HIDE DEF f, g, h
<1>3. \A p \in Trader : f[p] \in Int /\ g[p] \in Int /\ h[p] = f[p] + g[p]
  BY <1>1, <1>2 DEF f, g, h
<1>4. SumFunctionOnSet(h, Trader) = SumFunctionOnSet(f, Trader) + SumFunctionOnSet(g, Trader)
  BY <1>3, Constants, SumPlus
<1> QED
  BY <1>4 DEF f, g, h

(* Two players exchange.                                                     *)
Exchange(gain, a, b) ==
  /\ gain[a].gold \in Int /\ gain[a].items \in Int /\ gain[a].coinItems \in Int
  /\ gain[b].gold \in Int /\ gain[b].items \in Int /\ gain[b].coinItems \in Int
  /\ \A y \in Trader \ {a, b} : gain[y] = Empty

(* The totals of an exchange are those of the two players.                  *)
LEMMA ExchangeTotals ==
  ASSUME NEW gain, NEW a \in Trader, NEW b \in Trader, a # b, Exchange(gain, a, b)
  PROVE  /\ SumFunctionOnSet(GoldGain(gain), Trader) = gain[a].gold + gain[b].gold
         /\ SumFunctionOnSet(ItemGain(gain), Trader) = gain[a].items + gain[b].items
         /\ SumFunctionOnSet(CoinItemGain(gain), Trader) = gain[a].coinItems + gain[b].coinItems
<1> DEFINE g == GoldGain(gain)
           i == ItemGain(gain)
           c == CoinItemGain(gain)
<1>1. /\ \A y \in Trader \ {a, b} : g[y] = 0
      /\ \A y \in Trader \ {a, b} : i[y] = 0
      /\ \A y \in Trader \ {a, b} : c[y] = 0
  BY PursesAre DEF Exchange, GoldGain, ItemGain, CoinItemGain
<1>2. /\ g[a] = gain[a].gold /\ g[b] = gain[b].gold
      /\ i[a] = gain[a].items /\ i[b] = gain[b].items
      /\ c[a] = gain[a].coinItems /\ c[b] = gain[b].coinItems
  BY DEF GoldGain, ItemGain, CoinItemGain
<1>3. /\ g[a] \in Int /\ g[b] \in Int /\ i[a] \in Int /\ i[b] \in Int
      /\ c[a] \in Int /\ c[b] \in Int
  BY <1>2 DEF Exchange
<1> HIDE DEF g, i, c
<1>4. SumFunctionOnSet(g, Trader) = g[a] + g[b]
  BY <1>1, <1>3, Constants, SumTwo
<1>5. SumFunctionOnSet(i, Trader) = i[a] + i[b]
  BY <1>1, <1>3, Constants, SumTwo
<1>6. SumFunctionOnSet(c, Trader) = c[a] + c[b]
  BY <1>1, <1>3, Constants, SumTwo
<1> QED
  BY <1>2, <1>4, <1>5, <1>6 DEF g, i, c

(* An exchange in which both have enough.                                   *)
LEMMA ExchangePossible ==
  ASSUME MarketTypes, NEW gain, NEW a \in Trader, NEW b \in Trader, Exchange(gain, a, b),
         Held(a).gold + gain[a].gold >= 0, Held(a).items + gain[a].items >= 0,
         Held(a).coinItems + gain[a].coinItems >= 0,
         Held(b).gold + gain[b].gold >= 0, Held(b).items + gain[b].items >= 0,
         Held(b).coinItems + gain[b].coinItems >= 0
  PROVE  Possible(gain)
<1> SUFFICES ASSUME NEW y \in Trader
    PROVE  /\ gain[y].gold \in Int
           /\ gain[y].items \in Int
           /\ gain[y].coinItems \in Int
           /\ Held(y).gold + gain[y].gold >= 0
           /\ Held(y).items + gain[y].items >= 0
           /\ Held(y).coinItems + gain[y].coinItems >= 0
  BY DEF Possible
<1>1. CASE y \in {a, b}
  BY <1>1 DEF Exchange
<1>2. CASE y \notin {a, b}
  <2>1. gain[y] = Empty
    BY <1>2 DEF Exchange
  <2>2. Held(y).gold \in Nat /\ Held(y).items \in Nat /\ Held(y).coinItems \in Nat
    BY HeldIs
  <2> QED
    BY <2>1, <2>2, PursesAre
<1> QED
  BY <1>1, <1>2

(* An offer is accepted: what its row counts less is what was exchanged, but *)
(* for what an overflow leaves out.                                          *)
LEMMA AcceptKeeps ==
  ASSUME MarketInv, NEW p \in Trader, NEW id \in Id,
         NEW amount \in {d.amount : d \in Deal} \cup {1}, AcceptOffer(p, id, amount)
  PROVE  MarketInv'
<1> DEFINE o == offers[id]
           s == o.owner
           total == Times32(o.price, amount)
           gain == [y \in Trader |->
             CASE y = p /\ o.sale -> Add(Gold(-total), Items(o.ware, amount))
               [] y = p /\ ~o.sale -> Add(Gold(total), Items(o.ware, -amount))
               [] y = o.owner /\ o.sale -> Gold(total)
               [] y = o.owner /\ ~o.sale -> Items(o.ware, amount)
               [] OTHER -> Empty]
           x == IF o.sale THEN AddCoins(p, o.ware, amount)
                ELSE AddCoins(p, o.ware, -amount) \o AddCoins(o.owner, o.ware, amount)
           r == IF amount = o.amount THEN NoOffer ELSE [o EXCEPT !.amount = o.amount - amount]
<1>1. /\ p \in inGame
      /\ o # NoOffer
      /\ amount <= o.amount
      /\ p # s
      /\ IF o.sale THEN Affords(p, total) ELSE Owns(p, o.ware, amount)
      /\ coinQueries' = coinQueries \o x
      /\ UNCHANGED <<inGame, coins, nextId, old, results>>
  BY DEF AcceptOffer
<1>2. Transfer(gain) /\ offers' = [offers EXCEPT ![id] = r]
  BY DEF AcceptOffer
<1>3. damage' = damage
           \cup (IF amount < o.amount /\ \E k \in DOMAIN results : id \in DOMAIN results[k]
                 THEN {"outdated"} ELSE {})
           \cup (IF o.price * amount >= Width THEN {"overflow"} ELSE {})
           \cup (IF o.sale THEN {} ELSE Overdraft(p, o.ware, amount))
  BY DEF AcceptOffer
<1>4. MarketTypes /\ NeverBelow /\ Given /\ UpToDate /\ GoldKept /\ WaresKept
  BY DEF MarketInv
<1>5. damage \subseteq damage' /\ damage' \subseteq Damages
  BY <1>3, <1>4 DEF MarketTypes, Damages, Overdraft
<1>6. amount \in Nat \ {0}
  BY DealIs
<1>7. /\ o \in Offer /\ s \in Trader /\ o.sale \in BOOLEAN /\ o.ware \in {"item", "coin"}
      /\ o.amount \in Nat \ {0} /\ o.price \in Nat \ {0}
  BY <1>1, <1>4, OffersAre
<1> HIDE DEF o
<1>8. r \in Offer \cup {NoOffer}
  <2>1. CASE amount = o.amount
    BY <2>1
  <2>2. CASE amount # o.amount
    <3>1. o.amount - amount \in Nat \ {0}
      BY <1>1, <1>6, <1>7, <2>2
    <3>2. [o EXCEPT !.amount = o.amount - amount] \in Offer
      BY <1>7, <3>1 DEF Offer
    <3> QED
      BY <2>2, <3>2
  <2> QED
    BY <2>1, <2>2
<1>9. r # NoOffer => /\ r.sale = o.sale /\ r.ware = o.ware /\ r.price = o.price
                     /\ r.amount = o.amount - amount
  BY <1>7 DEF Offer
<1>10. r = NoOffer <=> amount = o.amount
  <2>1. ASSUME amount # o.amount PROVE r # NoOffer
    <3>1. o.amount - amount \in Nat \ {0}
      BY <1>1, <1>6, <1>7, <2>1
    <3>2. [o EXCEPT !.amount = o.amount - amount] \in Offer
      BY <1>7, <3>1 DEF Offer
    <3> QED
      BY <2>1, <3>2, Constants
  <2> QED
    BY <2>1
<1>11. offers'[id] = r /\ OneRow(id)
  <2> HIDE DEF r
  <2> QED
    BY <1>2, <1>4, <1>8 DEF MarketTypes, OneRow
<1>12. /\ PaidFor(o) = IF o.sale THEN 0 ELSE o.price * o.amount
       /\ \A w : OnSale(o, w) = IF o.sale /\ o.ware = w THEN o.amount ELSE 0
  BY <1>1, <1>7 DEF PaidFor, OnSale
<1>13. o.price * o.amount \in Nat /\ o.price * amount \in Nat
  BY <1>6, <1>7, ProductInNat
<1>14. PaidFor(r) = PaidFor(o) - IF o.sale THEN 0 ELSE o.price * amount
  <2>1. CASE r = NoOffer
    <3>1. PaidFor(r) = 0 /\ amount = o.amount
      BY <1>10, <2>1 DEF PaidFor
    <3> HIDE DEF r
    <3> QED
      BY <1>12, <1>13, <3>1
  <2>2. CASE r # NoOffer
    <3> HIDE DEF r
    <3>1. PaidFor(r) = IF o.sale THEN 0 ELSE o.price * (o.amount - amount)
      BY <1>9, <2>2 DEF PaidFor
    <3>2. o.price * (o.amount - amount) = o.price * o.amount - o.price * amount
      BY <1>6, <1>7
    <3> QED
      BY <1>12, <1>13, <3>1, <3>2
  <2> QED
    BY <2>1, <2>2
<1>15. \A w : OnSale(r, w) = OnSale(o, w) - IF o.sale /\ o.ware = w THEN amount ELSE 0
  <2>1. CASE r = NoOffer
    <3>1. (\A w : OnSale(r, w) = 0) /\ amount = o.amount
      BY <1>10, <2>1 DEF OnSale
    <3> HIDE DEF r
    <3> QED
      BY <1>6, <1>12, <3>1
  <2>2. CASE r # NoOffer
    <3> HIDE DEF r
    <3>1. \A w : OnSale(r, w) = IF o.sale /\ o.ware = w THEN o.amount - amount ELSE 0
      BY <1>9, <2>2 DEF OnSale
    <3> QED
      BY <1>6, <1>7, <1>12, <3>1
  <2> QED
    BY <2>1, <2>2
<1> HIDE DEF r
<1>16. /\ total \in Nat
       /\ \E k \in Int : total = o.price * amount + k * Width
       /\ o.price * amount < Width => total = o.price * amount
  BY <1>6, <1>7, Times32Is
<1> HIDE DEF total
<1> DEFINE n == IF o.ware = "item" THEN amount ELSE 0
<1>17. /\ gain[p] = IF o.sale THEN Add(Gold(-total), Items(o.ware, amount))
                    ELSE Add(Gold(total), Items(o.ware, -amount))
       /\ gain[s] = IF o.sale THEN Gold(total) ELSE Items(o.ware, amount)
       /\ \A y \in Trader \ {p, s} : gain[y] = Empty
  BY <1>1, <1>7
<1> HIDE DEF gain
<1>18. /\ gain[p].gold = IF o.sale THEN -total ELSE total
       /\ gain[p].items = IF o.sale THEN n ELSE -n
       /\ gain[p].coinItems = 0
  <2>1. CASE o.sale
    <3>1. gain[p].gold = -total + 0 /\ gain[p].items = 0 + n /\ gain[p].coinItems = 0 + 0
      BY <1>17, <2>1, PursesAre
    <3> QED
      BY <1>6, <1>16, <2>1, <3>1
  <2>2. CASE ~o.sale
    <3>1. /\ gain[p].gold = total + 0
          /\ gain[p].items = 0 + IF o.ware = "item" THEN -amount ELSE 0
          /\ gain[p].coinItems = 0 + 0
      BY <1>17, <2>2, PursesAre
    <3> QED
      BY <1>6, <1>16, <2>2, <3>1
  <2> QED
    BY <1>7, <2>1, <2>2
<1>19. /\ gain[s].gold = IF o.sale THEN total ELSE 0
       /\ gain[s].items = IF o.sale THEN 0 ELSE n
       /\ gain[s].coinItems = 0
  BY <1>7, <1>17, PursesAre
<1>20. n \in Nat
  BY <1>6
<1>21. Exchange(gain, p, s)
  BY <1>16, <1>17, <1>18, <1>19, <1>20 DEF Exchange
<1>22. Possible(gain)
  <2>1. /\ Held(p).gold \in Nat /\ Held(p).items \in Nat /\ Held(p).coinItems \in Nat
        /\ Held(s).gold \in Nat /\ Held(s).items \in Nat /\ Held(s).coinItems \in Nat
    BY <1>4, <1>7, HeldIs
  <2>2. o.sale => total <= Held(p).gold
    BY <1>1 DEF Affords, Held
  <2>3. ~o.sale => n <= Held(p).items
    BY <1>1, <2>1 DEF Owns
  <2> HIDE DEF n
  <2>4. /\ Held(p).gold + gain[p].gold >= 0 /\ Held(p).items + gain[p].items >= 0
        /\ Held(p).coinItems + gain[p].coinItems >= 0
    BY <1>7, <1>16, <1>18, <1>20, <2>1, <2>2, <2>3
  <2>5. /\ Held(s).gold + gain[s].gold >= 0 /\ Held(s).items + gain[s].items >= 0
        /\ Held(s).coinItems + gain[s].coinItems >= 0
    BY <1>7, <1>16, <1>19, <1>20, <2>1
  <2> QED
    BY <1>4, <1>7, <1>21, <2>4, <2>5, ExchangePossible
<1>23. /\ SumFunctionOnSet(GoldGain(gain), Trader) = IF o.sale THEN 0 ELSE total
       /\ SumFunctionOnSet(ItemGain(gain), Trader) = IF o.sale THEN n ELSE 0
       /\ SumFunctionOnSet(CoinItemGain(gain), Trader) = 0
  <2>1. /\ SumFunctionOnSet(GoldGain(gain), Trader) = gain[p].gold + gain[s].gold
        /\ SumFunctionOnSet(ItemGain(gain), Trader) = gain[p].items + gain[s].items
        /\ SumFunctionOnSet(CoinItemGain(gain), Trader) = gain[p].coinItems + gain[s].coinItems
    BY <1>1, <1>7, <1>21, ExchangeTotals
  <2> HIDE DEF n
  <2> QED
    BY <1>16, <1>18, <1>19, <1>20, <2>1
<1>24. /\ x \in Seq(CoinQuery)
       /\ \A y : \A j \in 0 .. Len(x) :
            /\ Due(x, y, j) \in Int
            /\ Due(x, y, j) >= IF ~o.sale /\ o.ware = "coin" /\ y = p THEN -amount ELSE 0
       /\ SumFunctionOnSet(DueOf(x), Trader) =
            IF o.sale /\ o.ware = "coin" THEN amount ELSE 0
  <2>1. CASE o.sale
    <3>1. x = AddCoins(p, o.ware, amount)
      BY <2>1
    <3> HIDE DEF x
    <3>2. /\ x \in Seq(CoinQuery)
          /\ \A y : \A j \in 0 .. Len(x) :
               Due(x, y, j) = IF j = 1 /\ y = p THEN amount ELSE 0
          /\ SumFunctionOnSet(DueOf(x), Trader) = IF o.ware = "coin" THEN amount ELSE 0
      BY <1>6, <3>1, AddCoinsDue
    <3> QED
      BY <1>6, <2>1, <3>2
  <2>2. CASE ~o.sale
    <3> DEFINE a == AddCoins(p, o.ware, -amount)
               b == AddCoins(s, o.ware, amount)
    <3>1. x = a \o b
      BY <2>2
    <3>2. /\ -amount \in Int /\ amount \in Int
          /\ a = AddCoins(p, o.ware, -amount) /\ b = AddCoins(s, o.ware, amount)
      BY <1>6
    <3> HIDE DEF a, b, s
    <3>3. s \in Trader
      BY <1>7
    <3>4. /\ a \in Seq(CoinQuery) /\ Len(a) = IF o.ware = "coin" THEN 1 ELSE 0
          /\ \A y : \A j \in 0 .. Len(a) : Due(a, y, j) = IF j = 1 /\ y = p THEN -amount ELSE 0
          /\ SumFunctionOnSet(DueOf(a), Trader) = IF o.ware = "coin" THEN -amount ELSE 0
      <4>1. Adds(a, p, o.ware, -amount)
        BY <3>2, AddCoinsAdds
      <4> QED
        BY <4>1 DEF Adds
    <3>5. /\ b \in Seq(CoinQuery) /\ Len(b) = IF o.ware = "coin" THEN 1 ELSE 0
          /\ \A y : \A j \in 0 .. Len(b) : Due(b, y, j) = IF j = 1 /\ y = s THEN amount ELSE 0
          /\ SumFunctionOnSet(DueOf(b), Trader) = IF o.ware = "coin" THEN amount ELSE 0
      <4>1. Adds(b, s, o.ware, amount)
        BY <3>3, <3>2, AddCoinsAdds
      <4> QED
        BY <4>1 DEF Adds
    <3> HIDE DEF a, b, x, s
    <3>6. x \in Seq(CoinQuery) /\ Len(x) = Len(a) + Len(b)
      BY <3>1, <3>4, <3>5, ConcatProperties
    <3>7. SumFunctionOnSet(DueOf(x), Trader) =
            SumFunctionOnSet(DueOf(a), Trader) + SumFunctionOnSet(DueOf(b), Trader)
      BY <3>1, <3>4, <3>5, ConcatTotal
    <3>8. ASSUME NEW y, NEW j \in 0 .. Len(x)
          PROVE  /\ Due(x, y, j) \in Int
                 /\ Due(x, y, j) >= IF o.ware = "coin" /\ y = p THEN -amount ELSE 0
      <4>1. Due(x, y, j) \in Int
        BY <3>6, DueInt
      <4>2. \A i \in 0 .. Len(a) : Due(x, y, i) = Due(a, y, i)
        BY <3>1, <3>4, <3>5, DueConcat
      <4>3. \A i \in 0 .. Len(b) : Due(x, y, Len(a) + i) = Due(a, y, Len(a)) + Due(b, y, i)
        BY <3>1, <3>4, <3>5, DueConcat
      <4>4. CASE o.ware = "coin"
        <5>1. Len(a) = 1 /\ Len(b) = 1 /\ j \in {0, 1, 2}
          BY <3>4, <3>5, <3>6, <4>4
        <5>2. Due(a, y, 0) = 0 /\ Due(a, y, 1) = IF y = p THEN -amount ELSE 0
          <6>1. \A i \in 0 .. 1 : Due(a, y, i) = IF i = 1 /\ y = p THEN -amount ELSE 0
            BY <3>4, <5>1
          <6> QED
            BY <6>1
        <5>3. Due(b, y, 1) = IF y = s THEN amount ELSE 0
          <6>1. \A i \in 0 .. 1 : Due(b, y, i) = IF i = 1 /\ y = s THEN amount ELSE 0
            BY <3>5, <5>1
          <6> QED
            BY <6>1
        <5>4. Due(x, y, 0) = Due(a, y, 0) /\ Due(x, y, 1) = Due(a, y, 1)
          BY <4>2, <5>1
        <5>5. Due(x, y, 2) = Due(a, y, 1) + Due(b, y, 1)
          BY <4>3, <5>1
        <5> QED
          BY <1>6, <4>1, <4>4, <5>1, <5>2, <5>3, <5>4, <5>5
      <4>5. CASE o.ware # "coin"
        <5>1. Len(a) = 0 /\ j = 0
          BY <3>4, <3>5, <3>6, <4>5
        <5>2. Due(x, y, 0) = 0
          BY DueNone
        <5> QED
          BY <4>1, <4>5, <5>1, <5>2
      <4> QED
        BY <4>4, <4>5
    <3>9. SumFunctionOnSet(DueOf(x), Trader) = 0
      BY <1>6, <3>4, <3>5, <3>7
    <3> QED
      BY <2>2, <3>6, <3>8, <3>9
  <2> QED
    BY <1>7, <2>1, <2>2
<1> HIDE DEF x, s
<1>25. nextId' \in Int /\ nextId' = nextId
  BY <1>1, <1>4 DEF MarketTypes
<1>26. Moved(gain, id, x)
  BY <1>1, <1>2, <1>4, <1>11, <1>22, <1>24, <1>25, RowStep
<1>27. AllGold \in Int /\ AllItems \in Int /\ AllCoins \in Int
  BY <1>4, TotalsAreInt
<1>28. PaidFor(o) \in Int /\ OnSale(o, "item") \in Int /\ OnSale(o, "coin") \in Int
  BY <1>7, OfferCounts
<1>29. AllGold' = AllGold + IF o.sale THEN 0 ELSE total - o.price * amount
  <2> DEFINE f == Fee * (nextId - 1)
  <2>1. f \in Int
    <3>1. nextId - 1 \in Int /\ Fee \in Int
      BY <1>4, Constants DEF MarketTypes
    <3>2. \A l, m \in Int : l * m \in Int
      OBVIOUS
    <3> QED
      BY <3>1, <3>2
  <2>2. Fee * (nextId' - 1) = f
    BY <1>25
  <2> HIDE DEF f
  <2>3. AllGold' = AllGold + (f - f) + (IF o.sale THEN 0 ELSE total) - PaidFor(o) + PaidFor(r)
    BY <1>11, <1>23, <1>26, <2>2 DEF Moved, f, o
  <2> QED
    BY <1>13, <1>14, <1>16, <1>27, <1>28, <2>1, <2>3
<1>30. AllItems' = AllItems /\ AllCoins' = AllCoins
  <2>1. AllItems' = AllItems + (IF o.sale THEN n ELSE 0) - OnSale(o, "item") + OnSale(r, "item")
    BY <1>11, <1>23, <1>26 DEF Moved, o
  <2>2. AllCoins' = AllCoins + (IF o.sale /\ o.ware = "coin" THEN amount ELSE 0) + 0
                      - OnSale(o, "coin") + OnSale(r, "coin")
    BY <1>11, <1>23, <1>24, <1>26 DEF Moved, o
  <2>3. /\ OnSale(r, "item") = OnSale(o, "item") - IF o.sale /\ o.ware = "item" THEN amount ELSE 0
        /\ OnSale(r, "coin") = OnSale(o, "coin") - IF o.sale /\ o.ware = "coin" THEN amount ELSE 0
    BY <1>15
  <2> QED
    BY <1>6, <1>27, <1>28, <2>1, <2>2, <2>3
<1>31. \E k \in Int : /\ AllGold' = AllGold + k * Width
                      /\ "overflow" \notin damage' => k = 0
  <2> DEFINE w == o.price * amount
  <2>1. w \in Nat /\ (\E k \in Int : total = w + k * Width) /\ (w < Width => total = w)
    BY <1>13, <1>16
  <2>2. w >= Width => "overflow" \in damage'
    BY <1>3
  <2>3. AllGold' = AllGold + IF o.sale THEN 0 ELSE total - w
    BY <1>29
  <2> HIDE DEF w
  <2>4. CASE o.sale \/ w < Width
    <3>1. AllGold' = AllGold + 0 * Width
      BY <1>16, <1>27, <2>1, <2>3, <2>4, Constants
    <3> QED
      BY <3>1
  <2>5. CASE ~o.sale /\ w >= Width
    <3>1. PICK k \in Int : total = w + k * Width
      BY <2>1
    <3>2. AllGold' = AllGold + k * Width
      <4>1. k * Width \in Int
        BY Constants
      <4> QED
        BY <1>16, <1>27, <2>1, <2>3, <2>5, <3>1, <4>1
    <3> QED
      BY <2>2, <2>5, <3>2
  <2> QED
    BY <2>1, <2>4, <2>5, Constants
<1>32. MarketTypes'
  BY <1>1, <1>4, <1>5, <1>11, <1>26 DEF MarketTypes, Moved, OneRow
<1>33. NeverBelow'
  <2>1. ASSUME "overdrawn" \notin damage', NEW y \in Trader, NEW j \in 0 .. Len(x)
        PROVE  Balance(y) + Due(x, y, j) >= 0
    <3>1. Balance(y) >= 0 /\ Balance(y) \in Int
      BY <1>4, <1>5, <2>1, BalanceNat, BalanceInt
    <3>2. /\ Due(x, y, j) \in Int
          /\ Due(x, y, j) >= IF ~o.sale /\ o.ware = "coin" /\ y = p THEN -amount ELSE 0
      BY <1>24
    <3>3. CASE ~o.sale /\ o.ware = "coin" /\ y = p
      <4>1. amount <= Balance(p)
        <5>1. ~(amount > Balance(p))
          BY <1>3, <2>1, <3>3 DEF Overdraft
        <5> QED
          BY <1>6, <3>1, <3>3, <5>1
      <4> QED
        BY <1>6, <3>1, <3>2, <3>3, <4>1
    <3>4. CASE ~(~o.sale /\ o.ware = "coin" /\ y = p)
      BY <3>1, <3>2, <3>4
    <3> QED
      BY <3>3, <3>4
  <2> QED
    BY <1>1, <1>4, <1>5, <1>24, <2>1, QueriesAllowed
<1>34. Given'
  BY <1>1, <1>4, <1>11, RowsStay DEF o
<1>35. UpToDate'
  <2> SUFFICES ASSUME "outdated" \notin damage',
                      NEW k \in DOMAIN results', NEW i \in DOMAIN results'[k],
                      offers'[i] # NoOffer
               PROVE  results'[k][i] = offers'[i].amount
    BY DEF UpToDate
  <2>1. i \in Id
    BY <1>1, <1>4, ResultRows
  <2>2. i # id
    <3>1. ASSUME i = id PROVE FALSE
      <4>1. amount # o.amount
        BY <1>10, <1>11, <3>1
      <4>2. amount < o.amount
        BY <1>1, <1>6, <1>7, <4>1
      <4> QED
        BY <1>1, <1>3, <3>1, <4>2
    <3> QED
      BY <3>1
  <2> QED
    BY <1>1, <1>4, <1>5, <1>11, <2>1, <2>2 DEF UpToDate, OneRow
<1>36. GoldKept'
  BY <1>4, <1>5, <1>31, GoldStep
<1>37. WaresKept'
  BY <1>4, <1>5, <1>30 DEF WaresKept
<1> QED
  BY <1>32, <1>33, <1>34, <1>35, <1>36, <1>37 DEF MarketInv

-----------------------------------------------------------------------------
(* The rows in R are closed, and the value of each goes to its owner.        *)
PaysOut(f, value, valueLater, R, owner, h) ==
  /\ \A id \in Id : value[id] \in Int
  /\ \A id \in Id : valueLater[id] = IF id \in R THEN 0 ELSE value[id]
  /\ \A id \in R : f[id] = value[id] /\ owner[id] \in Trader
  /\ \A p \in Trader : h[p] = SumFunctionOnSet(f, {id \in R : owner[id] = p})

(* What the rows lose is what their owners are paid.                        *)
LEMMA Payout ==
  ASSUME NEW f, NEW value, NEW valueLater, NEW R \in SUBSET Id, NEW owner, NEW h,
         PaysOut(f, value, valueLater, R, owner, h)
  PROVE  SumFunctionOnSet(valueLater, Id) =
           SumFunctionOnSet(value, Id) - SumFunctionOnSet(h, Trader)
<1> DEFINE g == [id \in Id |-> IF id \in R THEN value[id] ELSE 0]
<1>1. IsFiniteSet(R) /\ IsFiniteSet(Id) /\ IsFiniteSet(Trader)
  BY Constants, FS_Subset
<1>2. \A id \in R : f[id] \in Int /\ owner[id] \in Trader
  BY DEF PaysOut
<1>3. \A p \in Trader : h[p] = SumFunctionOnSet(f, {id \in R : owner[id] = p})
  BY DEF PaysOut
<1>4. SumFunctionOnSet(h, Trader) = SumFunctionOnSet(f, R)
  <2>1. ByOwner(f, h, owner, R, Trader)
    BY <1>2, <1>3 DEF ByOwner
  <2> QED
    BY <1>1, <2>1, SumByOwner
<1>5. /\ \A id \in R : g[id] \in Int /\ g[id] = f[id]
      /\ \A id \in Id \ R : g[id] = 0
  BY DEF PaysOut
<1>6. \A id \in Id : /\ valueLater[id] \in Int /\ g[id] \in Int /\ value[id] \in Int
                     /\ value[id] = valueLater[id] + g[id]
  BY DEF PaysOut
<1> HIDE DEF g
<1>7. SumFunctionOnSet(g, Id) = SumFunctionOnSet(f, R)
  BY <1>1, <1>5, SumFilter
<1>8. SumFunctionOnSet(value, Id) =
        SumFunctionOnSet(valueLater, Id) + SumFunctionOnSet(g, Id)
  BY <1>1, <1>6, SumPlus
<1>9. SumFunctionOnSet(valueLater, Id) \in Int /\ SumFunctionOnSet(g, Id) \in Int
  BY <1>1, <1>6, SumInt
<1> QED
  BY <1>4, <1>7, <1>8, <1>9

(* A result moves up when the one before is taken.                          *)
LEMMA TailResults ==
  ASSUME MarketTypes, results # <<>>, NEW k \in DOMAIN Tail(results)
  PROVE  k + 1 \in DOMAIN results /\ Tail(results)[k] = results[k + 1]
<1>1. /\ results \in Seq(Result) /\ Tail(results) \in Seq(Result)
      /\ Len(Tail(results)) = Len(results) - 1 /\ Len(results) \in Nat
      /\ \A i \in 1 .. Len(Tail(results)) : Tail(results)[i] = results[i + 1]
  BY HeadTailProperties, LenProperties DEF MarketTypes
<1>2. k \in 1 .. Len(Tail(results)) /\ DOMAIN results = 1 .. Len(results)
  BY <1>1, LenProperties
<1> QED
  BY <1>1, <1>2

(* Coins stay where they are.                                                *)
LEMMA BalancesStay ==
  ASSUME MarketTypes, UNCHANGED <<coins, coinQueries>>
  PROVE  SumFunctionOnSet(Balances', Trader) = SumFunctionOnSet(Balances, Trader)
<1>1. coinQueries' = coinQueries \o <<>>
  BY ConcatEmptySeq DEF MarketTypes
<1>2. SumFunctionOnSet(Balances', Trader) = SumFunctionOnSet(Balances, Trader) + 0
  BY <1>1, NoQueryDue, QueriesTotal
<1> QED
  BY <1>2, SumsAreInt

(* The rows of a result are settled.                                         *)
LEMMA ProcessKeeps ==
  ASSUME MarketInv, ProcessExpiredOffers
  PROVE  MarketInv'
<1> DEFINE amount == Head(results)
           rows == Expired(amount)
           Of(p, sale, ware) == {id \in rows : /\ offers[id].owner = p
                                               /\ offers[id].sale = sale
                                               /\ offers[id].ware \in ware}
<1>1. PICK lost \in SUBSET (Trader \ inGame) :
        /\ Transfer([p \in Trader |->
             [gold |-> SumFunction([id \in Of(p, FALSE, {"item", "coin"}) |->
                                      offers[id].price * amount[id]]),
              items |-> IF p \in lost THEN 0
                        ELSE SumFunction([id \in Of(p, TRUE, {"item"}) |-> amount[id]]),
              coinItems |-> IF p \in lost THEN 0
                        ELSE SumFunction([id \in Of(p, TRUE, {"coin"}) |-> amount[id]])]])
        /\ damage' = damage \cup
                IF \E p \in lost : Of(p, TRUE, {"item", "coin"}) # {}
                THEN {"lost"} ELSE {}
        /\ offers' = [id \in Id |-> IF id \in rows THEN NoOffer ELSE offers[id]]
  BY DEF ProcessExpiredOffers
<1>2. /\ results # <<>>
      /\ results' = Tail(results)
      /\ UNCHANGED <<inGame, coins, coinQueries, nextId, old>>
  BY DEF ProcessExpiredOffers
<1>3. MarketTypes /\ NeverBelow /\ Given /\ UpToDate /\ GoldKept /\ WaresKept
  BY DEF MarketInv
<1>4. /\ 1 \in DOMAIN results /\ amount = results[1]
      /\ results' \in Seq(Result) /\ Len(results') = Len(results) - 1 /\ Len(results) \in Nat
  BY <1>2, <1>3, HeadTailProperties, LenProperties DEF MarketTypes
<1>5. DOMAIN amount \subseteq Id /\ \A id \in DOMAIN amount : amount[id] \in Nat \ {0}
  BY <1>3, <1>4, ResultRows
<1>6. /\ rows \subseteq Id
      /\ \A id \in rows : id \in DOMAIN amount /\ offers[id] # NoOffer
  BY <1>5 DEF Expired
<1>7. \A id \in rows : /\ offers[id].owner \in Trader
                       /\ offers[id].sale \in BOOLEAN
                       /\ offers[id].ware \in {"item", "coin"}
                       /\ offers[id].amount \in Nat \ {0}
                       /\ offers[id].price \in Nat \ {0}
                       /\ amount[id] \in Nat \ {0}
  BY <1>3, <1>5, <1>6, OffersAre
<1>8. "outdated" \notin damage => \A id \in rows : amount[id] = offers[id].amount
  BY <1>3, <1>4, <1>6 DEF UpToDate
<1> HIDE DEF amount
<1> DEFINE owner == [id \in Id |-> offers[id].owner]
           paid == [id \in Id |-> offers[id].price * amount[id]]
           bids == {id \in rows : ~offers[id].sale}
           asks(w) == {id \in rows : offers[id].sale /\ offers[id].ware = w}
           gold(p) == SumFunctionOnSet(paid, {id \in bids : owner[id] = p})
           sold(p, w) == IF p \in lost THEN 0
                         ELSE SumFunctionOnSet(amount, {id \in asks(w) : owner[id] = p})
           gain == [p \in Trader |-> [gold |-> gold(p), items |-> sold(p, "item"),
                                      coinItems |-> sold(p, "coin")]]
<1>9. ASSUME NEW p \in Trader
      PROVE  /\ Of(p, FALSE, {"item", "coin"}) = {id \in bids : owner[id] = p}
             /\ \A w : Of(p, TRUE, {w}) = {id \in asks(w) : owner[id] = p}
  BY <1>6, <1>7
<1>10. \A p : /\ IsFiniteSet({id \in bids : owner[id] = p})
              /\ \A w : IsFiniteSet({id \in asks(w) : owner[id] = p})
  <2>1. \A T \in SUBSET Id : IsFiniteSet(T)
    BY Constants, FS_Subset
  <2> QED
    BY <1>6, <2>1
<1>11. ASSUME NEW p \in Trader
       PROVE  SumFunction([id \in Of(p, FALSE, {"item", "coin"}) |->
                             offers[id].price * amount[id]]) = gold(p)
  <2> DEFINE T == {id \in bids : owner[id] = p}
             f == [id \in T |-> offers[id].price * amount[id]]
  <2>1. Of(p, FALSE, {"item", "coin"}) = T
    BY <1>9
  <2>2. \A id \in T : f[id] = paid[id]
    BY <1>6
  <2>3. DOMAIN f = T /\ IsFiniteSet(T)
    BY <1>10
  <2> HIDE DEF T, Of, paid
  <2>4. SumFunction(f) = SumFunctionOnSet(f, T)
    BY <2>3 DEF SumFunction
  <2> HIDE DEF f
  <2>5. SumFunctionOnSet(f, T) = SumFunctionOnSet(paid, T)
    BY <2>2, <2>3, SumSame
  <2> QED
    BY <2>1, <2>4, <2>5 DEF T, f
<1>12. ASSUME NEW p \in Trader, NEW w
       PROVE  SumFunction([id \in Of(p, TRUE, {w}) |-> amount[id]]) =
                SumFunctionOnSet(amount, {id \in asks(w) : owner[id] = p})
  <2> DEFINE T == {id \in asks(w) : owner[id] = p}
             f == [id \in T |-> amount[id]]
  <2>1. Of(p, TRUE, {w}) = T
    BY <1>9
  <2>2. \A id \in T : f[id] = amount[id]
    OBVIOUS
  <2>3. DOMAIN f = T /\ IsFiniteSet(T)
    BY <1>10
  <2> HIDE DEF T, Of
  <2>4. SumFunction(f) = SumFunctionOnSet(f, T)
    BY <2>3 DEF SumFunction
  <2> HIDE DEF f
  <2>5. SumFunctionOnSet(f, T) = SumFunctionOnSet(amount, T)
    BY <2>2, <2>3, SumSame
  <2> QED
    BY <2>1, <2>4, <2>5 DEF T, f
<1>13. Transfer(gain)
  <2> DEFINE G == [p \in Trader |->
             [gold |-> SumFunction([id \in Of(p, FALSE, {"item", "coin"}) |->
                                      offers[id].price * amount[id]]),
              items |-> IF p \in lost THEN 0
                        ELSE SumFunction([id \in Of(p, TRUE, {"item"}) |-> amount[id]]),
              coinItems |-> IF p \in lost THEN 0
                        ELSE SumFunction([id \in Of(p, TRUE, {"coin"}) |-> amount[id]])]]
  <2>1. Transfer(G)
    BY <1>1
  <2>2. ASSUME NEW p \in Trader PROVE G[p] = gain[p]
    <3> HIDE DEF gold, Of, asks, owner
    <3>1. SumFunction([id \in Of(p, FALSE, {"item", "coin"}) |->
                                      offers[id].price * amount[id]]) = gold(p)
      BY <1>11
    <3>2. SumFunction([id \in Of(p, TRUE, {"item"}) |-> amount[id]]) =
                SumFunctionOnSet(amount, {id \in asks("item") : owner[id] = p})
      BY <1>12
    <3>3. SumFunction([id \in Of(p, TRUE, {"coin"}) |-> amount[id]]) =
                SumFunctionOnSet(amount, {id \in asks("coin") : owner[id] = p})
      BY <1>12
    <3> QED
      BY <3>1, <3>2, <3>3
  <2>3. G = [p \in Trader |-> G[p]] /\ gain = [p \in Trader |-> gain[p]]
    OBVIOUS
  <2> HIDE DEF G, gain
  <2>4. G = gain
    BY <2>2, <2>3
  <2> QED
    BY <2>1, <2>4
<1>14. ASSUME NEW p \in Trader
       PROVE  gold(p) \in Nat /\ \A w : sold(p, w) \in Nat
  <2>1. gold(p) \in Nat
    <3> DEFINE T == {id \in bids : owner[id] = p}
    <3>1. IsFiniteSet(T)
      BY <1>10
    <3>2. \A id \in T : paid[id] \in Nat
      BY <1>6, <1>7, ProductInNat
    <3> HIDE DEF T, paid
    <3>3. SumFunctionOnSet(paid, T) \in Nat
      BY <3>1, <3>2, SumNat
    <3> QED
      BY <3>3 DEF T
  <2>2. ASSUME NEW w PROVE sold(p, w) \in Nat
    <3> DEFINE T == {id \in asks(w) : owner[id] = p}
    <3>1. IsFiniteSet(T)
      BY <1>10
    <3>2. \A id \in T : amount[id] \in Nat
      BY <1>7
    <3> HIDE DEF T
    <3>3. SumFunctionOnSet(amount, T) \in Nat
      BY <3>1, <3>2, SumNat
    <3> QED
      BY <3>3 DEF T
  <2> QED
    BY <2>1, <2>2
<1>15. /\ owner = [id \in Id |-> offers[id].owner]
       /\ \A p \in Trader : gain[p].gold = gold(p) /\ gain[p].items = sold(p, "item")
                              /\ gain[p].coinItems = sold(p, "coin")
  OBVIOUS
<1>16. \A p \in Trader :
         /\ gold(p) = SumFunctionOnSet(paid, {id \in bids : owner[id] = p})
         /\ \A w : sold(p, w) =
                     IF p \in lost THEN 0
                     ELSE SumFunctionOnSet(amount, {id \in asks(w) : owner[id] = p})
  OBVIOUS
<1> HIDE DEF gain, gold, sold
<1>17. Possible(gain)
  <2> SUFFICES ASSUME NEW y \in Trader
      PROVE  /\ gain[y].gold \in Int
             /\ gain[y].items \in Int
             /\ gain[y].coinItems \in Int
             /\ Held(y).gold + gain[y].gold >= 0
             /\ Held(y).items + gain[y].items >= 0
             /\ Held(y).coinItems + gain[y].coinItems >= 0
    BY DEF Possible
  <2>1. Held(y).gold \in Nat /\ Held(y).items \in Nat /\ Held(y).coinItems \in Nat
    BY <1>3, HeldIs
  <2>2. gain[y].gold \in Nat /\ gain[y].items \in Nat /\ gain[y].coinItems \in Nat
    BY <1>14, <1>15
  <2> QED
    BY <2>1, <2>2
<1>18. purse' \in [Trader -> Purse] /\ saved' \in [Trader -> Purse]
  BY <1>2, <1>3, <1>13, <1>17, TransferHeld
<1>19. /\ SumFunctionOnSet(GoldOf', Trader) =
            SumFunctionOnSet(GoldOf, Trader) + SumFunctionOnSet(GoldGain(gain), Trader)
       /\ SumFunctionOnSet(ItemsOf', Trader) =
            SumFunctionOnSet(ItemsOf, Trader) + SumFunctionOnSet(ItemGain(gain), Trader)
       /\ SumFunctionOnSet(CoinItemsOf', Trader) =
            SumFunctionOnSet(CoinItemsOf, Trader) + SumFunctionOnSet(CoinItemGain(gain), Trader)
  BY <1>2, <1>3, <1>13, <1>17, TransferTotals
<1>20. SumFunctionOnSet(Balances', Trader) = SumFunctionOnSet(Balances, Trader)
  BY <1>2, <1>3, BalancesStay
<1>21. /\ SumFunctionOnSet(GoldGain(gain), Trader) \in Int
       /\ SumFunctionOnSet(ItemGain(gain), Trader) \in Int
       /\ SumFunctionOnSet(CoinItemGain(gain), Trader) \in Int
  <2>1. \A p \in Trader : /\ GoldGain(gain)[p] \in Int /\ ItemGain(gain)[p] \in Int
                          /\ CoinItemGain(gain)[p] \in Int
    BY <1>17 DEF GoldGain, ItemGain, CoinItemGain, Possible
  <2> QED
    BY <2>1, Constants, SumInt
<1>22. /\ damage \subseteq damage' /\ damage' \subseteq Damages
       /\ "lost" \notin damage' =>
            \A p \in lost : Of(p, TRUE, {"item", "coin"}) = {}
  BY <1>1, <1>3 DEF MarketTypes, Damages
<1>23. /\ offers' \in [Id -> Offer \cup {NoOffer}]
       /\ \A id \in Id : offers'[id] = IF id \in rows THEN NoOffer ELSE offers[id]
  <2> HIDE DEF rows
  <2> QED
    BY <1>1, <1>3 DEF MarketTypes
<1>24. PaidFor(NoOffer) = 0 /\ \A w : OnSale(NoOffer, w) = 0
  BY DEF PaidFor, OnSale
<1>25. \A id \in Id : /\ GoldIn[id] \in Int /\ ItemsIn[id] \in Int /\ CoinsIn[id] \in Int
                      /\ GoldIn[id] = PaidFor(offers[id])
                      /\ ItemsIn[id] = OnSale(offers[id], "item")
                      /\ CoinsIn[id] = OnSale(offers[id], "coin")
                      /\ GoldIn'[id] = IF id \in rows THEN 0 ELSE PaidFor(offers[id])
                      /\ ItemsIn'[id] = IF id \in rows THEN 0 ELSE OnSale(offers[id], "item")
                      /\ CoinsIn'[id] = IF id \in rows THEN 0 ELSE OnSale(offers[id], "coin")
  <2>1. \A id \in Id : GoldIn[id] \in Int /\ ItemsIn[id] \in Int /\ CoinsIn[id] \in Int
    BY <1>3, RowsAreCounted
  <2>2. \A id \in Id : /\ GoldIn[id] = PaidFor(offers[id])
                       /\ ItemsIn[id] = OnSale(offers[id], "item")
                       /\ CoinsIn[id] = OnSale(offers[id], "coin")
                       /\ GoldIn'[id] = PaidFor(offers'[id])
                       /\ ItemsIn'[id] = OnSale(offers'[id], "item")
                       /\ CoinsIn'[id] = OnSale(offers'[id], "coin")
    BY DEF GoldIn, ItemsIn, CoinsIn
  <2> HIDE DEF rows
  <2> QED
    BY <1>23, <1>24, <2>1, <2>2
<1>26. bids \in SUBSET Id /\ \A w : asks(w) \in SUBSET Id
  BY <1>6
<1>27. ASSUME "outdated" \notin damage'
       PROVE  SumFunctionOnSet(GoldIn', Id) =
                SumFunctionOnSet(GoldIn, Id) - SumFunctionOnSet(GoldGain(gain), Trader)
  <2>1. \A id \in Id : GoldIn'[id] = IF id \in bids THEN 0 ELSE GoldIn[id]
    <3>1. \A id \in rows \ bids : PaidFor(offers[id]) = 0
      BY <1>7 DEF PaidFor
    <3> QED
      BY <1>25, <3>1
  <2>2. \A id \in bids : paid[id] = GoldIn[id] /\ owner[id] \in Trader
    <3>1. \A id \in bids : PaidFor(offers[id]) = offers[id].price * amount[id]
      BY <1>6, <1>8, <1>22, <1>27 DEF PaidFor
    <3>2. \A id \in bids : paid[id] = offers[id].price * amount[id] /\ owner[id] \in Trader
                           /\ id \in Id
      BY <1>6, <1>7
    <3> QED
      BY <1>25, <3>1, <3>2
  <2>3. \A p \in Trader : GoldGain(gain)[p] =
                            SumFunctionOnSet(paid, {id \in bids : owner[id] = p})
    BY <1>15, <1>16 DEF GoldGain
  <2> HIDE DEF paid, owner, bids, rows
  <2>4. PaysOut(paid, GoldIn, GoldIn', bids, owner, GoldGain(gain))
    BY <1>25, <2>1, <2>2, <2>3 DEF PaysOut
  <2> QED
    BY <1>26, <2>4, Payout
<1>28. ASSUME damage' \cap {"outdated", "lost"} = {}, NEW w, NEW p \in Trader
       PROVE  sold(p, w) = SumFunctionOnSet(amount, {id \in asks(w) : owner[id] = p})
  <2>1. CASE p \in lost
    <3> DEFINE T == {id \in asks(w) : owner[id] = p}
    <3>1. Of(p, TRUE, {"item", "coin"}) = {}
      BY <1>22, <1>28, <2>1
    <3>2. T = {}
      BY <1>6, <1>7, <3>1
    <3>3. SumFunctionOnSet(amount, {}) = 0
      BY FS_EmptySet, SumZero
    <3> HIDE DEF T
    <3>4. SumFunctionOnSet(amount, T) = 0
      BY <3>2, <3>3
    <3>5. sold(p, w) = 0
      BY <1>16, <2>1
    <3> QED
      BY <3>4, <3>5 DEF T
  <2>2. CASE p \notin lost
    <3> HIDE DEF Of, asks, owner
    <3> QED
      BY <1>16, <2>2
  <2> QED
    BY <2>1, <2>2
<1>29. ASSUME damage' \cap {"outdated", "lost"} = {}
       PROVE  \A w : \A id \in asks(w) : /\ amount[id] = OnSale(offers[id], w)
                                         /\ owner[id] \in Trader /\ id \in Id
  BY <1>6, <1>7, <1>8, <1>22, <1>29 DEF OnSale
<1>30. \A w : \A id \in rows \ asks(w) : OnSale(offers[id], w) = 0
  BY <1>7 DEF OnSale
<1>31. ASSUME damage' \cap {"outdated", "lost"} = {}
       PROVE  /\ SumFunctionOnSet(ItemsIn', Id) =
                   SumFunctionOnSet(ItemsIn, Id) - SumFunctionOnSet(ItemGain(gain), Trader)
              /\ SumFunctionOnSet(CoinsIn', Id) =
                   SumFunctionOnSet(CoinsIn, Id) - SumFunctionOnSet(CoinItemGain(gain), Trader)
  <2>1. /\ \A id \in Id : ItemsIn'[id] = IF id \in asks("item") THEN 0 ELSE ItemsIn[id]
        /\ \A id \in Id : CoinsIn'[id] = IF id \in asks("coin") THEN 0 ELSE CoinsIn[id]
    BY <1>25, <1>30
  <2>2. /\ \A id \in asks("item") : amount[id] = ItemsIn[id] /\ owner[id] \in Trader
        /\ \A id \in asks("coin") : amount[id] = CoinsIn[id] /\ owner[id] \in Trader
    <3> HIDE DEF asks, owner
    <3> QED
      BY <1>25, <1>29, <1>31
  <2>3. \A p \in Trader :
          /\ ItemGain(gain)[p] = SumFunctionOnSet(amount, {id \in asks("item") : owner[id] = p})
          /\ CoinItemGain(gain)[p] =
               SumFunctionOnSet(amount, {id \in asks("coin") : owner[id] = p})
    <3>1. ASSUME NEW p \in Trader
          PROVE  /\ gain[p].items = sold(p, "item") /\ gain[p].coinItems = sold(p, "coin")
                 /\ sold(p, "item") = SumFunctionOnSet(amount, {id \in asks("item") : owner[id] = p})
                 /\ sold(p, "coin") = SumFunctionOnSet(amount, {id \in asks("coin") : owner[id] = p})
      BY <1>15, <1>28, <1>31
    <3> HIDE DEF asks, owner
    <3> QED
      BY <3>1 DEF ItemGain, CoinItemGain
  <2> HIDE DEF owner, asks, rows
  <2>4. PaysOut(amount, ItemsIn, ItemsIn', asks("item"), owner, ItemGain(gain))
    BY <1>25, <2>1, <2>2, <2>3 DEF PaysOut
  <2>5. PaysOut(amount, CoinsIn, CoinsIn', asks("coin"), owner, CoinItemGain(gain))
    BY <1>25, <2>1, <2>2, <2>3 DEF PaysOut
  <2>6. asks("item") \in SUBSET Id /\ asks("coin") \in SUBSET Id
    BY <1>26
  <2> QED
    BY <2>4, <2>5, <2>6, Payout
<1> HIDE DEF Of, asks, bids, owner, paid
<1>32. "outdated" \notin damage' => AllGold' = AllGold
  <2> SUFFICES ASSUME "outdated" \notin damage' PROVE AllGold' = AllGold
    OBVIOUS
  <2>1. SumFunctionOnSet(GoldIn', Id) =
                SumFunctionOnSet(GoldIn, Id) - SumFunctionOnSet(GoldGain(gain), Trader)
    BY <1>27
  <2> DEFINE f == Fee * (nextId - 1)
             a == SumFunctionOnSet(GoldOf, Trader)
             b == SumFunctionOnSet(GoldIn, Id)
             c == SumFunctionOnSet(GoldGain(gain), Trader)
  <2>2. AllGold' = f + (a + c) + (b - c) /\ AllGold = f + a + b
    BY <1>2, <1>19, <2>1 DEF AllGold
  <2>3. f \in Int
    <3>1. nextId - 1 \in Int /\ Fee \in Int
      BY <1>3, Constants DEF MarketTypes
    <3>2. \A m, n \in Int : m * n \in Int
      OBVIOUS
    <3> QED
      BY <3>1, <3>2
  <2>4. a \in Int /\ b \in Int /\ c \in Int
    BY <1>3, <1>21, SumsAreInt
  <2> HIDE DEF f, a, b, c
  <2> QED
    BY ONLY <2>2, <2>3, <2>4
<1>33. damage' \cap {"outdated", "lost"} = {} => AllItems' = AllItems /\ AllCoins' = AllCoins
  <2> SUFFICES ASSUME damage' \cap {"outdated", "lost"} = {}
               PROVE  AllItems' = AllItems /\ AllCoins' = AllCoins
    OBVIOUS
  <2>1. /\ SumFunctionOnSet(ItemsIn', Id) =
             SumFunctionOnSet(ItemsIn, Id) - SumFunctionOnSet(ItemGain(gain), Trader)
        /\ SumFunctionOnSet(CoinsIn', Id) =
             SumFunctionOnSet(CoinsIn, Id) - SumFunctionOnSet(CoinItemGain(gain), Trader)
    BY <1>31
  <2> DEFINE a == SumFunctionOnSet(ItemsOf, Trader)
             b == SumFunctionOnSet(ItemsIn, Id)
             c == SumFunctionOnSet(ItemGain(gain), Trader)
             d == SumFunctionOnSet(Balances, Trader)
             e == SumFunctionOnSet(CoinItemsOf, Trader)
             f == SumFunctionOnSet(CoinsIn, Id)
             g == SumFunctionOnSet(CoinItemGain(gain), Trader)
  <2>2. AllItems' = (a + c) + (b - c) /\ AllItems = a + b
    BY <1>19, <2>1 DEF AllItems
  <2>3. AllCoins' = d + (e + g) + (f - g) /\ AllCoins = d + e + f
    BY <1>19, <1>20, <2>1 DEF AllCoins
  <2>4. /\ a \in Int /\ b \in Int /\ c \in Int /\ d \in Int
        /\ e \in Int /\ f \in Int /\ g \in Int
    BY <1>3, <1>21, SumsAreInt
  <2> HIDE DEF a, b, c, d, e, f, g
  <2> QED
    BY ONLY <2>2, <2>3, <2>4
<1>34. MarketTypes'
  <2>1. Len(results') <= MaxResult
    BY <1>3, <1>4, Constants DEF MarketTypes
  <2> HIDE DEF rows
  <2> QED
    BY <1>2, <1>3, <1>4, <1>18, <1>22, <1>23, <2>1 DEF MarketTypes
<1>35. NeverBelow'
  <2>1. coinQueries' = coinQueries \o <<>>
    BY <1>2, <1>3, ConcatEmptySeq DEF MarketTypes
  <2>2. ASSUME "overdrawn" \notin damage', NEW y \in Trader, NEW j \in 0 .. Len(<<>>)
        PROVE  Balance(y) + Due(<<>>, y, j) >= 0
    <3>1. Balance(y) >= 0 /\ Balance(y) \in Int
      BY <1>3, <1>22, <2>2, BalanceNat, BalanceInt
    <3>2. Due(<<>>, y, j) = 0
      BY DueNone
    <3> QED
      BY <3>1, <3>2
  <2> QED
    BY <1>2, <1>3, <1>22, <2>1, <2>2, NoQueryDue, QueriesAllowed
<1>36. Given'
  <2> SUFFICES ASSUME NEW i \in Id, i >= nextId'
               PROVE  offers'[i] = NoOffer /\ \A k \in DOMAIN results' : i \notin DOMAIN results'[k]
    BY DEF Given
  <2>1. offers'[i] = NoOffer
    BY <1>2, <1>3, <1>23 DEF Given
  <2>2. ASSUME NEW k \in DOMAIN results' PROVE i \notin DOMAIN results'[k]
    BY <1>2, <1>3, TailResults DEF Given
  <2> QED
    BY <2>1, <2>2
<1>37. UpToDate'
  <2> SUFFICES ASSUME "outdated" \notin damage',
                      NEW k \in DOMAIN results', NEW i \in DOMAIN results'[k],
                      offers'[i] # NoOffer
               PROVE  results'[k][i] = offers'[i].amount
    BY DEF UpToDate
  <2>1. k + 1 \in DOMAIN results /\ results'[k] = results[k + 1]
    BY <1>2, <1>3, TailResults
  <2>2. i \in Id
    BY <1>3, <2>1, ResultRows
  <2>3. offers'[i] = offers[i]
    BY <1>23, <2>2
  <2> QED
    BY <1>3, <1>22, <2>1, <2>3 DEF UpToDate
<1>38. GoldKept'
  BY <1>3, <1>22, <1>32 DEF GoldKept
<1>39. WaresKept'
  BY <1>3, <1>22, <1>33 DEF WaresKept
<1> QED
  BY <1>34, <1>35, <1>36, <1>37, <1>38, <1>39 DEF MarketInv

-----------------------------------------------------------------------------
(* Nothing moves.                                                            *)
LEMMA TotalsStay ==
  ASSUME MarketTypes, \A p \in Trader : Held(p)' = Held(p),
         UNCHANGED <<coins, coinQueries, offers, nextId>>
  PROVE  AllGold' = AllGold /\ AllItems' = AllItems /\ AllCoins' = AllCoins
<1>1. GoldOf' = GoldOf /\ ItemsOf' = ItemsOf /\ CoinItemsOf' = CoinItemsOf
  BY DEF GoldOf, ItemsOf, CoinItemsOf
<1>2. GoldIn' = GoldIn /\ ItemsIn' = ItemsIn /\ CoinsIn' = CoinsIn
  BY DEF GoldIn, ItemsIn, CoinsIn
<1>3. SumFunctionOnSet(Balances', Trader) = SumFunctionOnSet(Balances, Trader)
  BY BalancesStay
<1> QED
  BY <1>1, <1>2, <1>3 DEF AllGold, AllItems, AllCoins

(* The steps which leave offers, coins and totals as they are.               *)
LEMMA QuietSteps ==
  ASSUME MarketInv, MarketTypes', \A p \in Trader : Held(p)' = Held(p),
         UNCHANGED <<coins, coinQueries, offers, nextId, results, damage>>
  PROVE  MarketInv'
<1>1. AllGold' = AllGold /\ AllItems' = AllItems /\ AllCoins' = AllCoins
  BY TotalsStay DEF MarketInv
<1>2. NeverBelow' /\ Given' /\ UpToDate'
  BY DEF MarketInv, NeverBelow, Given, UpToDate
<1>3. GoldKept' /\ WaresKept'
  BY <1>1 DEF MarketInv, GoldKept, WaresKept
<1> QED
  BY <1>2, <1>3 DEF MarketInv

(* Loading and saving a player keep the invariant.                          *)
LEMMA LoginKeeps ==
  ASSUME MarketInv, NEW p \in Trader, MarketLogin(p) \/ MarketLogout(p)
  PROVE  MarketInv'
<1>1. UNCHANGED <<coins, coinQueries, offers, nextId, old, results, damage>>
  BY DEF MarketLogin, MarketLogout
<1>2. MarketTypes
  BY DEF MarketInv
<1>3. MarketTypes' /\ \A y \in Trader : Held(y)' = Held(y)
  <2>1. CASE MarketLogin(p)
    <3>1. p \notin inGame /\ inGame' = inGame \cup {p} /\ saved' = saved
          /\ purse' = [purse EXCEPT ![p] = saved[p]]
      BY <2>1 DEF MarketLogin
    <3>2. \A y \in Trader : Held(y)' = Held(y)
      BY <1>2, <3>1 DEF Held, MarketTypes
    <3>3. purse' \in [Trader -> Purse]
      BY <1>2, <3>1 DEF MarketTypes
    <3> QED
      BY <1>1, <1>2, <3>1, <3>2, <3>3 DEF MarketTypes
  <2>2. CASE MarketLogout(p)
    <3>1. p \in inGame /\ inGame' = inGame \ {p} /\ saved' = [saved EXCEPT ![p] = purse[p]]
          /\ purse' = [purse EXCEPT ![p] = Empty]
      BY <2>2 DEF MarketLogout
    <3>2. \A y \in Trader : Held(y)' = Held(y)
      BY <1>2, <3>1 DEF Held, MarketTypes
    <3>3. Empty \in Purse
      BY DEF Empty, Purse
    <3>4. purse' \in [Trader -> Purse] /\ saved' \in [Trader -> Purse]
      BY <1>2, <3>1, <3>3 DEF MarketTypes
    <3> QED
      BY <1>1, <1>2, <3>1, <3>2, <3>4 DEF MarketTypes
  <2> QED
    BY <2>1, <2>2
<1> QED
  BY <1>1, <1>3, QuietSteps

(* That an offer grows old keeps the invariant.                             *)
LEMMA GrowOldKeeps ==
  ASSUME MarketInv, NEW id \in Id, GrowOld(id)
  PROVE  MarketInv'
<1>1. /\ UNCHANGED <<inGame, purse, saved, coins, coinQueries, offers, nextId, results, damage>>
      /\ old' = old \cup {id}
  BY DEF GrowOld
<1>2. MarketTypes'
  BY <1>1 DEF MarketTypes, MarketInv
<1>3. \A y \in Trader : Held(y)' = Held(y)
  BY <1>1 DEF Held
<1> QED
  BY <1>1, <1>2, <1>3, QuietSteps

(* A stuttering step keeps the invariant.                                   *)
LEMMA StutterKeeps ==
  ASSUME MarketInv, UNCHANGED marketVars
  PROVE  MarketInv'
<1>1. UNCHANGED <<inGame, purse, saved, coins, coinQueries, offers, nextId, old, results, damage>>
  BY DEF marketVars
<1>2. MarketTypes'
  BY <1>1 DEF MarketTypes, MarketInv
<1>3. \A y \in Trader : Held(y)' = Held(y)
  BY <1>1 DEF Held
<1> QED
  BY <1>1, <1>2, <1>3, QuietSteps

(* Rows are selected, with the amounts they have.                            *)
LEMMA CheckKeeps ==
  ASSUME MarketInv, CheckExpiredOffers
  PROVE  MarketInv'
<1> DEFINE found == {id \in old : offers[id] # NoOffer}
           r == [id \in found |-> offers[id].amount]
<1>1. /\ Len(results) < MaxResult
      /\ results' = Append(results, r)
      /\ UNCHANGED <<inGame, purse, saved, coins, coinQueries, offers, nextId, old, damage>>
  BY DEF CheckExpiredOffers
<1>2. MarketTypes /\ NeverBelow /\ Given /\ UpToDate /\ GoldKept /\ WaresKept
  BY DEF MarketInv
<1>3. found \subseteq Id /\ \A id \in found : offers[id].amount \in Nat \ {0}
  BY <1>2, OffersAre DEF MarketTypes
<1>4. r \in Result
  <2>1. r \in [found -> Nat \ {0}]
    BY <1>3
  <2> HIDE DEF found, r
  <2> QED
    BY <1>3, <2>1 DEF Result
<1>5. DOMAIN r = found /\ \A id \in found : r[id] = offers[id].amount
  OBVIOUS
<1>6. \A id \in found : offers[id] # NoOffer
  OBVIOUS
<1> HIDE DEF r, found
<1>7. /\ results' \in Seq(Result) /\ Len(results') = Len(results) + 1
      /\ \A k \in DOMAIN results' : (k \in DOMAIN results /\ results'[k] = results[k])
                                     \/ results'[k] = r
  <2>1. results \in Seq(Result) /\ Len(results) \in Nat
    BY <1>2, LenProperties DEF MarketTypes
  <2>2. results' \in Seq(Result) /\ Len(results') = Len(results) + 1
        /\ (\A k \in 1 .. Len(results) : results'[k] = results[k])
        /\ results'[Len(results) + 1] = r
    BY <1>1, <1>4, <2>1
  <2>3. DOMAIN results' = 1 .. Len(results) + 1 /\ DOMAIN results = 1 .. Len(results)
    BY <2>1, <2>2, LenProperties
  <2> QED
    BY <2>1, <2>2, <2>3
<1>8. MarketTypes'
  <2>1. Len(results') <= MaxResult
    BY <1>1, <1>2, <1>7, Constants, LenProperties DEF MarketTypes
  <2> QED
    BY <1>1, <1>2, <1>7, <2>1 DEF MarketTypes
<1>9. Given'
  <2> SUFFICES ASSUME NEW i \in Id, i >= nextId'
               PROVE  offers'[i] = NoOffer /\ \A k \in DOMAIN results' : i \notin DOMAIN results'[k]
    BY DEF Given
  <2>1. offers[i] = NoOffer /\ i \notin DOMAIN r
    BY <1>1, <1>2, <1>5, <1>6 DEF Given
  <2> QED
    BY <1>1, <1>2, <1>7, <2>1 DEF Given
<1>10. UpToDate'
  <2> SUFFICES ASSUME "outdated" \notin damage',
                      NEW k \in DOMAIN results', NEW i \in DOMAIN results'[k],
                      offers'[i] # NoOffer
               PROVE  results'[k][i] = offers'[i].amount
    BY DEF UpToDate
  <2>1. CASE results'[k] = r
    BY <1>1, <1>5, <2>1
  <2>2. CASE k \in DOMAIN results /\ results'[k] = results[k]
    BY <1>1, <1>2, <2>2 DEF UpToDate
  <2> QED
    BY <1>7, <2>1, <2>2
<1>11. AllGold' = AllGold /\ AllItems' = AllItems /\ AllCoins' = AllCoins
  <2>1. \A y \in Trader : Held(y)' = Held(y)
    BY <1>1 DEF Held
  <2> QED
    BY <1>1, <1>2, <2>1, TotalsStay
<1>12. NeverBelow' /\ GoldKept' /\ WaresKept'
  BY <1>1, <1>2, <1>11 DEF NeverBelow, GoldKept, WaresKept
<1> QED
  BY <1>8, <1>9, <1>10, <1>12 DEF MarketInv

(* An update runs: what it adds was counted before.                          *)
LEMMA CoinQueryKeeps ==
  ASSUME MarketInv, RunCoinQuery
  PROVE  MarketInv'
<1> DEFINE q == coinQueries
           e == Head(q)
           t == Tail(q)
           n == Len(q)
<1>1. /\ q # <<>>
      /\ coins' = [coins EXCEPT ![e.account] = @ + e.amount]
      /\ coinQueries' = t
      /\ UNCHANGED <<inGame, purse, saved, offers, nextId, old, results, damage>>
  BY DEF RunCoinQuery
<1>2. MarketTypes /\ NeverBelow /\ Given /\ UpToDate /\ GoldKept /\ WaresKept
  BY DEF MarketInv
<1>3. q \in Seq(CoinQuery) /\ n \in Nat \ {0} /\ t \in Seq(CoinQuery) /\ Len(t) = n - 1 /\ e = q[1]
      /\ e \in CoinQuery
  BY <1>1, <1>2, HeadTailProperties, LenProperties, EmptySeq DEF MarketTypes
<1>4. e.account \in Trader /\ e.amount \in Int
  <2> HIDE DEF e
  <2> QED
    BY <1>3 DEF CoinQuery
<1>5. \A p : Owed(q, p)[1] = IF e.account = p THEN e.amount ELSE 0
  BY <1>3 DEF Owed
<1>6. \A p \in Trader : /\ coins[p] \in Int /\ coins'[p] = coins[p] + Owed(q, p)[1]
                        /\ Owed(q, p)[1] \in Int
  <2> HIDE DEF e
  <2> QED
    BY <1>1, <1>2, <1>4, <1>5 DEF MarketTypes
<1>7. coins' \in [Trader -> Int]
  <2> HIDE DEF e
  <2> QED
    BY <1>1, <1>2, <1>4 DEF MarketTypes
<1>8. ASSUME NEW p \in Trader, NEW j \in 0 .. n - 1
      PROVE  coins'[p] + Due(t, p, j) = coins[p] + Due(q, p, j + 1)
  <2>1. Due(t, p, j) = Due(q, p, j + 1) - Owed(q, p)[1]
    BY <1>1, <1>3, DueTail
  <2>2. j + 1 \in 0 .. n
    BY <1>3
  <2>3. Due(q, p, j + 1) \in Int
    BY <1>3, <2>2, DueInt
  <2> HIDE DEF q, t, n
  <2> QED
    BY <1>6, <2>1, <2>3
<1>9. MarketTypes'
  BY <1>1, <1>2, <1>3, <1>7 DEF MarketTypes
<1>10. NeverBelow'
  <2> SUFFICES ASSUME "overdrawn" \notin damage', NEW p \in Trader, NEW j \in 0 .. Len(t)
               PROVE  coins'[p] + Due(t, p, j) >= 0
    BY <1>1 DEF NeverBelow
  <2>1. j \in 0 .. n - 1 /\ j + 1 \in 0 .. n
    BY <1>3
  <2>2. coins[p] + Due(q, p, j + 1) >= 0
    BY <1>1, <1>2, <2>1 DEF NeverBelow
  <2> QED
    BY <1>8, <2>1, <2>2
<1>11. Balances' = Balances
  <2>1. BalancesAre
    BY <1>2, BalancesNow DEF MarketTypes
  <2>2. BalancesAre'
    <3>1. (coinQueries \in Seq(CoinQuery))'
      BY <1>1, <1>3
    <3> QED
      BY <3>1, BalancesNow, PTL
  <2>3. ASSUME NEW p \in Trader PROVE Balance(p)' = Balance(p)
    <3>1. Balance(p) = coins[p] + Due(q, p, n) /\ Balance(p)' = coins'[p] + Due(t, p, n - 1)
      BY <1>1, <1>3, <2>1, <2>2 DEF BalancesAre
    <3>2. n - 1 \in 0 .. n - 1 /\ (n - 1) + 1 = n
      BY <1>3
    <3>3. coins'[p] + Due(t, p, n - 1) = coins[p] + Due(q, p, (n - 1) + 1)
      BY <1>8, <3>2
    <3> QED
      BY <3>1, <3>2, <3>3
  <2> QED
    BY <2>3 DEF Balances
<1>12. AllGold' = AllGold /\ AllItems' = AllItems /\ AllCoins' = AllCoins
  <2>1. \A y \in Trader : Held(y)' = Held(y)
    BY <1>1 DEF Held
  <2>2. GoldOf' = GoldOf /\ ItemsOf' = ItemsOf /\ CoinItemsOf' = CoinItemsOf
    BY <2>1 DEF GoldOf, ItemsOf, CoinItemsOf
  <2>3. GoldIn' = GoldIn /\ ItemsIn' = ItemsIn /\ CoinsIn' = CoinsIn
    BY <1>1 DEF GoldIn, ItemsIn, CoinsIn
  <2> QED
    BY <1>1, <1>11, <2>2, <2>3 DEF AllGold, AllItems, AllCoins
<1>13. Given' /\ UpToDate' /\ GoldKept' /\ WaresKept'
  BY <1>1, <1>2, <1>12 DEF Given, UpToDate, GoldKept, WaresKept
<1> QED
  BY <1>9, <1>10, <1>13 DEF MarketInv

-----------------------------------------------------------------------------
(* The invariant holds at the start.                                        *)
LEMMA InitHolds == MarketInit => MarketInv
<1> SUFFICES ASSUME MarketInit PROVE MarketInv
  OBVIOUS
<1> DEFINE wealth == [gold |-> Wealth, items |-> Wealth, coinItems |-> 0]
<1>1. wealth \in Purse /\ Empty \in Purse
      /\ wealth.gold = Wealth /\ wealth.items = Wealth /\ wealth.coinItems = 0
  BY Constants DEF Purse, Empty
<1> HIDE DEF wealth
<1>2. /\ inGame \subseteq Trader
      /\ saved = [p \in Trader |-> wealth]
      /\ purse = [p \in Trader |-> IF p \in inGame THEN saved[p] ELSE Empty]
      /\ coins = [p \in Trader |-> Coins]
      /\ coinQueries = <<>>
      /\ offers = [id \in Id |-> NoOffer]
      /\ nextId = 1
      /\ old = {}
      /\ results = <<>>
      /\ damage = {}
  BY DEF MarketInit, wealth
<1>3. MarketTypes
  <2>1. purse \in [Trader -> Purse] /\ saved \in [Trader -> Purse]
    BY <1>1, <1>2
  <2>2. coins \in [Trader -> Int] /\ offers \in [Id -> Offer \cup {NoOffer}]
    BY <1>2, Constants
  <2>3. coinQueries \in Seq(CoinQuery) /\ results \in Seq(Result) /\ Len(results) = 0
    BY <1>2
  <2> QED
    BY <1>2, <2>1, <2>2, <2>3, Constants DEF MarketTypes
<1>4. NeverBelow
  <2>1. ASSUME NEW p \in Trader, NEW j \in 0 .. Len(coinQueries)
        PROVE  coins[p] + Due(coinQueries, p, j) >= 0
    <3>1. j = 0 /\ coins[p] = Coins
      BY <1>2
    <3> QED
      BY <3>1, DueNone, Constants
  <2> QED
    BY <2>1 DEF NeverBelow
<1>5. Given /\ UpToDate
  BY <1>2 DEF Given, UpToDate
<1>6. ASSUME NEW p \in Trader
      PROVE  /\ GoldOf[p] = Wealth /\ ItemsOf[p] = Wealth /\ CoinItemsOf[p] = 0
             /\ Balances[p] = Coins
  <2>1. Held(p) = wealth
    BY <1>2 DEF Held
  <2>2. Balance(p) = Coins
    <3>1. Balance(p) = coins[p] + Due(coinQueries, p, Len(coinQueries))
      BY <1>3, BalanceDue DEF MarketTypes
    <3>2. coins[p] = Coins /\ Len(coinQueries) = 0
      BY <1>2
    <3> QED
      BY <3>1, <3>2, DueNone, Constants
  <2> QED
    BY <1>1, <2>1, <2>2 DEF GoldOf, ItemsOf, CoinItemsOf, Balances
<1>7. ASSUME NEW id \in Id PROVE GoldIn[id] = 0 /\ ItemsIn[id] = 0 /\ CoinsIn[id] = 0
  BY <1>2 DEF GoldIn, ItemsIn, CoinsIn, PaidFor, OnSale
<1>8. SumFunctionOnSet(GoldOf, Trader) = Cardinality(Trader) * Wealth
  BY <1>6, Constants, SumConst
<1>9. SumFunctionOnSet(ItemsOf, Trader) = Cardinality(Trader) * Wealth
  BY <1>6, Constants, SumConst
<1>10. SumFunctionOnSet(CoinItemsOf, Trader) = 0
  BY <1>6, Constants, SumZero
<1>11. SumFunctionOnSet(Balances, Trader) = Cardinality(Trader) * Coins
  BY <1>6, Constants, SumConst
<1>12. /\ SumFunctionOnSet(GoldIn, Id) = 0
       /\ SumFunctionOnSet(ItemsIn, Id) = 0
       /\ SumFunctionOnSet(CoinsIn, Id) = 0
  BY <1>7, Constants, SumZero
<1> DEFINE a == Cardinality(Trader) * Wealth
           b == Cardinality(Trader) * Coins
<1>13. a \in Int /\ b \in Int
  BY Constants, ProductInNat
<1>14. AllGold = a
  <2>1. Fee * (nextId - 1) = 0
    BY <1>2, Constants
  <2> HIDE DEF a
  <2>2. AllGold = 0 + a + 0
    BY <1>8, <1>12, <2>1 DEF AllGold, a
  <2> QED
    BY <1>13, <2>2
<1>15. AllItems = a /\ AllCoins = b
  <2> HIDE DEF a, b
  <2>1. AllItems = a + 0 /\ AllCoins = b + 0 + 0
    BY <1>9, <1>10, <1>11, <1>12 DEF AllItems, AllCoins, a, b
  <2> QED
    BY <1>13, <2>1
<1>16. GoldKept
  <2>1. AllGold = a + 0 * Width
    BY <1>13, <1>14, Constants
  <2> QED
    BY <2>1 DEF GoldKept
<1>17. WaresKept
  BY <1>15 DEF WaresKept
<1> QED
  BY <1>3, <1>4, <1>5, <1>16, <1>17 DEF MarketInv

(* Every step keeps the invariant.                                          *)
LEMMA StepKeeps == MarketInv /\ [MarketNext]_marketVars => MarketInv'
<1> SUFFICES ASSUME MarketInv, [MarketNext]_marketVars PROVE MarketInv'
  OBVIOUS
<1>1. ASSUME NEW p \in Trader, NEW d \in Deal, CreateOffer(p, d) PROVE MarketInv'
  BY <1>1, CreateKeeps
<1>2. ASSUME NEW p \in Trader, NEW id \in Id, CancelOffer(p, id) PROVE MarketInv'
  BY <1>2, CancelKeeps
<1>3. ASSUME NEW p \in Trader, NEW id \in Id,
             NEW amount \in {d.amount : d \in Deal} \cup {1}, AcceptOffer(p, id, amount)
      PROVE  MarketInv'
  BY <1>3, AcceptKeeps
<1>4. ASSUME NEW p \in Trader, MarketLogin(p) \/ MarketLogout(p) PROVE MarketInv'
  BY <1>4, LoginKeeps
<1>5. ASSUME NEW id \in Id, GrowOld(id) PROVE MarketInv'
  BY <1>5, GrowOldKeeps
<1>6. CASE RunCoinQuery
  BY <1>6, CoinQueryKeeps
<1>7. CASE CheckExpiredOffers
  BY <1>7, CheckKeeps
<1>8. CASE ProcessExpiredOffers
  BY <1>8, ProcessKeeps
<1>9. CASE UNCHANGED marketVars
  BY <1>9, StutterKeeps
<1> QED
  BY <1>1, <1>2, <1>3, <1>4, <1>5, <1>6, <1>7, <1>8, <1>9 DEF MarketNext

(* The sums which the property speaks of are those of the invariant.         *)
LEMMA RowsAre ==
  ASSUME MarketTypes
  PROVE  /\ SumFunction([id \in Open(FALSE, {"item", "coin"}) |->
                           offers[id].price * offers[id].amount]) = SumFunctionOnSet(GoldIn, Id)
         /\ SumFunction([id \in Open(TRUE, {"item"}) |-> offers[id].amount]) =
              SumFunctionOnSet(ItemsIn, Id)
         /\ SumFunction([id \in Open(TRUE, {"coin"}) |-> offers[id].amount]) =
              SumFunctionOnSet(CoinsIn, Id)
<1> DEFINE B == Open(FALSE, {"item", "coin"})
           I == Open(TRUE, {"item"})
           C == Open(TRUE, {"coin"})
           f == [id \in B |-> offers[id].price * offers[id].amount]
           g == [id \in I |-> offers[id].amount]
           h == [id \in C |-> offers[id].amount]
<1>1. \A id \in Id : GoldIn[id] \in Int /\ ItemsIn[id] \in Int /\ CoinsIn[id] \in Int
  BY RowsAreCounted
<1>2. B \in SUBSET Id /\ I \in SUBSET Id /\ C \in SUBSET Id
  BY DEF Open
<1>3. \A id \in Id : offers[id] # NoOffer =>
        offers[id].sale \in BOOLEAN /\ offers[id].ware \in {"item", "coin"}
  BY OffersAre
<1>4. /\ \A id \in B : GoldIn[id] = offers[id].price * offers[id].amount
      /\ \A id \in Id \ B : GoldIn[id] = 0
      /\ \A id \in I : ItemsIn[id] = offers[id].amount
      /\ \A id \in Id \ I : ItemsIn[id] = 0
      /\ \A id \in C : CoinsIn[id] = offers[id].amount
      /\ \A id \in Id \ C : CoinsIn[id] = 0
  BY <1>3 DEF Open, GoldIn, ItemsIn, CoinsIn, PaidFor, OnSale
<1>5. DOMAIN f = B /\ DOMAIN g = I /\ DOMAIN h = C
  OBVIOUS
<1>6. /\ \A id \in B : GoldIn[id] = f[id]
      /\ \A id \in I : ItemsIn[id] = g[id]
      /\ \A id \in C : CoinsIn[id] = h[id]
  BY <1>4
<1> HIDE DEF B, I, C, f, g, h
<1>7. /\ \A id \in B : GoldIn[id] \in Int /\ GoldIn[id] = f[id]
      /\ \A id \in I : ItemsIn[id] \in Int /\ ItemsIn[id] = g[id]
      /\ \A id \in C : CoinsIn[id] \in Int /\ CoinsIn[id] = h[id]
  BY <1>1, <1>2, <1>6
<1>8. SumFunctionOnSet(GoldIn, Id) = SumFunctionOnSet(f, B)
  BY <1>2, <1>4, <1>7, Constants, SumFilter
<1>9. SumFunctionOnSet(ItemsIn, Id) = SumFunctionOnSet(g, I)
  BY <1>2, <1>4, <1>7, Constants, SumFilter
<1>10. SumFunctionOnSet(CoinsIn, Id) = SumFunctionOnSet(h, C)
  BY <1>2, <1>4, <1>7, Constants, SumFilter
<1>11. SumFunction(f) = SumFunctionOnSet(f, B) /\ SumFunction(g) = SumFunctionOnSet(g, I)
       /\ SumFunction(h) = SumFunctionOnSet(h, C)
  BY <1>5 DEF SumFunction
<1> QED
  BY <1>8, <1>9, <1>10, <1>11 DEF f, g, h, B, I, C

(* ... and those of what players hold.                                      *)
LEMMA HoldingsAre ==
  ASSUME MarketTypes
  PROVE  /\ SumFunction([p \in Trader |-> Held(p).gold]) = SumFunctionOnSet(GoldOf, Trader)
         /\ SumFunction([p \in Trader |-> Held(p).items]) = SumFunctionOnSet(ItemsOf, Trader)
         /\ SumFunction([p \in Trader |-> Balance(p) + Held(p).coinItems]) =
              SumFunctionOnSet(Balances, Trader) + SumFunctionOnSet(CoinItemsOf, Trader)
<1> DEFINE f == [p \in Trader |-> Balance(p) + Held(p).coinItems]
<1>1. DOMAIN GoldOf = Trader /\ DOMAIN ItemsOf = Trader /\ DOMAIN f = Trader
  BY DEF GoldOf, ItemsOf
<1>2. /\ SumFunction(GoldOf) = SumFunctionOnSet(GoldOf, Trader)
      /\ SumFunction(ItemsOf) = SumFunctionOnSet(ItemsOf, Trader)
      /\ SumFunction(f) = SumFunctionOnSet(f, Trader)
  BY <1>1 DEF SumFunction
<1>3. \A p \in Trader : /\ Balances[p] \in Int /\ CoinItemsOf[p] \in Int
                        /\ f[p] = Balances[p] + CoinItemsOf[p]
  BY HeldIs, BalanceInt DEF Balances, CoinItemsOf
<1> HIDE DEF f
<1>4. SumFunctionOnSet(f, Trader) =
        SumFunctionOnSet(Balances, Trader) + SumFunctionOnSet(CoinItemsOf, Trader)
  BY <1>3, Constants, SumPlus
<1>5. SumFunction(GoldOf) = SumFunction([p \in Trader |-> Held(p).gold])
      /\ SumFunction(ItemsOf) = SumFunction([p \in Trader |-> Held(p).items])
  BY DEF GoldOf, ItemsOf
<1> QED
  BY <1>2, <1>4, <1>5 DEF f

(* The types and signs which the property states.                           *)
LEMMA TypeHolds == ASSUME MarketInv PROVE MarketTypeOK
<1>1. MarketTypes /\ NeverBelow
  BY DEF MarketInv
<1>2. "overdrawn" \notin damage => \A p \in Trader : coins[p] >= 0 /\ Balance(p) >= 0
  BY <1>1, BalanceNat
<1> QED
  BY <1>1, <1>2 DEF MarketTypeOK, MarketTypes, Damages

(* The invariant implies the property.                                      *)
LEMMA TotalsAreRight == ASSUME MarketInv PROVE NothingLost
<1> DEFINE gold == Fee * (nextId - 1) + SumFunction([p \in Trader |-> Held(p).gold])
                   + SumFunction([id \in Open(FALSE, {"item", "coin"}) |->
                                    offers[id].price * offers[id].amount])
           items == SumFunction([p \in Trader |-> Held(p).items])
                   + SumFunction([id \in Open(TRUE, {"item"}) |-> offers[id].amount])
           allCoins == SumFunction([p \in Trader |-> Balance(p) + Held(p).coinItems])
                   + SumFunction([id \in Open(TRUE, {"coin"}) |-> offers[id].amount])
           begin == Cardinality(Trader) * Wealth
<1>1. MarketTypes /\ GoldKept /\ WaresKept
  BY DEF MarketInv
<1>2. gold = AllGold
  BY <1>1, RowsAre, HoldingsAre DEF AllGold
<1>3. items = AllItems
  BY <1>1, RowsAre, HoldingsAre DEF AllItems
<1>4. allCoins = AllCoins
  BY <1>1, RowsAre, HoldingsAre DEF AllCoins
<1>5. begin \in Int
  BY Constants, ProductInNat
<1> HIDE DEF gold, items, allCoins, begin
<1>6. damage \cap {"overflow", "outdated"} = {} => gold = begin
  <2> SUFFICES ASSUME damage \cap {"overflow", "outdated"} = {} PROVE gold = begin
    OBVIOUS
  <2>1. AllGold = begin + 0 * Width
    BY <1>1 DEF GoldKept, begin
  <2> QED
    BY <1>2, <1>5, <2>1, Constants
<1>7. "outdated" \notin damage => gold % Width = begin % Width
  <2> SUFFICES ASSUME "outdated" \notin damage PROVE gold % Width = begin % Width
    OBVIOUS
  <2>1. PICK k \in Int : AllGold = begin + k * Width
    BY <1>1 DEF GoldKept, begin
  <2>2. (begin + k * Width) % Width = begin % Width
    BY <1>5, Constants, Remainders
  <2> QED
    BY <1>2, <2>1, <2>2
<1>8. damage \cap {"outdated", "lost"} = {} =>
              items = begin /\ allCoins = Cardinality(Trader) * Coins
  BY <1>1, <1>3, <1>4 DEF WaresKept, begin
<1> QED
  BY <1>6, <1>7, <1>8, TypeHolds DEF NothingLost, gold, items, allCoins, begin

(* The invariant holds in every state of the market.                        *)
THEOREM MarketInvariance == MarketSpec => []MarketInv
BY InitHolds, StepKeeps, PTL DEF MarketSpec

(* The market makes nothing and loses nothing: gold, items and coins are     *)
(* with the players, in the offers and in the fees, however requests,        *)
(* updates, checks and logins fall together, but for the faults which the    *)
(* history names (game.cpp:5968, 6105, 5934, 6130, iomarket.cpp:129, 144).   *)
THEOREM NothingIsLost == MarketSpec => []NothingLost
<1>1. MarketInv => NothingLost
  BY TotalsAreRight
<1> QED
  BY <1>1, MarketInvariance, PTL


-----------------------------------------------------------------------------
(* Spawns.                                                                   *)

(* The next check comes after what is announced.                             *)
ChecksWait ==
  \A b \in Block : \A t \in announced[b] : check # NoCheck => t < check

(* Nothing is announced for a block with a monster, and one at most.         *)
Alone(b) ==
  /\ alive[b] + dead[b] <= 1
  /\ \/ announced[b] = {}
     \/ /\ alive[b] = 0
        /\ dead[b] = 0
        /\ \E t \in 0 .. Announcement : announced[b] = {t}

SpawnIInv ==
  /\ SpawnTypeOK
  /\ ChecksWait
  /\ \A b \in Block : Alone(b)

(* SpawnAt adds one monster where it can be placed.                          *)
LEMMA SpawnAtAdds ==
  ASSUME NEW count \in [Block -> Nat], NEW S
  PROVE  /\ SpawnAt(count, S) \in [Block -> Nat]
         /\ \A b \in Block : SpawnAt(count, S)[b] <= count[b] + 1
         /\ \A b \in Block \ S : SpawnAt(count, S)[b] = count[b]
  BY DEF SpawnAt

(* The invariant holds when the spawn has started.                           *)
LEMMA SpawnInitInv == SpawnInit => SpawnIInv
<1> SUFFICES ASSUME SpawnInit PROVE SpawnIInv
  OBVIOUS
<1> USE SpawnAssumption DEF SpawnAssumption, SpawnInit
<1>1. dead \in [Block -> Nat]
  OBVIOUS
<1>2. alive \in [Block -> Nat] /\ \A b \in Block : alive[b] <= 1
  <2>1. alive = SpawnAt(dead, Block)
    OBVIOUS
  <2>2. \A b \in Block : dead[b] = 0
    OBVIOUS
  <2> QED
    BY <1>1, <2>1, <2>2, SpawnAtAdds
<1>3. SpawnTypeOK
  <2>1. age \in [Block -> Nat] /\ \A b \in Block : age[b] <= Interval[b]
    OBVIOUS
  <2>2. announced \in [Block -> SUBSET (0 .. Announcement)]
    OBVIOUS
  <2>3. /\ check = NoCheck /\ near = {} /\ day = FALSE
        /\ blocked \subseteq Block /\ missed = blocked
    OBVIOUS
  <2> QED
    BY ONLY <1>1, <1>2, <2>1, <2>2, <2>3 DEF SpawnTypeOK
<1>4. \A b \in Block : alive[b] \in Nat /\ dead[b] = 0 /\ announced[b] = {}
  BY <1>2
<1>5. ChecksWait
  BY <1>4 DEF ChecksWait
<1>6. ASSUME NEW b \in Block PROVE Alone(b)
  <2>1. alive[b] \in Nat /\ alive[b] <= 1 /\ dead[b] = 0 /\ announced[b] = {}
    BY <1>2, <1>4
  <2> QED
    BY ONLY <2>1 DEF Alone
<1> QED
  BY <1>3, <1>5, <1>6 DEF SpawnIInv

-----------------------------------------------------------------------------
(* A monster that dies leaves an entry to be cleaned up.                     *)
LEMMA RemovedInv == ASSUME NEW b \in Block, SpawnIInv, MonsterRemoved(b) PROVE SpawnIInv'
<1> USE SpawnAssumption, SpawnTimes
    DEF SpawnAssumption, SpawnIInv, SpawnTypeOK, MonsterRemoved, Announcement
<1>1. check' \in {check, CheckInterval} /\ (check # NoCheck => check' = check)
  OBVIOUS
<1>2. SpawnTypeOK'
  OBVIOUS
<1>3. ChecksWait'
  BY <1>1 DEF ChecksWait
<1>4. ASSUME NEW c \in Block PROVE Alone(c)'
  <2>1. alive'[c] + dead'[c] = alive[c] + dead[c]
    OBVIOUS
  <2>2. Alone(c) /\ (c = b => announced[c] = {})
    BY DEF Alone
  <2> QED
    BY <2>1, <2>2 DEF Alone
<1> QED
  BY <1>2, <1>3, <1>4

(* At a check nothing is announced any more, and only blocks without a       *)
(* monster get one.                                                          *)
LEMMA CheckInv == SpawnIInv /\ CheckSpawn => SpawnIInv'
<1> SUFFICES ASSUME SpawnIInv, CheckSpawn PROVE SpawnIInv'
  OBVIOUS
<1> DEFINE served == Ready \cap Visited
<1> USE SpawnAssumption, SpawnTimes DEF SpawnAssumption
<1>1. \A b \in Block : announced[b] = {}
  BY DEF SpawnIInv, ChecksWait, SpawnTypeOK, CheckSpawn
<1>2. \A b \in served : b \in Block /\ alive[b] = 0
  BY DEF Ready, Ripe
<1>3. \A b \in Block : AgeThen(b) \in Nat /\ AgeThen(b) <= Interval[b]
  BY DEF AgeThen, SpawnIInv, SpawnTypeOK
<1>4. /\ alive' \in [Block -> Nat]
      /\ \A b \in Block : alive'[b] <= alive[b] + 1
      /\ \A b \in Block \ (served \cap Blockable) : alive'[b] = alive[b]
  BY SpawnAtAdds DEF SpawnIInv, SpawnTypeOK, CheckSpawn
<1>5. \A b \in Block :
        announced'[b] = IF b \in served \ Blockable THEN {Announcement} ELSE {}
  BY <1>1 DEF CheckSpawn
<1>6. check' \in {CheckInterval, NoCheck}
  BY DEF CheckSpawn
<1>7. SpawnTypeOK'
  <2>1. dead' \in [Block -> Nat]
    BY DEF CheckSpawn
  <2>2. age' \in [Block -> Nat] /\ \A b \in Block : age'[b] <= Interval[b]
    BY <1>3 DEF CheckSpawn
  <2>3. announced' \in [Block -> SUBSET (0 .. Announcement)]
    <3>1. announced' = [b \in Block |-> announced'[b]]
      BY DEF CheckSpawn
    <3>2. {Announcement} \subseteq 0 .. Announcement
      BY DEF Announcement
    <3>3. \A b \in Block : announced'[b] \subseteq 0 .. Announcement
      BY ONLY <1>5, <3>2
    <3> QED
      BY <3>1, <3>3
  <2>4. UNCHANGED <<near, day, blocked, missed>>
    BY DEF CheckSpawn
  <2> QED
    BY <1>4, <1>6, <2>1, <2>2, <2>3, <2>4 DEF SpawnIInv, SpawnTypeOK
<1>8. ChecksWait'
  BY <1>5, <1>6 DEF ChecksWait, Announcement
<1>9. ASSUME NEW b \in Block PROVE Alone(b)'
  <2>1. dead'[b] = 0
    BY DEF CheckSpawn
  <2>2. alive[b] \in Nat /\ alive[b] <= 1
    BY DEF SpawnIInv, SpawnTypeOK, Alone
  <2>3. alive'[b] \in Nat /\ alive'[b] <= 1
    BY <1>2, <1>4, <2>2
  <2>4. b \in served \ Blockable => alive'[b] = 0
    BY <1>2, <1>4
  <2>5. Announcement \in 0 .. Announcement
    BY DEF Announcement
  <2>6. CASE b \in served \ Blockable
    <3>1. announced'[b] = {Announcement}
      BY <1>5, <2>6
    <3> QED
      BY <2>1, <2>4, <2>5, <2>6, <3>1 DEF Alone
  <2>7. CASE b \notin served \ Blockable
    <3>1. announced'[b] = {}
      BY <1>5, <2>7
    <3> QED
      BY ONLY <2>1, <2>3, <3>1 DEF Alone
  <2> QED
    BY <2>6, <2>7
<1> QED
  BY <1>7, <1>8, <1>9 DEF SpawnIInv

(* What was announced comes, and is not announced any more.                  *)
LEMMA AnnouncedInv == ASSUME NEW b \in Block, SpawnIInv, SpawnAnnounced(b) PROVE SpawnIInv'
<1> USE SpawnAssumption DEF SpawnAssumption
<1>1. alive[b] = 0 /\ dead[b] = 0 /\ announced[b] = {0}
  BY DEF SpawnIInv, Alone, SpawnAnnounced
<1>2. /\ alive' \in [Block -> Nat]
      /\ \A c \in Block : alive'[c] <= alive[c] + 1
      /\ \A c \in Block \ {b} : alive'[c] = alive[c]
  BY SpawnAtAdds DEF SpawnIInv, SpawnTypeOK, SpawnAnnounced
<1>3. announced' = [announced EXCEPT ![b] = {}]
  BY <1>1 DEF SpawnAnnounced
<1>4. SpawnTypeOK'
  <2>1. announced' \in [Block -> SUBSET (0 .. Announcement)]
    BY <1>3 DEF SpawnIInv, SpawnTypeOK
  <2>2. age' \in [Block -> Nat] /\ \A c \in Block : age'[c] <= Interval[c]
    <3>1. /\ age \in [Block -> Nat]
          /\ \A c \in Block : age[c] <= Interval[c] /\ Interval[c] \in Nat
          /\ age' \in {age, [age EXCEPT ![b] = 0]}
      BY DEF SpawnIInv, SpawnTypeOK, SpawnAnnounced
    <3> QED
      BY ONLY <3>1, b \in Block
  <2>3. UNCHANGED <<dead, check, near, day, blocked, missed>>
    BY DEF SpawnAnnounced
  <2> QED
    BY <1>2, <2>1, <2>2, <2>3 DEF SpawnIInv, SpawnTypeOK
<1>5. ChecksWait'
  BY <1>3 DEF SpawnIInv, SpawnTypeOK, SpawnAnnounced, ChecksWait
<1>6. ASSUME NEW c \in Block PROVE Alone(c)'
  <2>1. CASE c = b
    <3>1. alive'[b] \in Nat /\ alive'[b] <= 1
      BY <1>1, <1>2
    <3>2. dead'[b] = 0 /\ announced'[b] = {}
      BY <1>1, <1>3 DEF SpawnIInv, SpawnTypeOK, SpawnAnnounced
    <3> QED
      BY ONLY <2>1, <3>1, <3>2 DEF Alone
  <2>2. CASE c # b
    BY <2>2, <1>2, <1>3 DEF SpawnIInv, SpawnTypeOK, SpawnAnnounced, Alone
  <2> QED
    BY <2>1, <2>2
<1> QED
  BY <1>4, <1>5, <1>6 DEF SpawnIInv

(* The times of what is announced and of the check get less by one.          *)
LEMMA TickInv == SpawnIInv /\ Tick => SpawnIInv'
<1> SUFFICES ASSUME SpawnIInv, Tick PROVE SpawnIInv'
  OBVIOUS
<1> USE SpawnAssumption DEF SpawnAssumption
<1>1. announced' = [b \in Block |-> {t - 1 : t \in announced[b]}]
  BY DEF Tick
<1>2. \A b \in Block : \A t \in announced[b] : t \in 1 .. Announcement
  BY DEF SpawnIInv, SpawnTypeOK, Tick, Announcement
<1>3. check' \in 0 .. CheckInterval \cup {NoCheck} /\ (check' # NoCheck => check' = check - 1)
  BY DEF SpawnIInv, SpawnTypeOK, Tick
<1>4. SpawnTypeOK'
  <2>1. announced' \in [Block -> SUBSET (0 .. Announcement)]
    BY <1>1, <1>2 DEF Announcement
  <2>2. age' \in [Block -> Nat] /\ \A b \in Block : age'[b] <= Interval[b]
    <3>1. age' = [b \in Block |-> IF age[b] < Interval[b] THEN age[b] + 1 ELSE age[b]]
      BY DEF Tick
    <3>2. \A b \in Block : age[b] \in Nat /\ Interval[b] \in Nat /\ age[b] <= Interval[b]
      BY DEF SpawnIInv, SpawnTypeOK
    <3> QED
      BY ONLY <3>1, <3>2
  <2> QED
    BY <1>3, <2>1, <2>2 DEF SpawnIInv, SpawnTypeOK, Tick
<1>5. ChecksWait'
  <2> SUFFICES ASSUME NEW b \in Block, NEW t \in announced'[b], check' # NoCheck
               PROVE  t < check'
    BY DEF ChecksWait
  <2>1. PICK s \in announced[b] : t = s - 1
    BY <1>1
  <2>2. check # NoCheck /\ check \in Nat
    BY <1>3 DEF SpawnIInv, SpawnTypeOK, Tick
  <2>3. s < check
    BY <2>2 DEF SpawnIInv, ChecksWait
  <2>4. s \in Nat /\ check' = check - 1
    BY <1>2, <1>3, <2>1
  <2> QED
    BY ONLY <2>1, <2>2, <2>3, <2>4
<1>6. ASSUME NEW b \in Block PROVE Alone(b)'
  <2>1. Alone(b) /\ UNCHANGED <<alive, dead>>
    BY DEF SpawnIInv, Tick
  <2>2. CASE announced[b] = {}
    BY <1>1, <2>1, <2>2 DEF Alone
  <2>3. CASE announced[b] # {}
    <3>1. PICK t \in 0 .. Announcement : announced[b] = {t}
      BY <2>1, <2>3 DEF Alone
    <3>2. announced'[b] = {t - 1}
      BY ONLY <1>1, <3>1
    <3>3. t \in 1 .. Announcement
      BY ONLY <1>2, <3>1
    <3>4. t - 1 \in 0 .. Announcement
      BY <3>3 DEF Announcement
    <3> QED
      BY <2>1, <2>3, <3>2, <3>4 DEF Alone
  <2> QED
    BY <2>2, <2>3
<1> QED
  BY <1>4, <1>5, <1>6 DEF SpawnIInv

-----------------------------------------------------------------------------
(* The invariant holds in every state of the spawn.                          *)
THEOREM SpawnInvariance == SpawnSpec => []SpawnIInv
<1>1. SpawnIInv /\ [SpawnNext]_spawnVars => SpawnIInv'
  <2> SUFFICES ASSUME SpawnIInv, [SpawnNext]_spawnVars PROVE SpawnIInv'
    OBVIOUS
  <2>1. CASE CheckSpawn
    BY <2>1, CheckInv
  <2>2. CASE Tick
    BY <2>2, TickInv
  <2>3. CASE Surroundings
    <3>1. UNCHANGED <<alive, dead, age, check, announced, missed>>
      BY <2>3 DEF Surroundings
    <3>2. near' \subseteq Blockable /\ blocked' \subseteq Block /\ day' \in BOOLEAN
      BY <2>3 DEF SpawnIInv, SpawnTypeOK, Surroundings
    <3> QED
      BY <3>1, <3>2 DEF SpawnIInv, SpawnTypeOK, ChecksWait, Alone
  <2>4. ASSUME NEW b \in Block, MonsterRemoved(b) PROVE SpawnIInv'
    BY <2>4, RemovedInv
  <2>5. ASSUME NEW b \in Block, SpawnAnnounced(b) PROVE SpawnIInv'
    BY <2>5, AnnouncedInv
  <2>6. CASE UNCHANGED spawnVars
    BY <2>6 DEF SpawnIInv, spawnVars, SpawnTypeOK, ChecksWait, Alone
  <2> QED
    BY <2>1, <2>2, <2>3, <2>4, <2>5, <2>6 DEF SpawnNext
<1> QED
  BY SpawnInitInv, <1>1, PTL DEF SpawnSpec

(* checkSpawn, scheduleSpawn and the deaths between them never leave a block *)
(* with two monsters, when spawn times are longer than an announcement.      *)
THEOREM OneEach == SpawnSpec => []OneMonsterEach
<1>1. ASSUME SpawnIInv, NEW b \in Block
      PROVE  alive[b] + dead[b] + Cardinality(announced[b]) <= 1
  <2>1. Alone(b) /\ alive[b] \in Nat /\ dead[b] \in Nat
    BY <1>1 DEF SpawnIInv, SpawnTypeOK
  <2>2. CASE announced[b] = {}
    BY <2>1, <2>2, FS_EmptySet DEF Alone
  <2>3. CASE announced[b] # {}
    <3>1. alive[b] = 0 /\ dead[b] = 0 /\ \E t : announced[b] = {t}
      BY <2>1, <2>3 DEF Alone
    <3>2. Cardinality(announced[b]) = 1
      BY <3>1, FS_Singleton
    <3> QED
      BY <3>1, <3>2
  <2> QED
    BY <2>2, <2>3
<1>2. SpawnIInv => SpawnTypeOK
  BY DEF SpawnIInv
<1>3. SpawnIInv => OneMonsterEach
  BY <1>1, <1>2 DEF OneMonsterEach
<1> QED
  BY <1>3, SpawnInvariance, PTL
-----------------------------------------------------------------------------
(* Raids.                                                                    *)

Loaded == Name \X (1 .. load)

OfLoaded(step) == step # Check => step.raid \in Loaded

Types ==
  /\ load \in 1 .. MaxLoad
  /\ raidList \subseteq Name
  /\ nextEvent \in [Raid -> Nat]
  /\ eventOf \in [Raid -> EventId \cup {0}]
  /\ \A e \in DOMAIN scheduled : OfLoaded(scheduled[e])
  /\ \A e \in DOMAIN tasks : OfLoaded(tasks[e])
  /\ outlived \in BOOLEAN

(* An event is with the scheduler or with the dispatcher.                    *)
Apart == DOMAIN scheduled \cap DOMAIN tasks = {}

(* What the file will be loaded to has not run.                              *)
NotYetRun == \A r \in Raid : r[2] > load => nextEvent[r] = 0

(* OneRaid, and the raid knows its event.                                    *)
OneStep ==
  /\ \A e, f \in Steps : e = f
  /\ \A e \in Steps : StepAt(e).raid = running /\ StepAt(e).index = nextEvent[running]
  /\ running # NoRaid => Steps # {}
  /\ \A n \in Name : <<n, load>> # running => nextEvent[<<n, load>>] = 0
  /\ \A e \in DOMAIN scheduled : scheduled[e] # Check => eventOf[scheduled[e].raid] = e

RaidIInv == Types /\ Apart /\ NotYetRun /\ (~outlived => OneStep)

(* A new event has the identifier of no other.                               *)
LEMMA FreshIsNew ==
  ASSUME NEW events, NEW e \in Fresh(events)
  PROVE  e \in EventId /\ e \notin DOMAIN events /\ e \notin DOMAIN tasks
  BY DEF Fresh

(* A raid is not "no raid".                                                  *)
LEMMA LoadedRaids == Types => Loaded \subseteq Raid /\ NoRaid \notin Raid
  BY RaidAssumption DEF RaidAssumption, Types, Loaded, Raid

(* While no raid runs, none has a step.                                      *)
LEMMA NoSteps == RaidIInv /\ ~outlived /\ running = NoRaid => Steps = {}
<1> SUFFICES ASSUME RaidIInv, ~outlived, running = NoRaid, NEW e \in Steps PROVE FALSE
  OBVIOUS
<1>1. StepAt(e).raid = NoRaid
  BY DEF RaidIInv, OneStep
<1>2. StepAt(e) # Check /\ OfLoaded(StepAt(e))
  BY DEF RaidIInv, Types, Steps, StepAt, Apart
<1> QED
  BY <1>1, <1>2, LoadedRaids DEF RaidIInv, OfLoaded

(* The invariant holds when the file has been loaded.                        *)
LEMMA RaidInitInv == RaidInit => RaidIInv
<1> SUFFICES ASSUME RaidInit PROVE RaidIInv
  OBVIOUS
<1>1. DOMAIN scheduled = {1} /\ scheduled[1] = Check /\ DOMAIN tasks = {}
  BY DEF RaidInit
<1>2. Steps = {}
  BY <1>1 DEF Steps
<1>3. Types
  <2>1. load \in 1 .. MaxLoad
    BY RaidAssumption DEF RaidAssumption, RaidInit
  <2>2. raidList \subseteq Name /\ outlived \in BOOLEAN
    BY DEF RaidInit
  <2>3. nextEvent \in [Raid -> Nat] /\ eventOf \in [Raid -> EventId \cup {0}]
    BY DEF RaidInit
  <2>4. /\ \A e \in DOMAIN scheduled : OfLoaded(scheduled[e])
        /\ \A e \in DOMAIN tasks : OfLoaded(tasks[e])
    BY <1>1 DEF OfLoaded
  <2> QED
    BY <2>1, <2>2, <2>3, <2>4 DEF Types
<1>4. Apart /\ NotYetRun
  BY <1>1 DEF Apart, NotYetRun, RaidInit
<1>5. OneStep
  <2>1. \A n \in Name : nextEvent[<<n, load>>] = 0
    BY RaidAssumption DEF RaidAssumption, RaidInit, Raid
  <2> QED
    BY <1>1, <1>2, <2>1 DEF OneStep, RaidInit
<1> QED
  BY <1>3, <1>4, <1>5 DEF RaidIInv

-----------------------------------------------------------------------------
(* An event that becomes a task is the same step, and the raid forgets it.   *)
LEMMA EventDueInv == ASSUME NEW e \in EventId, RaidIInv, EventDue(e) PROVE RaidIInv'
<1>1. /\ e \in DOMAIN scheduled
      /\ DOMAIN scheduled' = DOMAIN scheduled \ {e}
      /\ \A f \in DOMAIN scheduled' : scheduled'[f] = scheduled[f]
  BY DEF EventDue, RemoveEvents
<1>2. /\ DOMAIN tasks' = DOMAIN tasks \cup {e}
      /\ tasks'[e] = scheduled[e]
      /\ \A f \in DOMAIN tasks : tasks'[f] = tasks[f]
  <2>1. e \notin DOMAIN tasks
    BY <1>1 DEF RaidIInv, Apart
  <2> QED
    BY <2>1 DEF EventDue, AddEvent
<1>3. UNCHANGED <<load, raidList, running, nextEvent, outlived>>
  BY DEF EventDue
<1>4. eventOf' = [r \in Raid |-> IF eventOf[r] = e THEN 0 ELSE eventOf[r]]
  BY DEF EventDue
<1>5. Types'
  <2>1. \A step : OfLoaded(step)' = OfLoaded(step)
    BY <1>3 DEF OfLoaded, Loaded, Check
  <2>2. /\ \A f \in DOMAIN scheduled' : OfLoaded(scheduled'[f])
        /\ \A f \in DOMAIN tasks' : OfLoaded(tasks'[f])
    BY <1>1, <1>2 DEF RaidIInv, Types
  <2>3. eventOf' \in [Raid -> EventId \cup {0}]
    BY <1>4 DEF RaidIInv, Types
  <2> QED
    BY <1>3, <2>1, <2>2, <2>3 DEF RaidIInv, Types
<1>6. Apart'
  BY <1>1, <1>2 DEF RaidIInv, Apart
<1>7. NotYetRun'
  BY <1>3 DEF RaidIInv, NotYetRun
<1>8. ASSUME ~outlived' PROVE OneStep'
  <2>1. OneStep
    BY <1>3, <1>8 DEF RaidIInv
  <2>2. \A f : f \in Steps' <=> f \in Steps
    BY <1>1, <1>2 DEF Steps, Check
  <2>3. \A f \in Steps : StepAt(f)' = StepAt(f)
    BY <1>1, <1>2 DEF RaidIInv, Apart, Steps, StepAt
  <2>4. ASSUME NEW f \in DOMAIN scheduled', scheduled'[f] # Check
        PROVE  eventOf'[scheduled'[f].raid] = f
    <3>1. f # e /\ f \in DOMAIN scheduled /\ scheduled'[f] = scheduled[f]
      BY <1>1
    <3>2. scheduled[f].raid \in Raid
      BY <2>4, <3>1, LoadedRaids DEF RaidIInv, Types, OfLoaded, Check
    <3>3. eventOf[scheduled[f].raid] = f
      BY <2>1, <2>4, <3>1 DEF OneStep, Check
    <3> QED
      BY <1>4, <3>1, <3>2, <3>3
  <2> QED
    BY <1>3, <2>1, <2>2, <2>3, <2>4 DEF OneStep, Check
<1> QED
  BY <1>5, <1>6, <1>7, <1>8 DEF RaidIInv

(* Nothing happens to the raids.                                             *)
LEMMA OnlyChecksInv ==
  ASSUME RaidIInv,
         UNCHANGED <<load, running, nextEvent, eventOf, outlived>>,
         raidList' \subseteq Name,
         \A e \in DOMAIN scheduled' :
           scheduled'[e] = Check \/ (e \in DOMAIN scheduled /\ scheduled'[e] = scheduled[e]),
         \A e \in DOMAIN scheduled :
           scheduled[e] # Check => e \in DOMAIN scheduled' /\ scheduled'[e] = scheduled[e],
         \A e \in DOMAIN tasks' : e \in DOMAIN tasks /\ tasks'[e] = tasks[e],
         \A e \in DOMAIN tasks :
           tasks[e] # Check => e \in DOMAIN tasks' /\ tasks'[e] = tasks[e],
         Apart'
  PROVE  RaidIInv'
<1>1. \A step : OfLoaded(step)' = OfLoaded(step)
  BY DEF OfLoaded, Loaded, Check
<1>2. OfLoaded(Check)
  BY DEF OfLoaded
<1>3. Types'
  BY <1>1, <1>2 DEF RaidIInv, Types
<1>4. NotYetRun'
  BY DEF RaidIInv, NotYetRun
<1>5. ASSUME ~outlived' PROVE OneStep'
  <2>1. OneStep
    BY <1>5 DEF RaidIInv
  <2>2. \A e : e \in Steps' <=> e \in Steps
    BY DEF Steps, Check
  <2>3. \A e \in Steps : StepAt(e)' = StepAt(e)
    BY DEF RaidIInv, Apart, Steps, StepAt, Check
  <2>4. \A e \in DOMAIN scheduled' :
          scheduled'[e] # Check => eventOf'[scheduled'[e].raid] = e
    BY <2>1 DEF OneStep
  <2> QED
    BY <2>1, <2>2, <2>3, <2>4 DEF OneStep, Check
<1> QED
  BY <1>3, <1>4, <1>5 DEF RaidIInv

(* A raid starts, with its first event, while none runs.                     *)
LEMMA StartInv ==
  ASSUME RaidIInv, running = NoRaid, NEW n \in raidList, NEW events,
         \A e \in DOMAIN events :
           events[e] = Check \/ (e \in DOMAIN scheduled /\ events[e] = scheduled[e]),
         DOMAIN events \cap DOMAIN tasks = {},
         \A e \in DOMAIN tasks' : e \in DOMAIN tasks /\ tasks'[e] = tasks[e],
         UNCHANGED <<load, nextEvent, outlived>>,
         raidList' \subseteq Name,
         StartRaid(<<n, load>>, events)
  PROVE  RaidIInv'
<1> DEFINE r == <<n, load>>
<1>1. r \in Loaded /\ r \in Raid /\ r # NoRaid
  BY RaidAssumption, LoadedRaids DEF RaidAssumption, RaidIInv, Types, Loaded
<1>2. \A step : OfLoaded(step)' = OfLoaded(step)
  BY DEF OfLoaded, Loaded, Check
<1>3. \A e \in DOMAIN events : OfLoaded(events[e])
  BY DEF RaidIInv, Types, OfLoaded
<1>4. running' = r
  BY DEF StartRaid
<1>5. NotYetRun'
  BY DEF RaidIInv, NotYetRun
<1>6. CASE ~(nextEvent[r] < Length[n])
  <2>1. scheduled' = events /\ eventOf' = eventOf
    BY <1>6 DEF StartRaid
  <2>2. Types' /\ Apart'
    BY <1>2, <1>3, <2>1 DEF RaidIInv, Types, Apart
  <2>3. outlived
    <3>1. Length[n] \in Nat \ {0} /\ n \in Name
      BY RaidAssumption DEF RaidAssumption, RaidIInv, Types
    <3>2. nextEvent[r] # 0
      BY <1>6, <3>1
    <3> QED
      BY <1>1, <3>1, <3>2 DEF RaidIInv, OneStep
  <2> QED
    BY <1>5, <2>2, <2>3 DEF RaidIInv
<1>7. CASE nextEvent[r] < Length[n]
  <2> DEFINE step == [raid |-> r, index |-> nextEvent[r]]
  <2>1. PICK e \in Fresh(events) :
          /\ eventOf' = [eventOf EXCEPT ![r] = e]
          /\ scheduled' = AddEvent(events, e, step)
    BY <1>7 DEF StartRaid
  <2>2. e \in EventId /\ e \notin DOMAIN events /\ e \notin DOMAIN tasks
    BY FreshIsNew
  <2>3. /\ DOMAIN scheduled' = DOMAIN events \cup {e}
        /\ scheduled'[e] = step
        /\ \A f \in DOMAIN events : scheduled'[f] = events[f]
    BY <2>1, <2>2 DEF AddEvent
  <2>4. step # Check /\ OfLoaded(step)
    BY <1>1 DEF Check, OfLoaded
  <2>5. Types'
    <3>1. \A f \in DOMAIN scheduled' : OfLoaded(scheduled'[f])
      BY <1>3, <2>3, <2>4
    <3>2. eventOf' \in [Raid -> EventId \cup {0}]
      BY <2>1, <2>2 DEF RaidIInv, Types
    <3>3. \A f \in DOMAIN tasks' : OfLoaded(tasks'[f])
      BY DEF RaidIInv, Types
    <3> QED
      BY <1>2, <3>1, <3>2, <3>3 DEF RaidIInv, Types
  <2>6. Apart'
    BY <2>2, <2>3 DEF Apart
  <2>7. ASSUME ~outlived' PROVE OneStep'
    <3>1. Steps = {}
      BY <2>7, NoSteps
    <3>2. /\ \A f \in DOMAIN events : events[f] = Check
          /\ \A f \in DOMAIN tasks' : tasks'[f] = Check
      BY <3>1 DEF Steps
    <3>3. Steps' = {e}
      BY <2>3, <2>4, <3>2 DEF Steps, Check
    <3>4. StepAt(e)' = step
      BY <2>3 DEF StepAt
    <3>5. \A m \in Name : <<m, load>> # r => nextEvent[<<m, load>>] = 0
      <4>1. \A m \in Name : <<m, load>> # NoRaid
        BY RaidAssumption DEF RaidAssumption, RaidIInv, Types
      <4> QED
        BY <2>7, <4>1 DEF RaidIInv, OneStep
    <3>6. \A f \in DOMAIN scheduled' :
            scheduled'[f] # Check => eventOf'[scheduled'[f].raid] = f
      BY <1>1, <2>1, <2>3, <3>2 DEF RaidIInv, Types
    <3> QED
      BY <1>1, <1>4, <3>3, <3>4, <3>5, <3>6 DEF OneStep, Check
  <2> QED
    BY <1>5, <2>5, <2>6, <2>7 DEF RaidIInv
<1> QED
  BY <1>6, <1>7

(* A raid started by a script keeps the invariant.                          *)
LEMMA LuaStartInv == ASSUME NEW n \in Name, RaidIInv, LuaStartRaid(n) PROVE RaidIInv'
<1>1. DOMAIN scheduled \cap DOMAIN tasks = {} /\ raidList' \subseteq Name
  BY DEF LuaStartRaid, RaidIInv, Apart, Types
<1>2. /\ n \in raidList /\ running = NoRaid
      /\ StartRaid(<<n, load>>, scheduled)
      /\ UNCHANGED <<load, nextEvent, outlived, tasks>>
  BY DEF LuaStartRaid
<1> QED
  BY <1>1, <1>2, StartInv

(* A check puts itself on again, and may start a raid.                       *)
LEMMA CheckRaidsInv == ASSUME NEW t \in EventId, RaidIInv, CheckRaids(t) PROVE RaidIInv'
<1>1. /\ t \in DOMAIN tasks /\ tasks[t] = Check
      /\ DOMAIN tasks' = DOMAIN tasks \ {t}
      /\ \A e \in DOMAIN tasks' : tasks'[e] = tasks[e]
      /\ UNCHANGED <<load, nextEvent, outlived>>
  BY DEF CheckRaids, RemoveEvents
<1> DEFINE Events(c) == AddEvent(scheduled, c, Check)
<1>2. PICK c \in Fresh(scheduled) :
        \/ /\ scheduled' = Events(c)
           /\ UNCHANGED <<running, raidList, eventOf>>
        \/ /\ running = NoRaid
           /\ \E n \in raidList :
                /\ StartRaid(<<n, load>>, Events(c))
                /\ raidList' = IF n \in Repeated THEN raidList ELSE raidList \ {n}
  BY DEF CheckRaids
<1>3. c \notin DOMAIN scheduled /\ c \notin DOMAIN tasks
  BY FreshIsNew
<1>4. /\ DOMAIN Events(c) = DOMAIN scheduled \cup {c}
      /\ Events(c)[c] = Check
      /\ \A e \in DOMAIN scheduled : Events(c)[e] = scheduled[e]
  BY <1>3 DEF AddEvent
<1>5. DOMAIN Events(c) \cap DOMAIN tasks = {}
  BY <1>3, <1>4 DEF RaidIInv, Apart
<1> HIDE DEF Events
<1>6. CASE scheduled' = Events(c) /\ UNCHANGED <<running, raidList, eventOf>>
  <2>1. Apart'
    BY <1>1, <1>5, <1>6 DEF Apart
  <2>2. raidList' \subseteq Name
    BY <1>6 DEF RaidIInv, Types
  <2>3. /\ \A e \in DOMAIN scheduled' :
             scheduled'[e] = Check \/ (e \in DOMAIN scheduled /\ scheduled'[e] = scheduled[e])
        /\ \A e \in DOMAIN scheduled :
             scheduled[e] # Check => e \in DOMAIN scheduled' /\ scheduled'[e] = scheduled[e]
    BY <1>4, <1>6
  <2>4. /\ \A e \in DOMAIN tasks' : e \in DOMAIN tasks /\ tasks'[e] = tasks[e]
        /\ \A e \in DOMAIN tasks :
             tasks[e] # Check => e \in DOMAIN tasks' /\ tasks'[e] = tasks[e]
    BY <1>1
  <2> QED
    BY <1>1, <1>6, <2>1, <2>2, <2>3, <2>4, OnlyChecksInv
<1>7. ASSUME running = NoRaid,
             NEW n \in raidList,
             StartRaid(<<n, load>>, Events(c)),
             raidList' = IF n \in Repeated THEN raidList ELSE raidList \ {n}
      PROVE  RaidIInv'
  <2>1. raidList' \subseteq Name
    BY <1>7 DEF RaidIInv, Types
  <2>2. \A e \in DOMAIN Events(c) :
          Events(c)[e] = Check \/ (e \in DOMAIN scheduled /\ Events(c)[e] = scheduled[e])
    BY <1>4
  <2>3. \A e \in DOMAIN tasks' : e \in DOMAIN tasks /\ tasks'[e] = tasks[e]
    BY <1>1
  <2> QED
    BY <1>1, <1>5, <1>7, <2>1, <2>2, <2>3, StartInv
<1> QED
  BY <1>2, <1>6, <1>7

(* The event of a raid is its only step; another may follow.                 *)
LEMMA ExecuteInv == ASSUME NEW t \in EventId, RaidIInv, ExecuteRaidEvent(t) PROVE RaidIInv'
<1> DEFINE r == tasks[t].raid
           next == nextEvent[r] + 1
<1>1. /\ t \in DOMAIN tasks /\ tasks[t] # Check
      /\ DOMAIN tasks' = DOMAIN tasks \ {t}
      /\ \A e \in DOMAIN tasks' : tasks'[e] = tasks[e]
      /\ UNCHANGED <<load, raidList, outlived>>
  BY DEF ExecuteRaidEvent, RemoveEvents
<1>2. r \in Loaded /\ r \in Raid /\ next \in Nat
  BY <1>1, LoadedRaids DEF RaidIInv, Types, OfLoaded
<1>3. t \in Steps /\ t \notin DOMAIN scheduled /\ StepAt(t) = tasks[t]
  BY <1>1 DEF Steps, StepAt, RaidIInv, Apart
<1>4. ASSUME ~outlived'
      PROVE  /\ r = running
             /\ \A e \in DOMAIN scheduled : scheduled[e] = Check
             /\ \A e \in DOMAIN tasks' : tasks'[e] = Check
             /\ \A m \in Name : <<m, load>> # r => nextEvent[<<m, load>>] = 0
  <2>1. OneStep
    BY <1>1, <1>4 DEF RaidIInv
  <2>2. Steps = {t} /\ r = running
    BY <1>3, <2>1 DEF OneStep
  <2>3. \A e \in DOMAIN scheduled : scheduled[e] = Check
    BY <1>3, <2>2 DEF Steps
  <2>4. \A e \in DOMAIN tasks' : tasks'[e] = Check
    BY <1>1, <2>2 DEF Steps
  <2> QED
    BY <2>1, <2>2, <2>3, <2>4 DEF OneStep
<1>5. \A step : OfLoaded(step)' = OfLoaded(step)
  BY <1>1 DEF OfLoaded, Loaded, Check
<1>6. /\ \A e \in DOMAIN tasks' : OfLoaded(tasks'[e])
      /\ \A e \in DOMAIN scheduled : OfLoaded(scheduled[e])
  BY <1>1 DEF RaidIInv, Types
<1>7. ASSUME NEW v \in Nat, nextEvent' = [nextEvent EXCEPT ![r] = v]
      PROVE  nextEvent' \in [Raid -> Nat] /\ NotYetRun'
  <2>1. r[2] <= load
    BY <1>2 DEF Loaded, RaidIInv, Types
  <2>2. load \in Nat /\ r[2] \in Nat
    BY <1>2 DEF Loaded, RaidIInv, Types
  <2> QED
    BY <1>1, <1>2, <1>7, <2>1, <2>2 DEF RaidIInv, Types, NotYetRun
<1>8. ASSUME nextEvent' = [nextEvent EXCEPT ![r] = next],
             NEW e \in Fresh(scheduled),
             eventOf' = [eventOf EXCEPT ![r] = e],
             scheduled' = AddEvent(scheduled, e, [raid |-> r, index |-> next]),
             UNCHANGED running
      PROVE  RaidIInv'
  <2> DEFINE step == [raid |-> r, index |-> next]
  <2>1. e \in EventId /\ e \notin DOMAIN scheduled /\ e \notin DOMAIN tasks
    BY FreshIsNew
  <2>2. /\ DOMAIN scheduled' = DOMAIN scheduled \cup {e}
        /\ scheduled'[e] = step
        /\ \A f \in DOMAIN scheduled : scheduled'[f] = scheduled[f]
    BY <1>8, <2>1 DEF AddEvent
  <2>3. step # Check /\ OfLoaded(step)
    BY <1>2, LoadedRaids DEF Check, OfLoaded, RaidIInv
  <2>4. Types'
    <3>1. eventOf' \in [Raid -> EventId \cup {0}]
      BY <1>8, <2>1 DEF RaidIInv, Types
    <3>2. \A f \in DOMAIN scheduled' : OfLoaded(scheduled'[f])
      BY <1>6, <2>2, <2>3
    <3> QED
      BY <1>1, <1>2, <1>5, <1>6, <1>7, <1>8, <3>1, <3>2 DEF RaidIInv, Types
  <2>5. Apart'
    BY <1>1, <2>1, <2>2 DEF RaidIInv, Apart
  <2>6. NotYetRun'
    BY <1>2, <1>7, <1>8
  <2>7. ASSUME ~outlived' PROVE OneStep'
    <3>1. Steps' = {e}
      BY <1>4, <2>2, <2>3, <2>7 DEF Steps, Check
    <3>2. StepAt(e)' = step
      BY <2>2 DEF StepAt
    <3>3. running' = r /\ nextEvent'[r] = next
      BY <1>2, <1>4, <1>8, <2>7 DEF RaidIInv, Types
    <3>4. ASSUME NEW m \in Name, <<m, load>>' # running'
          PROVE  nextEvent'[<<m, load>>'] = 0
      <4>1. <<m, load>> # r /\ <<m, load>> \in Raid /\ load' = load
        BY <1>1, <3>3, <3>4 DEF RaidIInv, Types, Raid
      <4>2. nextEvent[<<m, load>>] = 0
        BY <1>4, <2>7, <4>1
      <4> QED
        BY <1>8, <4>1, <4>2 DEF RaidIInv, Types
    <3>5. \A f \in DOMAIN scheduled' :
            scheduled'[f] # Check => eventOf'[scheduled'[f].raid] = f
      BY <1>2, <1>4, <1>8, <2>2, <2>7 DEF RaidIInv, Types
    <3> QED
      BY <3>1, <3>2, <3>3, <3>4, <3>5 DEF OneStep, Check
  <2> QED
    BY <2>4, <2>5, <2>6, <2>7 DEF RaidIInv
<1>9. ASSUME nextEvent' = [nextEvent EXCEPT ![r] = 0],
             running' = NoRaid,
             UNCHANGED <<eventOf, scheduled>>
      PROVE  RaidIInv'
  <2>1. Types'
    BY <1>1, <1>5, <1>6, <1>7, <1>9 DEF RaidIInv, Types
  <2>2. Apart'
    BY <1>1, <1>9 DEF RaidIInv, Apart
  <2>3. NotYetRun'
    BY <1>7, <1>9
  <2>4. ASSUME ~outlived' PROVE OneStep'
    <3>1. Steps' = {}
      BY <1>4, <1>9, <2>4 DEF Steps, Check
    <3>2. ASSUME NEW m \in Name PROVE nextEvent'[<<m, load>>'] = 0
      <4>1. <<m, load>> \in Raid /\ load' = load
        BY <1>1 DEF RaidIInv, Types, Raid
      <4> QED
        BY <1>2, <1>4, <1>9, <2>4, <4>1 DEF RaidIInv, Types
    <3>3. \A f \in DOMAIN scheduled' : scheduled'[f] = Check
      BY <1>4, <1>9, <2>4
    <3> QED
      BY <1>9, <3>1, <3>2, <3>3 DEF OneStep, Check
  <2> QED
    BY <2>1, <2>2, <2>3, <2>4 DEF RaidIInv
<1> QED
  BY <1>8, <1>9 DEF ExecuteRaidEvent

(* A reload that leaves nothing has stopped the step of the raid that ran.   *)
LEMMA ReloadInv == RaidIInv /\ Reload => RaidIInv'
<1> SUFFICES ASSUME RaidIInv, Reload PROVE RaidIInv'
  OBVIOUS
<1>1. PICK c \in Fresh(scheduled) :
        scheduled' = AddEvent(RemoveEvents(scheduled, Stopped), c, Check)
  BY DEF Reload
<1>2. c \notin DOMAIN scheduled /\ c \notin DOMAIN tasks
  BY FreshIsNew
<1>3. /\ DOMAIN scheduled' = (DOMAIN scheduled \ Stopped) \cup {c}
      /\ scheduled'[c] = Check
      /\ \A e \in DOMAIN scheduled \ Stopped : scheduled'[e] = scheduled[e]
  BY <1>1, <1>2 DEF AddEvent, RemoveEvents
<1>4. load \in Nat /\ load' = load + 1 /\ load' \in 1 .. MaxLoad /\ running' = NoRaid
  BY RaidAssumption DEF RaidAssumption, RaidIInv, Types, Reload
<1>5. raidList' = Name /\ UNCHANGED <<nextEvent, tasks>>
  BY DEF Reload
<1>6. Types'
  <2>1. \A step : OfLoaded(step) => OfLoaded(step)'
    BY <1>4 DEF OfLoaded, Loaded, Check
  <2>2. OfLoaded(Check)
    BY DEF OfLoaded
  <2>3. /\ \A e \in DOMAIN scheduled' : OfLoaded(scheduled'[e])
        /\ \A e \in DOMAIN tasks : OfLoaded(tasks[e])
    BY <1>3, <2>2 DEF RaidIInv, Types
  <2>4. eventOf' \in [Raid -> EventId \cup {0}] /\ outlived' \in BOOLEAN
    BY DEF Reload, RaidIInv, Types
  <2> QED
    BY <1>4, <1>5, <2>1, <2>3, <2>4 DEF RaidIInv, Types
<1>7. Apart'
  BY <1>2, <1>3, <1>5 DEF RaidIInv, Apart
<1>8. NotYetRun'
  BY <1>4, <1>5 DEF RaidIInv, NotYetRun, Raid
<1>9. ASSUME ~outlived' PROVE OneStep'
  <2>1. /\ ~outlived
        /\ DOMAIN tasks = {}
        /\ \A e \in DOMAIN scheduled :
             scheduled[e] # Check => scheduled[e].raid \in raidList \X {load}
    BY <1>9 DEF Reload
  <2>2. \A e \in DOMAIN scheduled : scheduled[e] # Check => e \in Stopped
    BY <2>1 DEF RaidIInv, OneStep, Stopped
  <2>3. \A e \in DOMAIN scheduled' : scheduled'[e] = Check
    BY <1>3, <2>2
  <2>4. Steps' = {}
    BY <1>5, <2>1, <2>3 DEF Steps, Check
  <2>5. ASSUME NEW n \in Name PROVE nextEvent'[<<n, load>>'] = 0
    <3>1. <<n, load'>> \in Raid /\ <<n, load'>>[2] > load
      BY <1>4 DEF Raid
    <3> QED
      BY <1>5, <3>1 DEF RaidIInv, NotYetRun
  <2> QED
    BY <1>4, <2>3, <2>4, <2>5 DEF OneStep, Check
<1> QED
  BY <1>6, <1>7, <1>8, <1>9 DEF RaidIInv

-----------------------------------------------------------------------------
(* The invariant holds in every state of the raids.                          *)
THEOREM RaidInvariance == RaidSpec => []RaidIInv
<1>1. RaidIInv /\ [RaidNext]_raidVars => RaidIInv'
  <2> SUFFICES ASSUME RaidIInv, [RaidNext]_raidVars PROVE RaidIInv'
    OBVIOUS
  <2>1. ASSUME NEW e \in EventId, EventDue(e) PROVE RaidIInv'
    BY <2>1, EventDueInv
  <2>2. ASSUME NEW e \in EventId, CheckRaids(e) PROVE RaidIInv'
    BY <2>2, CheckRaidsInv
  <2>3. ASSUME NEW e \in EventId, ExecuteRaidEvent(e) PROVE RaidIInv'
    BY <2>3, ExecuteInv
  <2>4. ASSUME NEW n \in Name, LuaStartRaid(n) PROVE RaidIInv'
    BY <2>4, LuaStartInv
  <2>5. CASE Reload
    BY <2>5, ReloadInv
  <2>6. CASE UNCHANGED raidVars
    BY <2>6 DEF raidVars, RaidIInv, Types, Apart, NotYetRun, OneStep, OfLoaded, Loaded,
                Steps, StepAt, Check
  <2> QED
    BY <2>1, <2>2, <2>3, <2>4, <2>5, <2>6 DEF RaidNext
<1> QED
  BY RaidInitInv, <1>1, PTL DEF RaidSpec

(* checkRaids, the scripts and executeRaidEvent keep one raid at a time, and *)
(* a reload does too if it can stop its event.                               *)
THEOREM OneAtATime == RaidSpec => []OneRaid
<1>1. RaidIInv => OneRaid
  <2> SUFFICES ASSUME RaidIInv, ~outlived
               PROVE  /\ Cardinality(Steps) <= 1
                      /\ \A e \in Steps : /\ StepAt(e).raid = running
                                          /\ StepAt(e).index = nextEvent[running]
                      /\ running # NoRaid => Steps # {}
                      /\ \A n \in Name : <<n, load>> # running => nextEvent[<<n, load>>] = 0
    BY DEF OneRaid
  <2>1. Steps = {} \/ \E e : Steps = {e}
    BY DEF RaidIInv, OneStep
  <2>2. Cardinality(Steps) <= 1
    BY <2>1, FS_EmptySet, FS_Singleton
  <2> QED
    BY <2>2 DEF RaidIInv, OneStep
<1> QED
  BY <1>1, RaidInvariance, PTL

-----------------------------------------------------------------------------
(* The database connection.                                                  *)

(* Only a save that has begun has a transaction or misses one that is gone.  *)
OneTransaction ==
  /\ open => up /\ ~gone /\ saver # "idle"
  /\ gone => saver # "idle"
  /\ ~open => view = stored
  /\ ~cut => ~gone /\ (saver # "idle" => open)

(* What the connection sees differs from what is stored in the rows that the *)
(* save has written.                                                         *)
SaveProgress ==
  ~cut => \A r \in 1 .. Rows :
    view.row[r] = IF saver = "locked" /\ r <= statement THEN version ELSE stored.row[r]

(* The runs of a query.                                                      *)
RunsOf(q) ==
  /\ stored.runs[q] <= view.runs[q]
  /\ q \notin again => view.runs[q] <= IF q \in reported THEN 1 ELSE 0
  /\ q \in reported /\ q \notin caught => stored.runs[q] >= 1

RunsCounted == \A q \in Query : RunsOf(q)

DbIInv ==
  /\ TransactionTypeOK
  /\ OneTransaction
  /\ SaveProgress
  /\ SavesAreWhole
  /\ RunsCounted

(* The invariant holds at the beginning.                                     *)
LEMMA DbInitInv == TransactionInit => DbIInv
<1> SUFFICES ASSUME TransactionInit PROVE DbIInv
  OBVIOUS
<1> USE TransactionAssumption DEF TransactionAssumption, TransactionInit
<1>1. TransactionTypeOK
  <2>1. [r \in 1 .. Rows |-> 0] \in [1 .. Rows -> 0 .. MaxSave]
    OBVIOUS
  <2>2. [q \in Query |-> 0] \in [Query -> Nat]
    OBVIOUS
  <2>3. view \in Content /\ stored \in Content
    BY <2>1, <2>2 DEF Content
  <2>4. Flags
    BY DEF Flags
  <2>5. Counters
    BY DEF Counters
  <2> QED
    BY <2>3, <2>4, <2>5 DEF TransactionTypeOK
<1>2. OneTransaction /\ SaveProgress /\ SavesAreWhole /\ RunsCounted
  BY DEF OneTransaction, SaveProgress, SavesAreWhole, RunsCounted, RunsOf
<1> QED
  BY <1>1, <1>2 DEF DbIInv

(* BEGIN has nothing to commit.                                              *)
LEMMA BeginInv == DbIInv /\ BeginTransaction => DbIInv'
<1> SUFFICES ASSUME DbIInv, BeginTransaction PROVE DbIInv'
  OBVIOUS
<1> USE TransactionAssumption DEF TransactionAssumption, DbIInv, BeginTransaction, queryVars, faultVars
<1>1. stored' = stored /\ view' = view
  BY DEF OneTransaction
<1>2. TransactionTypeOK'
  <2>1. Flags'
    BY DEF TransactionTypeOK, Flags
  <2>2. Counters'
    BY DEF TransactionTypeOK, Counters
  <2> QED
    BY <1>1, <2>1, <2>2 DEF TransactionTypeOK
<1>3. OneTransaction'
  BY DEF OneTransaction, TransactionTypeOK, Flags, Counters
<1>4. SaveProgress'
  BY <1>1 DEF SaveProgress
<1>5. SavesAreWhole'
  <2> SUFFICES ASSUME ~cut PROVE SavesAreWhole'
    BY DEF SavesAreWhole
  <2>1. PICK v \in confirmed .. version : \A r \in 1 .. Rows : stored.row[r] = v
    BY DEF SavesAreWhole
  <2>2. v \in confirmed' .. version'
    BY <2>1 DEF TransactionTypeOK, Flags, Counters
  <2> QED
    BY <1>1, <2>1, <2>2 DEF SavesAreWhole
<1>6. RunsCounted'
  BY <1>1 DEF RunsCounted, RunsOf
<1> QED
  BY <1>2, <1>3, <1>4, <1>5, <1>6

(* The lock begins a save that has written nothing.                          *)
LEMMA LockInv == DbIInv /\ LockTransaction => DbIInv'
<1> SUFFICES ASSUME DbIInv, LockTransaction PROVE DbIInv'
  OBVIOUS
<1> USE TransactionAssumption
    DEF TransactionAssumption, DbIInv, LockTransaction, queryVars, faultVars
<1>1. TransactionTypeOK'
  <2>1. Flags'
    BY DEF TransactionTypeOK, Flags
  <2>2. Counters'
    BY DEF TransactionTypeOK, Counters
  <2> QED
    BY <2>1, <2>2 DEF TransactionTypeOK
<1>4. OneTransaction'
  BY DEF TransactionTypeOK, Flags, Counters, OneTransaction
<1>2. SaveProgress'
  BY DEF SaveProgress
<1>3. SavesAreWhole' /\ RunsCounted'
  BY DEF SavesAreWhole, RunsCounted, RunsOf
<1> QED
  BY <1>1, <1>2, <1>3, <1>4

(* A statement writes the next row, in the transaction unless it was cut.    *)
LEMMA StatementInv == DbIInv /\ SaveStatement => DbIInv'
<1> SUFFICES ASSUME DbIInv, SaveStatement PROVE DbIInv'
  OBVIOUS
<1> USE TransactionAssumption
    DEF TransactionAssumption, DbIInv, SaveStatement, Execute, queryVars, faultVars
<1>1. view' \in Content /\ stored' \in Content
  BY DEF TransactionTypeOK, Flags, Counters, Content
<1>2. view'.runs = view.runs
  BY DEF TransactionTypeOK, Flags, Counters, Content
<1>3. \A r \in 1 .. Rows :
        view'.row[r] = IF r = statement + 1 THEN version ELSE view.row[r]
  BY DEF TransactionTypeOK, Flags, Counters, Content
<1>4. TransactionTypeOK'
  <2>1. Flags'
    BY DEF TransactionTypeOK, Flags
  <2>2. Counters'
    BY DEF TransactionTypeOK, Counters
  <2> QED
    BY <1>1, <2>1, <2>2 DEF TransactionTypeOK
<1>5. OneTransaction'
  BY DEF OneTransaction
<1>6. SaveProgress'
  BY <1>3 DEF SaveProgress, OneTransaction, TransactionTypeOK, Flags, Counters
<1>7. SavesAreWhole'
  BY DEF SavesAreWhole, OneTransaction
<1>8. RunsCounted'
  BY <1>2 DEF RunsCounted, RunsOf, OneTransaction, TransactionTypeOK, Flags, Counters, Content
<1> QED
  BY <1>4, <1>5, <1>6, <1>7, <1>8

(* The rollback leaves what is stored.                                       *)
LEMMA FailsInv == DbIInv /\ SaveFails => DbIInv'
<1> SUFFICES ASSUME DbIInv, SaveFails PROVE DbIInv'
  OBVIOUS
<1> USE TransactionAssumption
    DEF TransactionAssumption, DbIInv, SaveFails, queryVars, faultVars
<1>1. TransactionTypeOK'
  <2>1. Flags'
    BY DEF TransactionTypeOK, Flags
  <2>2. Counters'
    BY DEF TransactionTypeOK, Counters
  <2> QED
    BY <2>1, <2>2 DEF TransactionTypeOK
<1>2. OneTransaction' /\ SaveProgress'
  BY DEF OneTransaction, SaveProgress
<1>3. SavesAreWhole'
  BY DEF SavesAreWhole
<1>4. RunsCounted'
  BY DEF RunsCounted, RunsOf, TransactionTypeOK, Flags, Counters, Content
<1> QED
  BY <1>1, <1>2, <1>3, <1>4

(* Nothing is said any more of the rows of a save that passed over an error. *)
LEMMA SkipInv == DbIInv /\ SkipStatement => DbIInv'
<1> SUFFICES ASSUME DbIInv, SkipStatement PROVE DbIInv'
  OBVIOUS
<1> USE TransactionAssumption
    DEF TransactionAssumption, DbIInv, SkipStatement, queryVars
<1>1. TransactionTypeOK'
  <2>1. Flags'
    BY DEF TransactionTypeOK, Flags
  <2>2. Counters'
    BY DEF TransactionTypeOK, Counters
  <2> QED
    BY <2>1, <2>2 DEF TransactionTypeOK
<1>2. OneTransaction'
  BY DEF OneTransaction
<1>3. SaveProgress' /\ SavesAreWhole'
  BY DEF SaveProgress, SavesAreWhole
<1>4. RunsCounted'
  BY DEF RunsCounted, RunsOf
<1> QED
  BY <1>1, <1>2, <1>3, <1>4

(* What a COMMIT stores is the whole save, if it stores anything.            *)
LEMMA StoredByCommit ==
  ASSUME DbIInv, saver = "locked", statement = Rows, ~cut
  PROVE  \A r \in 1 .. Rows : view.row[r] = version
BY TransactionAssumption DEF TransactionAssumption, DbIInv, SaveProgress, TransactionTypeOK, Flags, Counters

(* A COMMIT keeps the invariant.                                            *)
LEMMA CommitInv == DbIInv /\ Commit => DbIInv'
<1> SUFFICES ASSUME DbIInv, Commit PROVE DbIInv'
  OBVIOUS
<1> USE TransactionAssumption
    DEF TransactionAssumption, DbIInv, Commit, queryVars, faultVars
<1>1. TransactionTypeOK'
  <2>1. Flags'
    BY DEF TransactionTypeOK, Flags
  <2>2. Counters'
    BY DEF TransactionTypeOK, Counters
  <2> QED
    BY <2>1, <2>2 DEF TransactionTypeOK
<1>2. OneTransaction'
  BY DEF OneTransaction, TransactionTypeOK, Flags, Counters
<1>3. SaveProgress'
  BY DEF SaveProgress, OneTransaction
<1>4. SavesAreWhole'
  BY StoredByCommit DEF SavesAreWhole, OneTransaction, TransactionTypeOK, Flags, Counters
<1>5. RunsCounted'
  BY DEF RunsCounted, RunsOf, TransactionTypeOK, Flags, Counters, Content
<1> QED
  BY <1>1, <1>2, <1>3, <1>4, <1>5

(* ... also one whose answer is lost.                                       *)
LEMMA CommitAnswerLostInv == DbIInv /\ CommitAnswerLost => DbIInv'
<1> SUFFICES ASSUME DbIInv, CommitAnswerLost PROVE DbIInv'
  OBVIOUS
<1> USE TransactionAssumption
    DEF TransactionAssumption, DbIInv, CommitAnswerLost, queryVars
<1>1. TransactionTypeOK'
  <2>1. Flags'
    BY DEF TransactionTypeOK, Flags
  <2>2. Counters'
    BY DEF TransactionTypeOK, Counters
  <2> QED
    BY <2>1, <2>2 DEF TransactionTypeOK
<1>2. OneTransaction' /\ SaveProgress'
  BY DEF OneTransaction, SaveProgress, TransactionTypeOK, Flags, Counters
<1>3. SavesAreWhole'
  BY StoredByCommit DEF SavesAreWhole, TransactionTypeOK, Flags, Counters
<1>4. RunsCounted'
  BY DEF RunsCounted, RunsOf, TransactionTypeOK, Flags, Counters, Content
<1> QED
  BY <1>1, <1>2, <1>3, <1>4

(* A query that runs in a transaction runs before its lock, and is caught.   *)
LEMMA QueryInv == ASSUME NEW q \in Query, DbIInv, RunQuery(q) PROVE DbIInv'
<1> USE TransactionAssumption
    DEF TransactionAssumption, DbIInv, RunQuery, Execute, saveVars, faultVars
<1> DEFINE effect == [view EXCEPT !.runs[q] = @ + 1]
<1>1. view' \in Content /\ stored' \in Content
  <2>1. view \in Content /\ stored \in Content
    BY DEF TransactionTypeOK
  <2>2. view.runs \in [Query -> Nat]
    BY <2>1 DEF Content
  <2>3. [view.runs EXCEPT ![q] = @ + 1] \in [Query -> Nat]
    BY <2>2
  <2>4. effect \in Content
    BY <2>1, <2>3 DEF Content
  <2> QED
    BY <2>1, <2>4
<1>2. view'.row = view.row
  BY DEF TransactionTypeOK, Flags, Counters, Content
<1>3. \A x \in Query : view'.runs[x] = IF x = q THEN view.runs[x] + 1 ELSE view.runs[x]
  BY DEF TransactionTypeOK, Flags, Counters, Content
<1>4. TransactionTypeOK'
  <2>1. Flags'
    BY DEF TransactionTypeOK, Flags
  <2>2. Counters'
    BY DEF TransactionTypeOK, Counters
  <2> QED
    BY <1>1, <2>1, <2>2 DEF TransactionTypeOK
<1>5. OneTransaction'
  BY DEF OneTransaction
<1>6. SaveProgress' /\ SavesAreWhole'
  BY <1>2 DEF SaveProgress, SavesAreWhole, OneTransaction
<1>7. open => saver = "begun"
  BY DEF OneTransaction, TransactionTypeOK, Flags, Counters
<1>8. RunsCounted'
  BY <1>3, <1>7 DEF RunsCounted, RunsOf, OneTransaction, TransactionTypeOK, Flags, Counters, Content
<1> QED
  BY <1>4, <1>5, <1>6, <1>8

(* ... and a query whose answer is lost.                                    *)
LEMMA QueryAnswerLostInv == ASSUME NEW q \in Query, DbIInv, QueryAnswerLost(q) PROVE DbIInv'
<1> USE TransactionAssumption
    DEF TransactionAssumption, DbIInv, QueryAnswerLost, Execute, saveVars
<1> DEFINE effect == [view EXCEPT !.runs[q] = @ + 1]
<1>1. view' \in Content /\ stored' \in Content
  <2>1. view \in Content /\ stored \in Content
    BY DEF TransactionTypeOK
  <2>2. view.runs \in [Query -> Nat]
    BY <2>1 DEF Content
  <2>3. [view.runs EXCEPT ![q] = @ + 1] \in [Query -> Nat]
    BY <2>2
  <2>4. effect \in Content
    BY <2>1, <2>3 DEF Content
  <2> QED
    BY <2>1, <2>4
<1>2. view'.row = view.row
  BY DEF TransactionTypeOK, Flags, Counters, Content
<1>3. \A x \in Query : view'.runs[x] = IF x = q THEN view.runs[x] + 1 ELSE view.runs[x]
  BY DEF TransactionTypeOK, Flags, Counters, Content
<1>4. TransactionTypeOK'
  <2>1. Flags'
    BY DEF TransactionTypeOK, Flags
  <2>2. Counters'
    BY DEF TransactionTypeOK, Counters
  <2> QED
    BY <1>1, <2>1, <2>2 DEF TransactionTypeOK
<1>5. OneTransaction'
  BY DEF OneTransaction
<1>6. SaveProgress' /\ SavesAreWhole'
  BY <1>2 DEF SaveProgress, SavesAreWhole, OneTransaction
<1>7. RunsCounted'
  BY <1>3 DEF RunsCounted, RunsOf, OneTransaction, TransactionTypeOK, Flags, Counters, Content
<1> QED
  BY <1>4, <1>5, <1>6, <1>7

(* A loss is a rollback that the save does not know of.                      *)
LEMMA LostInv == DbIInv /\ ConnectionLost => DbIInv'
<1> SUFFICES ASSUME DbIInv, ConnectionLost PROVE DbIInv'
  OBVIOUS
<1> USE TransactionAssumption
    DEF TransactionAssumption, DbIInv, ConnectionLost, saveVars, queryVars
<1>1. TransactionTypeOK'
  <2>1. Flags'
    BY DEF TransactionTypeOK, Flags
  <2>2. Counters'
    BY DEF TransactionTypeOK, Counters
  <2> QED
    BY <2>1, <2>2 DEF TransactionTypeOK
<1>2. OneTransaction' /\ SaveProgress' /\ SavesAreWhole'
  BY DEF OneTransaction, SaveProgress, SavesAreWhole
<1>3. RunsCounted'
  BY DEF RunsCounted, RunsOf, TransactionTypeOK, Flags, Counters, Content
<1> QED
  BY <1>1, <1>2, <1>3

(* The server comes back.                                                   *)
LEMMA BackInv == DbIInv /\ ServerBack => DbIInv'
<1> SUFFICES ASSUME DbIInv, ServerBack PROVE DbIInv'
  OBVIOUS
<1> USE DEF DbIInv, ServerBack, saveVars, queryVars
<1>1. TransactionTypeOK'
  <2>1. Flags'
    BY DEF TransactionTypeOK, Flags
  <2>2. Counters'
    BY DEF TransactionTypeOK, Counters
  <2> QED
    BY <2>1, <2>2 DEF TransactionTypeOK
<1>4. OneTransaction'
  BY DEF TransactionTypeOK, Flags, Counters, OneTransaction
<1>2. SaveProgress' /\ SavesAreWhole' /\ RunsCounted'
  BY DEF SaveProgress, SavesAreWhole, RunsCounted, RunsOf
<1> QED
  BY <1>1, <1>2, <1>4

-----------------------------------------------------------------------------
(* The invariant holds in every state of the database connection.            *)
THEOREM DbInvariance == TransactionSpec => []DbIInv
<1>1. DbIInv /\ [TransactionNext]_dbVars => DbIInv'
  <2> SUFFICES ASSUME DbIInv, [TransactionNext]_dbVars PROVE DbIInv'
    OBVIOUS
  <2>1. CASE BeginTransaction
    BY <2>1, BeginInv
  <2>2. CASE LockTransaction
    BY <2>2, LockInv
  <2>3. CASE SaveStatement
    BY <2>3, StatementInv
  <2>4. CASE SaveFails
    BY <2>4, FailsInv
  <2>5. CASE Commit
    BY <2>5, CommitInv
  <2>6. ASSUME NEW q \in Query, RunQuery(q) PROVE DbIInv'
    BY <2>6, QueryInv
  <2>7. ASSUME NEW q \in Query, QueryAnswerLost(q) PROVE DbIInv'
    BY <2>7, QueryAnswerLostInv
  <2>8. CASE ConnectionLost
    BY <2>8, LostInv
  <2>9. CASE CommitAnswerLost
    BY <2>9, CommitAnswerLostInv
  <2>10. CASE ServerBack
    BY <2>10, BackInv
  <2>11. CASE SkipStatement
    BY <2>11, SkipInv
  <2>12. CASE UNCHANGED dbVars
    BY <2>12 DEF DbIInv, dbVars, TransactionTypeOK, Flags, Counters, OneTransaction,
                 SaveProgress, SavesAreWhole, RunsCounted, RunsOf
  <2> QED
    BY <2>1, <2>2, <2>3, <2>4, <2>5, <2>6, <2>7, <2>8, <2>9, <2>10, <2>11, <2>12
       DEF TransactionNext
<1> QED
  BY DbInitInv, <1>1, PTL DEF TransactionSpec

(* The variables keep their types.                                           *)
THEOREM TransactionTypes == TransactionSpec => []TransactionTypeOK
<1>1. DbIInv => TransactionTypeOK
  BY DEF DbIInv
<1> QED
  BY <1>1, DbInvariance, PTL

(* Players and houses are stored as of one moment (savePlayer, saveHouseInfo *)
(* and saveHouseItems), unless a transaction loses its connection or         *)
(* saveHouseInfo passes over an error.                                       *)
THEOREM SavesWhole == TransactionSpec => []SavesAreWhole
<1>1. DbIInv => SavesAreWhole
  BY DEF DbIInv
<1> QED
  BY <1>1, DbInvariance, PTL

(* What the database thread reports to a callback has happened, and once,    *)
(* unless a save that fails took it along or its answer was lost.            *)
THEOREM QueriesTakeEffect == TransactionSpec => []QueriesKept
<1>1. ASSUME DbIInv, NEW q \in reported
      PROVE  /\ q \notin caught => stored.runs[q] >= 1
             /\ q \notin again => stored.runs[q] <= 1
  BY <1>1 DEF DbIInv, RunsCounted, RunsOf, TransactionTypeOK, Flags, Counters, Content
<1>2. DbIInv => TransactionTypeOK
  BY DEF DbIInv
<1>3. DbIInv => QueriesKept
  BY <1>1, <1>2 DEF QueriesKept
<1> QED
  BY <1>3, DbInvariance, PTL

-----------------------------------------------------------------------------
(* The record of an item.                                                    *)

Names == {"kind", "duration", "decaying", "placed", "refs", "toDecay", "at", "release", "clock"}

IsItem(r) ==
  /\ DOMAIN r = Names
  /\ r.kind \in Kind \cup {NoKind} /\ r.duration \in Nat
  /\ r.decaying \in BOOLEAN /\ r.placed \in BOOLEAN
  /\ r.refs \in Nat /\ r.toDecay \in Nat /\ r.release \in Nat
  /\ r.at \in [Bucket -> Nat] /\ r.clock \in Int \cup {NoClock}

Total(r) == r.toDecay + r.at[0] + r.at[1] + r.at[2] + r.at[3]

(* The entries of an item are added in no order.                             *)
LEMMA EntriesAre ==
  ASSUME NEW r, r.toDecay \in Int, r.at \in [Bucket -> Int]
  PROVE  Entries(r) = Total(r)
<1> DEFINE f == r.at
           Sum(S) == SumFunctionOnSet(f, S)
<1>1. Bucket = {0, 1, 2, 3}
  BY DEF Bucket
<1>2. \A S \in SUBSET {0, 1, 2, 3} : IsFiniteSet(S)
  <2>1. 0 \in Int /\ 3 \in Int
    OBVIOUS
  <2>2. IsFiniteSet(0 .. 3)
    BY <2>1, FS_Interval
  <2>3. 0 .. 3 = {0, 1, 2, 3}
    OBVIOUS
  <2> QED
    BY <2>2, <2>3, FS_Subset
<1>3. \A S \in SUBSET {0, 1, 2, 3} : \A y \in S : Sum(S) = f[y] + Sum(S \ {y})
  BY <1>1, <1>2, SumSplits
<1>4. Sum({}) = 0
  BY <1>2, SumRec
<1> HIDE DEF Sum, f
<1>5. Sum({0, 1, 2, 3}) = f[0] + Sum({1, 2, 3})
  <2>1. {0, 1, 2, 3} \ {0} = {1, 2, 3}
    OBVIOUS
  <2> QED
    BY <1>3, <2>1
<1>6. Sum({1, 2, 3}) = f[1] + Sum({2, 3})
  <2>1. {1, 2, 3} \ {1} = {2, 3}
    OBVIOUS
  <2> QED
    BY <1>3, <2>1
<1>7. Sum({2, 3}) = f[2] + Sum({3})
  <2>1. {2, 3} \ {2} = {3}
    OBVIOUS
  <2> QED
    BY <1>3, <2>1
<1>8. Sum({3}) = f[3] + Sum({})
  <2>1. {3} \ {3} = {}
    OBVIOUS
  <2> QED
    BY <1>3, <2>1
<1>9. f[0] \in Int /\ f[1] \in Int /\ f[2] \in Int /\ f[3] \in Int
  BY <1>1 DEF f
<1>10. Sum(Bucket) = f[0] + f[1] + f[2] + f[3]
  BY <1>1, <1>4, <1>5, <1>6, <1>7, <1>8, <1>9
<1> QED
  BY <1>9, <1>10 DEF Entries, Total, Sum, f

(* The fields of a record.                                                   *)
LEMMA RecordIs ==
  ASSUME NEW r, IsItem(r)
  PROVE  /\ r.kind \in Kind \cup {NoKind} /\ r.duration \in Nat
         /\ r.decaying \in BOOLEAN /\ r.placed \in BOOLEAN
         /\ r.refs \in Nat /\ r.toDecay \in Nat /\ r.release \in Nat
         /\ r.at \in [Bucket -> Nat] /\ r.clock \in Int \cup {NoClock}
         /\ Entries(r) = Total(r) /\ Total(r) \in Nat
         /\ \A b \in Bucket : r.at[b] \in Nat /\ r.at[b] <= Total(r)
         /\ r.toDecay <= Total(r)
         /\ r.at[0] \in Nat /\ r.at[1] \in Nat /\ r.at[2] \in Nat /\ r.at[3] \in Nat
<1>1. /\ r.kind \in Kind \cup {NoKind} /\ r.duration \in Nat
      /\ r.decaying \in BOOLEAN /\ r.placed \in BOOLEAN
      /\ r.refs \in Nat /\ r.toDecay \in Nat /\ r.release \in Nat
      /\ r.at \in [Bucket -> Nat] /\ r.clock \in Int \cup {NoClock}
  BY DEF IsItem
<1>2. Bucket = {0, 1, 2, 3}
  BY DEF Bucket
<1>3. r.at[0] \in Nat /\ r.at[1] \in Nat /\ r.at[2] \in Nat /\ r.at[3] \in Nat
  BY <1>1, <1>2
<1>4. Total(r) \in Nat /\ r.toDecay <= Total(r)
      /\ r.at[0] <= Total(r) /\ r.at[1] <= Total(r) /\ r.at[2] <= Total(r) /\ r.at[3] <= Total(r)
  BY <1>1, <1>3 DEF Total
<1>5. Entries(r) = Total(r)
  BY <1>1, EntriesAre
<1> QED
  BY <1>1, <1>2, <1>3, <1>4, <1>5

(* Two with the same numbers of entries have as many.                        *)
LEMMA TotalSame ==
  ASSUME NEW r, NEW s, r.toDecay = s.toDecay, r.at = s.at
  PROVE  Total(r) = Total(s)
BY DEF Total

(* It waits without a duration that could end.                               *)
Idle(k) == DecayTime[k] = 0 /\ k \notin Stop

(* The references of an item, but for n, and what marks it as decaying.      *)
SoundBut(r, n) ==
  /\ IsItem(r)
  /\ r.refs = Total(r) + r.release + n + IF r.placed THEN 1 ELSE 0
  /\ r.placed => r.kind \in Kind
  /\ r.placed /\ r.decaying => (Total(r) > 0 /\ r.duration > 0) \/ Idle(r.kind)
  /\ CanDecay(r) => r.duration > 0

(* The clock c of an item with the duration d that b checks go before.       *)
OnTime(d, b, c) ==
  IF d < Second THEN b = 0 /\ c \in {d, d - 2}
  ELSE c \in {d - 2 * (3 - b), d - 2 * (4 - b)}

(* An item that nobody touched has one entry.                                *)
Untouched(r) == r.placed /\ r.duration > 0 /\ Total(r) = 1

(* The clock between two checks.                                             *)
Timed(r) ==
  r.clock # NoClock =>
    /\ Untouched(r)
    /\ r.toDecay = 1 => r.clock = r.duration
    /\ \A b \in Bucket : r.at[b] = 1 => OnTime(r.duration, b, r.clock)

(* ... when a check has begun and does not know of the item yet.             *)
TimedBefore(r) ==
  r.clock # NoClock =>
    /\ Untouched(r)
    /\ r.toDecay = 1 => r.clock = r.duration - 2
    /\ \A b \in Bucket : r.at[b] = 1 => OnTime(r.duration, b, r.clock + 2)

(* ... and when the check is done with it, but for the turn of the buckets.  *)
TimedAfter(r) ==
  r.clock # NoClock =>
    /\ Untouched(r)
    /\ r.toDecay = 1 => r.clock \in {r.duration, r.duration - 2}
    /\ \A b \in Bucket : r.at[b] = 1 => OnTime(r.duration, (b + 3) % 4, r.clock)

(* An item that goes on the list.                                            *)
LEMMA ListIs ==
  ASSUME NEW r, IsItem(r), NEW n \in Nat, r.placed, r.kind \in Kind, r.duration > 0,
         r.refs = Total(r) + r.release + n + 1
  PROVE  /\ SoundBut(List(r), n) /\ Timed(List(r)) /\ TimedAfter(List(r))
         /\ List(r).placed /\ List(r).kind = r.kind /\ List(r).at = r.at
         /\ Total(r) > 0 => List(r).clock = NoClock
<1> DEFINE s == List(r)
<1>1. /\ DOMAIN s = Names
      /\ s.kind = r.kind /\ s.duration = r.duration /\ s.decaying = TRUE /\ s.placed = r.placed
      /\ s.refs = r.refs + 1 /\ s.toDecay = r.toDecay + 1 /\ s.at = r.at
      /\ s.release = r.release
      /\ s.clock = IF Entries(r) = 0 THEN r.duration ELSE NoClock
  BY DEF List, IsItem, Names
<1> HIDE DEF s
<1>2. Entries(r) = Total(r) /\ Total(r) \in Nat /\ Total(s) = Total(r) + 1
  <2>1. Total(s) = Total(r) + 1
    <3>1. /\ r.toDecay \in Nat /\ r.at[0] \in Nat /\ r.at[1] \in Nat /\ r.at[2] \in Nat
          /\ r.at[3] \in Nat
      BY RecordIs
    <3> QED
      BY <1>1, <3>1 DEF Total
  <2> QED
    BY <2>1, RecordIs
<1>3. SoundBut(s, n)
  <2>1. s.clock \in Int \cup {NoClock} /\ s.toDecay \in Nat /\ s.refs \in Nat
    BY <1>1, RecordIs
  <2>2. IsItem(s)
    BY <1>1, <2>1, RecordIs DEF IsItem
  <2> QED
    BY <1>1, <1>2, <2>2, RecordIs DEF SoundBut
<1>4. ASSUME s.clock # NoClock
      PROVE  /\ Untouched(s) /\ s.clock = s.duration
             /\ \A b \in Bucket : s.at[b] = 0
  <2>1. Total(r) = 0 /\ s.clock = s.duration /\ Total(s) = 1
    BY <1>1, <1>2, <1>4
  <2>2. \A b \in Bucket : r.at[b] = 0
    BY <2>1, RecordIs
  <2> QED
    BY <1>1, <2>1, <2>2 DEF Untouched
<1>5. Timed(s) /\ TimedAfter(s)
  BY <1>4 DEF Timed, TimedAfter
<1> QED
  BY <1>1, <1>2, <1>3, <1>5 DEF s

(* ... if it has to.                                                         *)
LEMMA ListIfNewIs ==
  ASSUME NEW r, NEW n \in Nat, SoundBut(r, n), r.placed
  PROVE  LET s == ListIfNew(r)
         IN  /\ SoundBut(s, n) /\ s.placed /\ s.kind = r.kind /\ s.at = r.at
             /\ Timed(r) => Timed(s)
             /\ r.clock = NoClock => /\ TimedAfter(s)
                                     /\ Total(r) > 0 => s.clock = NoClock
<1>1. CASE r.duration > 0 /\ ~r.decaying
  <2>1. ListIfNew(r) = List(r)
    BY <1>1 DEF ListIfNew
  <2>2. IsItem(r) /\ r.kind \in Kind /\ r.refs = Total(r) + r.release + n + 1
    BY DEF SoundBut
  <2> QED
    BY <1>1, <2>1, <2>2, ListIs
<1>2. CASE ~(r.duration > 0 /\ ~r.decaying)
  <2>1. ListIfNew(r) = r
    BY <1>2 DEF ListIfNew
  <2> QED
    BY <2>1 DEF TimedAfter
<1> QED
  BY <1>1, <1>2

(* Game::startDecay.                                                         *)
LEMMA StartDecayIs ==
  ASSUME NEW r, NEW n \in Nat, SoundBut(r, n), r.placed
  PROVE  LET s == StartDecay(r)
         IN  /\ SoundBut(s, n) /\ s.placed /\ s.kind = r.kind /\ s.at = r.at
             /\ Timed(r) => Timed(s)
             /\ r.clock = NoClock => /\ TimedAfter(s)
                                     /\ Total(r) > 0 => s.clock = NoClock
<1>1. CASE CanDecay(r)
  <2>1. StartDecay(r) = ListIfNew(r)
    BY <1>1 DEF StartDecay
  <2> QED
    BY <2>1, ListIfNewIs
<1>2. CASE ~CanDecay(r)
  <2>1. StartDecay(r) = r
    BY <1>2 DEF StartDecay
  <2> QED
    BY <2>1 DEF TimedAfter
<1> QED
  BY <1>1, <1>2

(* An item that was created.                                                 *)
LEMMA CreatedIs ==
  ASSUME NEW k \in Kind, NEW d \in Nat, NEW y \in BOOLEAN, NEW r,
         DOMAIN r = Names, r.kind = k, r.duration = d, r.decaying = y,
         r.placed \in BOOLEAN, r.placed, r.refs = 1, r.toDecay = 0, r.release = 0,
         r.at = [b \in Bucket |-> 0], r.clock = NoClock
  PROVE  IsItem(r) /\ Total(r) = 0 /\ \A b \in Bucket : r.at[b] = 0
<1>1. r.at \in [Bucket -> Nat] /\ \A b \in Bucket : r.at[b] = 0
  OBVIOUS
<1>2. IsItem(r)
  <2>1. r.decaying \in BOOLEAN /\ r.kind \in Kind /\ r.clock \in {NoClock}
    OBVIOUS
  <2> QED
    BY <1>1, <2>1 DEF IsItem
<1>3. Total(r) = 0
  <2>1. r.at[0] = 0 /\ r.at[1] = 0 /\ r.at[2] = 0 /\ r.at[3] = 0
    BY <1>1 DEF Bucket
  <2> QED
    BY <2>1 DEF Total
<1> QED
  BY <1>1, <1>2, <1>3

(* ... by Item::CreateItem.                                                  *)
LEMMA NewItem ==
  ASSUME NEW k \in Kind
  PROVE  LET r == Created(k)
         IN  /\ IsItem(r) /\ Total(r) = 0 /\ r.kind = k /\ r.duration = DecayTime[k]
             /\ r.decaying = FALSE /\ r.placed /\ r.refs = 1 /\ r.toDecay = 0 /\ r.release = 0
             /\ r.clock = NoClock /\ \A b \in Bucket : r.at[b] = 0
<1> DEFINE r == Created(k)
<1>1. DecayTime[k] \in Nat
  BY DecayAssumption
<1>2. /\ DOMAIN r = Names /\ r.kind = k /\ r.duration = DecayTime[k] /\ r.decaying = FALSE
      /\ r.decaying \in BOOLEAN /\ r.placed \in BOOLEAN
      /\ r.placed /\ r.refs = 1 /\ r.toDecay = 0 /\ r.release = 0
      /\ r.at = [b \in Bucket |-> 0] /\ r.clock = NoClock
  BY DEF Created, Freed, Names
<1> HIDE DEF r
<1>3. IsItem(r) /\ Total(r) = 0 /\ \A b \in Bucket : r.at[b] = 0
  BY <1>1, <1>2, CreatedIs
<1> QED
  BY <1>2, <1>3 DEF r

(* ... and, if it has to, listed.                                            *)
LEMMA NewIs ==
  ASSUME NEW k \in Kind
  PROVE  LET s == ListIfNew(Created(k))
         IN  /\ SoundBut(s, 0) /\ Timed(s) /\ TimedAfter(s)
             /\ s.placed /\ s.kind = k /\ s.refs > 0 /\ s.at[0] = 0
<1> DEFINE r == Created(k)
           s == ListIfNew(r)
<1>1. DecayTime[k] \in Nat
  BY DecayAssumption
<1>2. /\ IsItem(r) /\ Total(r) = 0 /\ r.kind = k /\ r.duration = DecayTime[k]
      /\ r.decaying = FALSE /\ r.placed /\ r.refs = 1 /\ r.toDecay = 0 /\ r.release = 0
      /\ r.clock = NoClock /\ \A b \in Bucket : r.at[b] = 0
  BY NewItem
<1>3. IsItem(r) /\ r.kind \in Kind
  BY <1>2
<1> HIDE DEF r
<1>4. SoundBut(r, 0)
  BY <1>1, <1>2, <1>3 DEF SoundBut, CanDecay
<1>5. /\ SoundBut(s, 0) /\ s.placed /\ s.kind = r.kind /\ s.at = r.at /\ TimedAfter(s)
      /\ Timed(r) => Timed(s)
  BY <1>2, <1>4, ListIfNewIs
<1>6. Timed(r)
  BY <1>2 DEF Timed
<1>7. s.refs > 0
  <2>1. s.refs = Total(s) + s.release + 0 + IF s.placed THEN 1 ELSE 0
    BY <1>5 DEF SoundBut
  <2>2. Total(s) \in Nat /\ s.release \in Nat
    BY <1>5, RecordIs DEF SoundBut
  <2> QED
    BY <1>5, <2>1, <2>2
<1>8. s.at[0] = 0
  BY <1>2, <1>5 DEF Bucket
<1> QED
  BY <1>2, <1>5, <1>6, <1>7, <1>8 DEF r

(* An item is not listed twice.                                              *)
LEMMA ListedOnce ==
  ASSUME NEW r, IsItem(r)
  PROVE  StartDecay(ListIfNew(r)) = ListIfNew(r)
<1>1. r.duration > 0 /\ ~r.decaying => List(r).decaying = TRUE
  BY DEF List, IsItem, Names
<1> QED
  BY <1>1 DEF StartDecay, ListIfNew

(* An item that leaves its parent; its entries may have changed.             *)
LEMMA RemovedIs ==
  ASSUME NEW r, IsItem(r), NEW n \in Nat, r.placed, r.refs = Total(r) + r.release + n + 1
  PROVE  LET s == Removed(r)
         IN  SoundBut(s, n) /\ s.placed = FALSE /\ s.at = r.at /\ s.refs = r.refs /\ s.clock = NoClock
             /\ s.kind = r.kind
<1> DEFINE s == Removed(r)
<1>1. /\ DOMAIN s = Names
      /\ s.kind = r.kind /\ s.duration = r.duration /\ s.decaying = r.decaying /\ s.placed = FALSE
      /\ s.placed \in BOOLEAN
      /\ s.refs = r.refs /\ s.toDecay = r.toDecay /\ s.at = r.at
      /\ s.release = r.release + 1 /\ s.clock = NoClock
  BY DEF Removed, IsItem, Names
<1> HIDE DEF s
<1>2. IsItem(s)
  BY <1>1, RecordIs DEF IsItem
<1>3. Total(s) = Total(r) /\ Total(r) \in Nat /\ r.release \in Nat
  BY <1>1, TotalSame, RecordIs
<1>4. SoundBut(s, n)
  BY <1>1, <1>2, <1>3 DEF SoundBut, CanDecay
<1> QED
  BY <1>1, <1>4 DEF s

(* An item that is transformed and keeps its place.  It is not taken for one *)
(* that decays unless it is, or never will.                                  *)
LEMMA RenamedIs ==
  ASSUME NEW r, IsItem(r), NEW n \in Nat, r.placed, r.kind \in Kind, NEW k \in Kind,
         r.refs = Total(r) + r.release + n + 1,
         \/ /\ r.decaying => (Total(r) > 0 /\ r.duration > 0) \/ Idle(r.kind)
            /\ k \in Stop /\ DecayTime[k] = 0 => r.kind \in Stop \/ DecayTime[r.kind] > 0
         \/ r.kind \notin Stop /\ k \notin Stop
  PROVE  LET s == Renamed(r, k)
         IN  SoundBut(s, n) /\ s.placed /\ s.at = r.at /\ s.clock = NoClock /\ s.kind = k
             /\ Total(s) = Total(r)
<1> DEFINE s == Renamed(r, k)
           restart == DecayTime[k] > 0 /\ (r.kind \notin Stop \/ r.duration = 0)
           ends == DecayTime[k] = 0 /\ k \notin Stop /\ DecayTo[k] = Never
<1>1. /\ DOMAIN s = Names
      /\ s.kind = k /\ s.placed = r.placed
      /\ s.decaying = (r.decaying /\ ~restart /\ ~ends)
      /\ s.duration = (IF r.duration > 0 THEN r.duration ELSE IF restart THEN DecayTime[k] ELSE 0)
      /\ s.refs = r.refs /\ s.toDecay = r.toDecay /\ s.at = r.at
      /\ s.release = r.release /\ s.clock = NoClock
  BY DEF Renamed, IsItem, Names
<1> HIDE DEF s
<1>2. DecayTime[k] \in Nat /\ DecayTime[r.kind] \in Nat /\ r.duration \in Nat
  BY DecayAssumption, RecordIs
<1>3. IsItem(s)
  BY <1>1, <1>2, RecordIs DEF IsItem
<1>4. Total(s) = Total(r) /\ Total(r) \in Nat /\ r.release \in Nat
  BY <1>1, TotalSame, RecordIs
<1>5. CanDecay(s) => s.duration > 0
  BY <1>1, <1>2 DEF CanDecay
<1>6. s.decaying => (Total(s) > 0 /\ s.duration > 0) \/ Idle(k)
  <2> SUFFICES ASSUME s.decaying PROVE (Total(s) > 0 /\ s.duration > 0) \/ Idle(k)
    OBVIOUS
  <2>1. r.decaying /\ ~restart
    BY <1>1
  <2> HIDE DEF restart, ends
  <2>2. CASE r.kind \notin Stop /\ k \notin Stop
    BY <1>2, <2>1, <2>2 DEF Idle, restart
  <2>3. CASE Total(r) > 0 /\ r.duration > 0
    BY <1>1, <1>4, <2>3
  <2>4. CASE Idle(r.kind) /\ (k \in Stop /\ DecayTime[k] = 0 => r.kind \in Stop \/ DecayTime[r.kind] > 0)
    BY <1>2, <2>1, <2>4 DEF Idle, restart
  <2> QED
    BY <2>1, <2>2, <2>3, <2>4
<1>7. SoundBut(s, n)
  BY <1>1, <1>3, <1>4, <1>5, <1>6 DEF SoundBut
<1> QED
  BY <1>1, <1>4, <1>7 DEF s

(* A reference that waits to be dropped is as good as one of the check.      *)
LEMMA ReleasedIs ==
  ASSUME NEW r, SoundBut(r, 1)
  PROVE  LET s == [r EXCEPT !.release = @ + 1]
         IN  /\ SoundBut(s, 0) /\ s.kind = r.kind /\ s.placed = r.placed /\ s.at = r.at
             /\ s.refs = r.refs /\ s.clock = r.clock
             /\ TimedAfter(r) => TimedAfter(s)
<1> DEFINE s == [r EXCEPT !.release = @ + 1]
<1>1. IsItem(r)
  BY DEF SoundBut
<1>2. /\ DOMAIN s = Names
      /\ s.kind = r.kind /\ s.duration = r.duration /\ s.decaying = r.decaying /\ s.placed = r.placed
      /\ s.refs = r.refs /\ s.toDecay = r.toDecay /\ s.at = r.at
      /\ s.release = r.release + 1 /\ s.clock = r.clock
  BY <1>1 DEF IsItem, Names
<1> HIDE DEF s
<1>3. IsItem(s)
  BY <1>1, <1>2, RecordIs DEF IsItem
<1>4. Total(s) = Total(r) /\ Total(r) \in Nat /\ r.release \in Nat
  BY <1>1, <1>2, TotalSame, RecordIs
<1>5. SoundBut(s, 0)
  <2>1. s.refs = Total(s) + s.release + 0 + IF s.placed THEN 1 ELSE 0
    BY <1>2, <1>4 DEF SoundBut
  <2>2. CanDecay(s) <=> CanDecay(r)
    BY <1>2 DEF CanDecay
  <2> QED
    BY <1>2, <1>3, <1>4, <2>1, <2>2 DEF SoundBut
<1>6. TimedAfter(r) => TimedAfter(s)
  BY <1>2, <1>4 DEF TimedAfter, Untouched
<1> QED
  BY <1>2, <1>5, <1>6 DEF s

(* The clock when the buckets have turned, or between two checks.            *)
TimedTurned(r) ==
  r.clock # NoClock =>
    /\ Untouched(r)
    /\ r.toDecay = 1 => r.clock \in {r.duration, r.duration - 2}
    /\ \A b \in Bucket : r.at[b] = 1 => OnTime(r.duration, b, r.clock)

(* What an item has that nobody touched.                                     *)
LEMMA UntouchedIs ==
  ASSUME NEW r, IsItem(r), Untouched(r)
  PROVE  /\ r.toDecay \in {0, 1} /\ \A b \in Bucket : r.at[b] \in {0, 1}
         /\ r.toDecay = 1 => \A b \in Bucket : r.at[b] = 0
         /\ \A b, c \in Bucket : r.at[b] = 1 /\ c # b => r.at[c] = 0 /\ r.toDecay = 0
         /\ r.toDecay = 0 => \E b \in Bucket : r.at[b] = 1
<1>1. Bucket = {0, 1, 2, 3}
  BY DEF Bucket
<1>2. /\ r.at[0] \in Nat /\ r.at[1] \in Nat /\ r.at[2] \in Nat /\ r.at[3] \in Nat
      /\ r.toDecay \in Nat /\ r.toDecay + r.at[0] + r.at[1] + r.at[2] + r.at[3] = 1
  BY RecordIs DEF Untouched, Total
<1> DEFINE f == r.at
<1>3. /\ f[0] \in Nat /\ f[1] \in Nat /\ f[2] \in Nat /\ f[3] \in Nat
      /\ r.toDecay \in Nat /\ r.toDecay + f[0] + f[1] + f[2] + f[3] = 1
  BY <1>2
<1> HIDE DEF f
<1>4. \/ r.toDecay = 1 /\ f[0] = 0 /\ f[1] = 0 /\ f[2] = 0 /\ f[3] = 0
      \/ r.toDecay = 0 /\ f[0] = 1 /\ f[1] = 0 /\ f[2] = 0 /\ f[3] = 0
      \/ r.toDecay = 0 /\ f[0] = 0 /\ f[1] = 1 /\ f[2] = 0 /\ f[3] = 0
      \/ r.toDecay = 0 /\ f[0] = 0 /\ f[1] = 0 /\ f[2] = 1 /\ f[3] = 0
      \/ r.toDecay = 0 /\ f[0] = 0 /\ f[1] = 0 /\ f[2] = 0 /\ f[3] = 1
  <2>1. ASSUME NEW a \in Nat, NEW b \in Nat, NEW c \in Nat, NEW d \in Nat, NEW e \in Nat,
               a + b + c + d + e = 1
        PROVE  \/ a = 1 /\ b = 0 /\ c = 0 /\ d = 0 /\ e = 0
               \/ a = 0 /\ b = 1 /\ c = 0 /\ d = 0 /\ e = 0
               \/ a = 0 /\ b = 0 /\ c = 1 /\ d = 0 /\ e = 0
               \/ a = 0 /\ b = 0 /\ c = 0 /\ d = 1 /\ e = 0
               \/ a = 0 /\ b = 0 /\ c = 0 /\ d = 0 /\ e = 1
    BY <2>1
  <2> QED
    BY <1>3, <2>1
<1> QED
  BY <1>1, <1>4 DEF f

(* Memory that is not used.                                                  *)
LEMMA FreedIs ==
  SoundBut(Freed, 0) /\ Timed(Freed)
<1> DEFINE s == Freed
<1>1. /\ DOMAIN s = Names /\ s.kind = NoKind /\ s.duration = 0 /\ s.decaying = FALSE
      /\ s.decaying \in BOOLEAN /\ s.placed \in BOOLEAN /\ ~s.placed
      /\ s.refs = 0 /\ s.toDecay = 0 /\ s.release = 0
      /\ s.at = [b \in Bucket |-> 0] /\ s.clock = NoClock
  BY DEF Freed, Names
<1> HIDE DEF s
<1>2. s.at \in [Bucket -> Nat] /\ s.at[0] = 0 /\ s.at[1] = 0 /\ s.at[2] = 0 /\ s.at[3] = 0
  BY <1>1 DEF Bucket
<1>3. IsItem(s)
  <2>1. s.kind \in {NoKind} /\ s.clock \in {NoClock}
    BY <1>1
  <2> QED
    BY <1>1, <1>2, <2>1 DEF IsItem
<1>4. Total(s) = 0
  BY <1>1, <1>2 DEF Total
<1>5. SoundBut(s, 0) /\ Timed(s)
  BY <1>1, <1>3, <1>4 DEF SoundBut, CanDecay, Timed
<1> QED
  BY <1>5 DEF s

(* Game::cleanup of an item.                                                 *)
LEMMA CleanedIs ==
  ASSUME NEW r, SoundBut(r, 0), TimedTurned(r)
  PROVE  SoundBut(Cleaned(r), 0) /\ Timed(Cleaned(r))
<1>1. CASE r.refs = r.release
  <2>1. Cleaned(r) = Freed
    BY <1>1 DEF Cleaned
  <2> QED
    BY <2>1, FreedIs
<1>2. CASE r.refs # r.release
  <2> DEFINE b == IF r.duration >= Second THEN 3 ELSE 0
             s == Cleaned(r)
  <2>0. IsItem(r) /\ b \in Bucket /\ r.duration \in Nat
    BY RecordIs DEF SoundBut, Bucket
  <2>1. /\ DOMAIN s = Names
        /\ s.kind = r.kind /\ s.duration = r.duration /\ s.decaying = r.decaying /\ s.placed = r.placed
        /\ s.refs = r.refs - r.release /\ s.toDecay = 0
        /\ s.at = [r.at EXCEPT ![b] = @ + r.toDecay]
        /\ s.release = 0 /\ s.clock = r.clock
    BY <1>2, <2>0 DEF Cleaned, IsItem, Names
  <2> HIDE DEF s
  <2>2. /\ r.at \in [Bucket -> Nat] /\ r.toDecay \in Nat /\ r.release \in Nat /\ Total(r) \in Nat
        /\ r.at[0] \in Nat /\ r.at[1] \in Nat /\ r.at[2] \in Nat /\ r.at[3] \in Nat
    BY <2>0, RecordIs
  <2>3. s.at \in [Bucket -> Nat] /\ \A c \in Bucket : s.at[c] = IF c = b THEN r.at[c] + r.toDecay ELSE r.at[c]
    BY <2>0, <2>1, <2>2
  <2>4. Total(s) = Total(r)
    <3>1. /\ s.at[0] = IF b = 0 THEN r.at[0] + r.toDecay ELSE r.at[0]
          /\ s.at[1] = r.at[1] /\ s.at[2] = r.at[2]
          /\ s.at[3] = IF b = 3 THEN r.at[3] + r.toDecay ELSE r.at[3]
      BY <2>3 DEF Bucket
    <3>2. b = 0 \/ b = 3
      OBVIOUS
    <3> HIDE DEF b
    <3> QED
      BY <2>1, <2>2, <3>1, <3>2 DEF Total
  <2>5. r.refs = Total(r) + r.release + IF r.placed THEN 1 ELSE 0
    BY <2>2 DEF SoundBut
  <2>6. s.refs \in Nat /\ s.refs = Total(s) + s.release + 0 + IF s.placed THEN 1 ELSE 0
    BY <2>1, <2>2, <2>4, <2>5
  <2>7. IsItem(s)
    BY <2>0, <2>1, <2>3, <2>6, RecordIs DEF IsItem
  <2>8. SoundBut(s, 0)
    BY <2>1, <2>4, <2>6, <2>7 DEF SoundBut, CanDecay
  <2>9. Timed(s)
    <3> SUFFICES ASSUME s.clock # NoClock
                 PROVE  /\ Untouched(s)
                        /\ \A c \in Bucket : s.at[c] = 1 => OnTime(s.duration, c, s.clock)
      BY <2>1 DEF Timed
    <3>1. Untouched(s) /\ Untouched(r)
      BY <2>1, <2>4 DEF Untouched, TimedTurned
    <3>2. ASSUME NEW c \in Bucket, s.at[c] = 1
          PROVE  OnTime(s.duration, c, s.clock)
      <4>1. CASE r.toDecay = 1
        <5>1. \A a \in Bucket : r.at[a] = 0
          BY <2>0, <3>1, <4>1, UntouchedIs
        <5>2. c = b
          BY <2>3, <3>2, <5>1
        <5>3. r.clock \in {r.duration, r.duration - 2}
          BY <2>1, <4>1 DEF TimedTurned
        <5> QED
          BY <2>0, <2>1, <5>2, <5>3 DEF OnTime, Second
      <4>2. CASE r.toDecay = 0
        <5>1. r.at[c] = 1
          BY <2>2, <2>3, <3>2, <4>2
        <5> QED
          BY <2>1, <5>1 DEF TimedTurned
      <4> QED
        BY <2>0, <3>1, <4>1, <4>2, UntouchedIs
    <3> QED
      BY <3>1, <3>2
  <2> QED
    BY <2>8, <2>9 DEF s
<1> QED
  BY <1>1, <1>2

(* A moment between two checks.                                              *)
LEMMA TimedIs ==
  ASSUME NEW r, IsItem(r), Timed(r)
  PROVE  TimedTurned(r) /\ (r.clock # NoClock => r.clock > -DecayInterval)
<1>1. TimedTurned(r)
  BY DEF Timed, TimedTurned
<1>2. ASSUME r.clock # NoClock PROVE r.clock > -DecayInterval
  <2>1. Untouched(r) /\ r.duration \in Nat /\ r.duration > 0 /\ r.clock \in Int
    BY <1>2, RecordIs DEF Timed, Untouched
  <2>2. CASE r.toDecay = 1
    BY <1>2, <2>1, <2>2 DEF Timed, DecayInterval
  <2>3. CASE r.toDecay = 0
    <3>1. PICK b \in Bucket : r.at[b] = 1
      BY <2>1, <2>3, UntouchedIs
    <3>2. OnTime(r.duration, b, r.clock) /\ b \in {0, 1, 2, 3}
      BY <1>2, <3>1 DEF Timed, Bucket
    <3> QED
      BY <2>1, <3>2 DEF OnTime, DecayInterval, Second
  <2> QED
    BY <2>1, <2>2, <2>3, UntouchedIs
<1> QED
  BY <1>1, <1>2

(* The turn of the buckets.                                                  *)
LEMMA TurnedIs ==
  ASSUME NEW r, SoundBut(r, 0), TimedAfter(r)
  PROVE  LET s == [r EXCEPT !.at = [b \in Bucket |-> @[(b + 1) % 4]]]
         IN  SoundBut(s, 0) /\ TimedTurned(s)
<1> DEFINE s == [r EXCEPT !.at = [b \in Bucket |-> @[(b + 1) % 4]]]
<1>1. IsItem(r) /\ r.at \in [Bucket -> Nat]
      /\ r.at[0] \in Nat /\ r.at[1] \in Nat /\ r.at[2] \in Nat /\ r.at[3] \in Nat
  BY RecordIs DEF SoundBut
<1>2. /\ DOMAIN s = Names
      /\ s.kind = r.kind /\ s.duration = r.duration /\ s.decaying = r.decaying /\ s.placed = r.placed
      /\ s.refs = r.refs /\ s.toDecay = r.toDecay /\ s.release = r.release /\ s.clock = r.clock
      /\ s.at = [b \in Bucket |-> r.at[(b + 1) % 4]]
  BY <1>1 DEF IsItem, Names
<1> HIDE DEF s
<1>3. \A b \in Bucket : (b + 1) % 4 \in Bucket /\ (((b + 1) % 4) + 3) % 4 = b
  BY DEF Bucket
<1>4. s.at \in [Bucket -> Nat] /\ \A b \in Bucket : s.at[b] = r.at[(b + 1) % 4]
  BY <1>1, <1>2, <1>3
<1>5. s.at[0] = r.at[1] /\ s.at[1] = r.at[2] /\ s.at[2] = r.at[3] /\ s.at[3] = r.at[0]
  BY <1>4 DEF Bucket
<1>6. Total(s) = Total(r)
  <2>1. r.toDecay \in Nat
    BY <1>1, RecordIs
  <2> QED
    BY <1>1, <1>2, <1>5, <2>1 DEF Total
<1>7. IsItem(s)
  BY <1>1, <1>2, <1>4, RecordIs DEF IsItem
<1>8. SoundBut(s, 0)
  BY <1>2, <1>6, <1>7 DEF SoundBut, CanDecay
<1>9. TimedTurned(s)
  <2> SUFFICES ASSUME s.clock # NoClock
               PROVE  /\ Untouched(s)
                      /\ s.toDecay = 1 => s.clock \in {s.duration, s.duration - 2}
                      /\ \A b \in Bucket : s.at[b] = 1 => OnTime(s.duration, b, s.clock)
    BY DEF TimedTurned
  <2>1. Untouched(s) /\ (s.toDecay = 1 => s.clock \in {s.duration, s.duration - 2})
    BY <1>2, <1>6 DEF TimedAfter, Untouched
  <2>2. ASSUME NEW b \in Bucket, s.at[b] = 1 PROVE OnTime(s.duration, b, s.clock)
    <3>1. r.at[(b + 1) % 4] = 1
      BY <1>4, <2>2
    <3> QED
      BY <1>2, <1>3, <3>1 DEF TimedAfter
  <2> QED
    BY <2>1, <2>2
<1> QED
  BY <1>8, <1>9 DEF s

(* A check begins, and takes two units from the clocks.                      *)
LEMMA BegunIs ==
  ASSUME NEW r, SoundBut(r, 0), Timed(r)
  PROVE  LET s == [r EXCEPT !.clock = IF @ = NoClock THEN NoClock ELSE @ - DecayInterval]
         IN  /\ SoundBut(s, 0) /\ TimedBefore(s)
             /\ s.kind = r.kind /\ s.placed = r.placed /\ s.at = r.at /\ s.refs = r.refs
<1> DEFINE s == [r EXCEPT !.clock = IF @ = NoClock THEN NoClock ELSE @ - DecayInterval]
<1>1. IsItem(r)
  BY DEF SoundBut
<1>2. /\ DOMAIN s = Names
      /\ s.kind = r.kind /\ s.duration = r.duration /\ s.decaying = r.decaying /\ s.placed = r.placed
      /\ s.refs = r.refs /\ s.toDecay = r.toDecay /\ s.release = r.release /\ s.at = r.at
      /\ s.clock = IF r.clock = NoClock THEN NoClock ELSE r.clock - 2
  BY <1>1 DEF IsItem, Names, DecayInterval
<1> HIDE DEF s
<1>3. Total(s) = Total(r)
  BY <1>2, TotalSame
<1>4. r.clock \in Int \cup {NoClock} /\ NoClock \notin Int
  BY <1>1, DecayAssumption DEF IsItem
<1>5. IsItem(s)
  BY <1>1, <1>2, <1>4, RecordIs DEF IsItem
<1>6. SoundBut(s, 0)
  BY <1>2, <1>3, <1>5 DEF SoundBut, CanDecay
<1>7. TimedBefore(s)
  <2> SUFFICES ASSUME s.clock # NoClock
               PROVE  /\ Untouched(s)
                      /\ s.toDecay = 1 => s.clock = s.duration - 2
                      /\ \A b \in Bucket : s.at[b] = 1 => OnTime(s.duration, b, s.clock + 2)
    BY DEF TimedBefore
  <2>1. r.clock # NoClock /\ s.clock = r.clock - 2 /\ s.clock + 2 = r.clock
    BY <1>2, <1>4
  <2> QED
    BY <1>2, <1>3, <2>1 DEF Timed, Untouched
<1> QED
  BY <1>2, <1>6, <1>7 DEF s

(* The check has nothing to do for an item that is not in its bucket.        *)
LEMMA NotVisited ==
  ASSUME NEW r, IsItem(r), TimedBefore(r), r.at[0] = 0
  PROVE  TimedAfter(r)
<1> SUFFICES ASSUME r.clock # NoClock
             PROVE  /\ r.toDecay = 1 => r.clock \in {r.duration, r.duration - 2}
                    /\ \A b \in Bucket : r.at[b] = 1 => OnTime(r.duration, (b + 3) % 4, r.clock)
  BY DEF TimedAfter, TimedBefore
<1>1. r.duration \in Nat /\ r.clock \in Int
  BY RecordIs
<1>2. ASSUME NEW b \in Bucket, r.at[b] = 1 PROVE OnTime(r.duration, (b + 3) % 4, r.clock)
  <2>1. OnTime(r.duration, b, r.clock + 2)
    BY <1>2 DEF TimedBefore
  <2>2. b \in {1, 2, 3}
    BY <1>2 DEF Bucket
  <2>3. (b + 3) % 4 = b - 1
    BY <2>2
  <2> QED
    BY <1>1, <2>1, <2>2, <2>3 DEF OnTime, Second
<1> QED
  BY <1>2 DEF TimedBefore

-----------------------------------------------------------------------------
(* Between two checks.                                                       *)
Kept(w) == DOMAIN w = Item /\ \A x \in Item : SoundBut(w[x], 0) /\ Timed(w[x])

DecayInv ==
  /\ Kept(item)
  /\ ended \subseteq -3 .. 6

(* One of the items changes.                                                 *)
LEMMA BecomesKeeps ==
  ASSUME NEW w, Kept(w), NEW i \in Item, NEW r, SoundBut(r, 0), Timed(r)
  PROVE  Kept([w EXCEPT ![i] = r])
<1> DEFINE v == [w EXCEPT ![i] = r]
<1>1. DOMAIN v = Item /\ \A x \in Item : v[x] = IF x = i THEN r ELSE w[x]
  BY DEF Kept
<1> HIDE DEF v
<1>2. Kept(v)
  BY <1>1 DEF Kept
<1> QED
  BY <1>2 DEF v

(* What an item has between two checks.                                      *)
LEMMA KeptIs ==
  ASSUME NEW w, Kept(w), NEW i \in Item
  PROVE  /\ SoundBut(w[i], 0) /\ Timed(w[i]) /\ IsItem(w[i])
         /\ w[i].placed => w[i].kind \in Kind /\ w[i].refs = Total(w[i]) + w[i].release + 0 + 1
<1>1. SoundBut(w[i], 0) /\ Timed(w[i])
  BY DEF Kept
<1> QED
  BY <1>1, RecordIs DEF SoundBut

(* Game::startDecay of one of them.                                          *)
LEMMA StartDecayKeeps ==
  ASSUME NEW w, Kept(w), NEW i \in Item, w[i].placed
  PROVE  Kept([w EXCEPT ![i] = StartDecay(@)])
<1>1. LET s == StartDecay(w[i]) IN SoundBut(s, 0) /\ Timed(s)
  BY KeptIs, StartDecayIs
<1> QED
  BY <1>1, BecomesKeeps

(* Game::transformItem, with and without startDecay.                         *)
LEMMA TransformedKeeps ==
  ASSUME NEW w, Kept(w), NEW i \in Item, w[i].placed, NEW k \in Kind,
         k \in Stop /\ DecayTime[k] = 0 => w[i].kind \in Stop \/ DecayTime[w[i].kind] > 0,
         Class[k] # Class[w[i].kind] => Free(w) # {}
  PROVE  LET t == Transformed(w, i, k)
         IN  Kept(t.items) /\ Kept([t.items EXCEPT ![t.at] = StartDecay(@)])
<1> DEFINE t == Transformed(w, i, k)
<1>0. Kept(t.items) /\ t.at \in Item /\ t.items[t.at].placed
      => Kept([t.items EXCEPT ![t.at] = StartDecay(@)])
  <2> HIDE DEF t
  <2> QED
    BY StartDecayKeeps
<1>1. /\ SoundBut(w[i], 0) /\ Timed(w[i]) /\ IsItem(w[i]) /\ w[i].kind \in Kind
      /\ w[i].refs = Total(w[i]) + w[i].release + 0 + 1
  BY KeptIs
<1>2. DOMAIN w = Item
  BY DEF Kept
<1>3. ASSUME Class[w[i].kind] = Class[k]
      PROVE  Kept(t.items) /\ t.at \in Item /\ t.items[t.at].placed
  <2>1. t = [at |-> i, items |-> [w EXCEPT ![i] = Renamed(w[i], k)]]
    BY <1>3 DEF Transformed
  <2>2. LET s == Renamed(w[i], k) IN SoundBut(s, 0) /\ Timed(s) /\ s.placed
    <3>1. w[i].decaying => (Total(w[i]) > 0 /\ w[i].duration > 0) \/ Idle(w[i].kind)
      BY <1>1 DEF SoundBut
    <3>2. LET s == Renamed(w[i], k) IN SoundBut(s, 0) /\ s.clock = NoClock /\ s.placed
      BY <1>1, <3>1, RenamedIs
    <3> QED
      BY <3>2 DEF Timed
  <2>3. Kept([w EXCEPT ![i] = Renamed(w[i], k)])
    BY <2>2, BecomesKeeps
  <2>4. t.at = i /\ t.items = [w EXCEPT ![i] = Renamed(w[i], k)]
    BY <2>1
  <2>5. t.items[i] = Renamed(w[i], k)
    BY <1>2, <2>4
  <2> QED
    BY <2>2, <2>3, <2>4, <2>5
<1>4. ASSUME Class[w[i].kind] # Class[k]
      PROVE  Kept(t.items) /\ t.at \in Item /\ t.items[t.at].placed
  <2> DEFINE j == CHOOSE j \in Free(w) : TRUE
             v == [w EXCEPT ![i] = Removed(w[i])]
             s == ListIfNew(Created(k))
  <2>1. j \in Free(w) /\ j \in Item
    <3>1. Free(w) # {}
      BY <1>4
    <3> QED
      BY <3>1 DEF Free
  <2>2. t.at = j /\ t.items = [w EXCEPT ![i] = Removed(@), ![j] = s]
    BY <1>4 DEF Transformed
  <2> HIDE DEF j, t
  <2>3. t.items = [v EXCEPT ![j] = s]
    BY <1>2, <2>2
  <2>4. SoundBut(s, 0) /\ Timed(s) /\ s.placed
    BY NewIs
  <2>5. LET q == Removed(w[i]) IN SoundBut(q, 0) /\ Timed(q)
    <3>1. LET q == Removed(w[i]) IN SoundBut(q, 0) /\ q.clock = NoClock
      BY <1>1, RemovedIs
    <3> QED
      BY <3>1 DEF Timed
  <2>6. Kept(v)
    BY <2>5, BecomesKeeps
  <2> HIDE DEF v, s
  <2>7. Kept(t.items)
    BY <2>1, <2>3, <2>4, <2>6, BecomesKeeps
  <2>8. t.items[j] = s
    BY <2>1, <2>3, <2>6 DEF Kept
  <2> QED
    BY <2>1, <2>2, <2>4, <2>7, <2>8
<1> QED
  BY <1>0, <1>3, <1>4

(* A new item (Game::internalAddItem).                                       *)
LEMMA AddItemKeeps ==
  ASSUME DecayInv, NEW i \in Item, NEW k \in Kind, AddItem(i, k)
  PROVE  DecayInv'
<1>1. ListIfNew(Created(k)) = IF Created(k).duration > 0 THEN List(Created(k)) ELSE Created(k)
  <2>1. Created(k).decaying = FALSE
    BY DEF Created, Freed
  <2> QED
    BY <2>1 DEF ListIfNew
<1>2. item' = [item EXCEPT ![i] = ListIfNew(Created(k))] /\ ended' = ended
  BY <1>1 DEF AddItem, Becomes
<1>3. Kept([item EXCEPT ![i] = ListIfNew(Created(k))])
  BY NewIs, BecomesKeeps DEF DecayInv
<1> QED
  BY <1>2, <1>3 DEF DecayInv, Kept

(* An item is moved (Game::internalMoveItem).                                *)
LEMMA MoveItemKeeps ==
  ASSUME DecayInv, NEW i \in Item, MoveItem(i)
  PROVE  DecayInv'
<1>1. item' = [item EXCEPT ![i] = ListIfNew(item[i])] /\ ended' = ended /\ item[i].placed
  BY DEF MoveItem, Becomes
<1>2. LET s == ListIfNew(item[i]) IN SoundBut(s, 0) /\ Timed(s)
  BY <1>1, KeptIs, ListIfNewIs DEF DecayInv
<1>3. Kept([item EXCEPT ![i] = ListIfNew(item[i])])
  BY <1>2, BecomesKeeps DEF DecayInv
<1> QED
  BY <1>1, <1>3 DEF DecayInv, Kept

(* A part of a stack becomes an item of its own.                             *)
LEMMA SplitItemKeeps ==
  ASSUME DecayInv, NEW i \in Item, NEW j \in Item, SplitItem(i, j)
  PROVE  DecayInv'
<1> DEFINE c == item[i]
           r == [Created(c.kind) EXCEPT !.duration = c.duration, !.decaying = c.decaying]
           s == IF r.duration > 0 THEN List(r) ELSE r
<1>1. item' = [item EXCEPT ![j] = s] /\ ended' = ended /\ c.placed
  BY DEF SplitItem, Becomes
<1>2. SoundBut(c, 0) /\ IsItem(c) /\ c.kind \in Kind /\ c.duration \in Nat /\ c.decaying \in BOOLEAN
  BY <1>1, KeptIs, RecordIs DEF DecayInv
<1>3. /\ DOMAIN r = Names /\ r.kind = c.kind /\ r.duration = c.duration /\ r.decaying = c.decaying
      /\ r.placed \in BOOLEAN /\ r.placed /\ r.refs = 1 /\ r.toDecay = 0 /\ r.release = 0
      /\ r.at = [b \in Bucket |-> 0] /\ r.clock = NoClock
  BY DEF Created, Freed, Names
<1> HIDE DEF c, r
<1>4. IsItem(r) /\ Total(r) = 0
  BY <1>2, <1>3, CreatedIs
<1>5. CASE r.duration > 0
  <2>1. SoundBut(List(r), 0) /\ Timed(List(r))
    BY <1>2, <1>3, <1>4, <1>5, ListIs
  <2> QED
    BY <1>1, <1>5, <2>1, BecomesKeeps DEF DecayInv
<1>6. CASE ~(r.duration > 0)
  <2>1. CanDecay(r) <=> CanDecay(c)
    BY <1>1, <1>3 DEF CanDecay
  <2>2. SoundBut(r, 0) /\ Timed(r)
    BY <1>1, <1>2, <1>3, <1>4, <1>6, <2>1 DEF SoundBut, Timed
  <2> QED
    BY <1>1, <1>6, <2>2, BecomesKeeps DEF DecayInv
<1> QED
  BY <1>5, <1>6

(* An item is removed (Game::internalRemoveItem).                            *)
LEMMA RemoveItemKeeps ==
  ASSUME DecayInv, NEW i \in Item, RemoveItem(i)
  PROVE  DecayInv'
<1>1. item' = [item EXCEPT ![i] = Removed(item[i])] /\ ended' = ended /\ item[i].placed
  BY DEF RemoveItem, Becomes
<1>2. LET s == Removed(item[i]) IN SoundBut(s, 0) /\ s.clock = NoClock
  BY <1>1, KeptIs, RemovedIs DEF DecayInv
<1>3. Kept([item EXCEPT ![i] = Removed(item[i])])
  BY <1>2, BecomesKeeps DEF DecayInv, Timed
<1> QED
  BY <1>1, <1>3 DEF DecayInv, Kept

(* An item is put on, taken off or transformed by a script.                  *)
LEMMA TransformItemKeeps ==
  ASSUME DecayInv, NEW i \in Item, NEW k \in Kind, TransformItem(i, k)
  PROVE  DecayInv'
<1> DEFINE t == Transformed(item, i, k)
<1>1. /\ item[i].placed /\ <<item[i].kind, k>> \in Turn
      /\ Class[k] # Class[item[i].kind] => Free(item) # {}
      /\ item' \in {t.items, [t.items EXCEPT ![t.at] = StartDecay(@)]} /\ ended' = ended
  BY DEF TransformItem
<1>2. k \in Stop /\ DecayTime[k] = 0 => item[i].kind \in Stop \/ DecayTime[item[i].kind] > 0
  BY <1>1, DecayAssumption
<1>3. Kept(t.items) /\ Kept([t.items EXCEPT ![t.at] = StartDecay(@)])
  BY <1>1, <1>2, TransformedKeeps DEF DecayInv
<1> HIDE DEF t
<1> QED
  BY <1>1, <1>3 DEF DecayInv, Kept

(* A script asks for the decay of an item, or it is loaded.                  *)
LEMMA DecayItemKeeps ==
  ASSUME DecayInv, NEW i \in Item, DecayItem(i)
  PROVE  DecayInv'
<1>1. item' = [item EXCEPT ![i] = StartDecay(item[i])] /\ ended' = ended /\ item[i].placed
  BY DEF DecayItem, Becomes
<1>2. LET s == StartDecay(item[i]) IN SoundBut(s, 0) /\ Timed(s)
  BY <1>1, KeptIs, StartDecayIs DEF DecayInv
<1>3. Kept([item EXCEPT ![i] = StartDecay(item[i])])
  BY <1>2, BecomesKeeps DEF DecayInv
<1> QED
  BY <1>1, <1>3 DEF DecayInv, Kept

(* A script sets the duration of an item.                                    *)
LEMMA SetDurationKeeps ==
  ASSUME DecayInv, NEW i \in Item, NEW d \in Duration, SetDuration(i, d)
  PROVE  DecayInv'
<1> DEFINE r == item[i]
           c == IF r.toDecay = 1 /\ Entries(r) = 1 THEN d ELSE NoClock
           s == [r EXCEPT !.duration = d, !.clock = c]
<1>1. item' = [item EXCEPT ![i] = s] /\ ended' = ended /\ r.placed /\ DecayTime[r.kind] > 0
  BY DEF SetDuration, Becomes
<1>2. SoundBut(r, 0) /\ IsItem(r) /\ d \in Nat /\ d > 0 /\ Entries(r) = Total(r)
  BY KeptIs, RecordIs, DecayAssumption DEF DecayInv
<1>3. /\ DOMAIN s = Names
      /\ s.kind = r.kind /\ s.duration = d /\ s.decaying = r.decaying /\ s.placed = r.placed
      /\ s.refs = r.refs /\ s.toDecay = r.toDecay /\ s.at = r.at /\ s.release = r.release
      /\ s.clock = c
  BY <1>2 DEF IsItem, Names
<1> HIDE DEF r, s
<1>4. IsItem(s) /\ Total(s) = Total(r)
  <2>1. c \in Int \cup {NoClock}
    BY <1>2
  <2> QED
    BY <1>2, <1>3, <2>1, RecordIs, TotalSame DEF IsItem
<1>5. SoundBut(s, 0)
  <2>1. DecayTime[r.kind] # 0
    BY <1>1
  <2> QED
    BY <1>1, <1>2, <1>3, <1>4, <2>1 DEF SoundBut, CanDecay, Idle
<1>6. Timed(s)
  <2> SUFFICES ASSUME s.clock # NoClock
               PROVE  /\ Untouched(s)
                      /\ s.toDecay = 1 => s.clock = s.duration
                      /\ \A b \in Bucket : s.at[b] = 1 => OnTime(s.duration, b, s.clock)
    BY DEF Timed
  <2>1. r.toDecay = 1 /\ Total(r) = 1 /\ s.clock = d
    BY <1>2, <1>3
  <2>2. Untouched(s)
    BY <1>1, <1>2, <1>3, <1>4, <2>1 DEF Untouched
  <2>3. \A b \in Bucket : s.at[b] = 0
    BY <1>3, <1>4, <2>1, <2>2, UntouchedIs
  <2> QED
    BY <1>3, <2>1, <2>2, <2>3
<1>7. Kept([item EXCEPT ![i] = s])
  BY <1>5, <1>6, BecomesKeeps DEF DecayInv
<1> QED
  BY <1>1, <1>7 DEF DecayInv, Kept

(* Game::cleanup without a check.                                            *)
LEMMA CleanupKeeps ==
  ASSUME DecayInv, Cleanup
  PROVE  DecayInv'
<1>1. item' = [x \in Item |-> Cleaned(item[x])] /\ ended' = ended
  BY DEF Cleanup
<1>2. ASSUME NEW x \in Item PROVE SoundBut(Cleaned(item[x]), 0) /\ Timed(Cleaned(item[x]))
  BY KeptIs, TimedIs, CleanedIs DEF DecayInv
<1> QED
  BY <1>1, <1>2 DEF DecayInv, Kept

-----------------------------------------------------------------------------
(* During a check.                                                           *)

Left(r) == IF r.duration > Second THEN r.duration - Second ELSE 0

(* An entry is taken out of the bucket that is checked.                      *)
Erased(r) ==
  [r EXCEPT !.duration = IF CanDecay(r) THEN Left(r) ELSE @, !.at[0] = @ - 1]

LeavesNew(r) == r.placed /\ r.at[0] > 0 /\ r.kind \in Replaceable

(* What one visit makes of an item.                                          *)
VisitMakes(r, s) ==
  /\ SoundBut(s, 0) /\ s.refs > 0
  /\ s.at[0] >= r.at[0] - 1
  /\ TimedAfter(s) /\ (r.at[0] > 1 => s.clock = NoClock)
  /\ r.clock # NoClock => (s.kind = r.kind /\ s.placed) \/ r.clock \in -3 .. 6
  /\ LeavesNew(s) => LeavesNew(r)

(* An item of another class is made of one of these, and of no other.        *)
LEMMA ReplaceableAre ==
  ASSUME NEW k \in Kind, DecayTo[k] \in Kind
  PROVE  /\ Class[DecayTo[k]] # Class[k] => k \in Replaceable
         /\ DecayTo[k] \in Replaceable => k \in Replaceable
<1> SUFFICES ASSUME k \notin Replaceable
             PROVE  Class[DecayTo[k]] = Class[k] /\ DecayTo[k] \notin Replaceable
  OBVIOUS
<1>1. PICK S \in SUBSET Kind : Lasting(S) /\ k \in S
  BY DEF Replaceable
<1>2. DecayTo[k] \in S /\ Class[DecayTo[k]] = Class[k]
  BY <1>1 DEF Lasting
<1> QED
  BY <1>1, <1>2 DEF Replaceable

(* An item with an entry in the bucket that is checked.                      *)
LEMMA ErasedIs ==
  ASSUME NEW r, IsItem(r), r.at[0] > 0
  PROVE  LET e == Erased(r)
         IN  /\ IsItem(e) /\ Total(e) = Total(r) - 1 /\ Total(e) \in Nat
             /\ e.at[0] = r.at[0] - 1 /\ e.at[1] = r.at[1] /\ e.at[2] = r.at[2] /\ e.at[3] = r.at[3]
             /\ e.kind = r.kind /\ e.placed = r.placed /\ e.decaying = r.decaying
             /\ e.refs = r.refs /\ e.release = r.release /\ e.toDecay = r.toDecay
             /\ e.clock = r.clock
             /\ e.duration = IF CanDecay(r) THEN Left(r) ELSE r.duration
<1> DEFINE e == Erased(r)
<1>1. /\ DOMAIN e = Names
      /\ e.kind = r.kind /\ e.placed = r.placed /\ e.decaying = r.decaying
      /\ e.refs = r.refs /\ e.release = r.release /\ e.toDecay = r.toDecay /\ e.clock = r.clock
      /\ e.duration = IF CanDecay(r) THEN Left(r) ELSE r.duration
      /\ e.at = [r.at EXCEPT ![0] = @ - 1]
  BY DEF Erased, IsItem, Names
<1> HIDE DEF e
<1>2. /\ r.at \in [Bucket -> Nat] /\ r.duration \in Nat /\ r.toDecay \in Nat
      /\ r.at[0] \in Nat /\ r.at[1] \in Nat /\ r.at[2] \in Nat /\ r.at[3] \in Nat
  BY RecordIs
<1>3. /\ e.at \in [Bucket -> Nat]
      /\ e.at[0] = r.at[0] - 1 /\ e.at[1] = r.at[1] /\ e.at[2] = r.at[2] /\ e.at[3] = r.at[3]
  BY <1>1, <1>2 DEF Bucket
<1>4. Total(e) = Total(r) - 1 /\ Total(e) \in Nat
  <2> DEFINE n == r.at[0]
  <2>1. Total(r) = r.toDecay + n + r.at[1] + r.at[2] + r.at[3]
        /\ Total(e) = r.toDecay + (n - 1) + r.at[1] + r.at[2] + r.at[3] /\ n \in Nat /\ n > 0
    BY <1>1, <1>2, <1>3 DEF Total
  <2> HIDE DEF n
  <2> QED
    BY <1>2, <2>1
<1>5. e.duration \in Nat
  BY <1>1, <1>2 DEF Left, Second
<1>6. IsItem(e)
  BY <1>1, <1>3, <1>5, RecordIs DEF IsItem
<1> QED
  BY <1>1, <1>3, <1>4, <1>6 DEF e

(* Of an item with one that nobody touched, it is the only one.              *)
LEMMA OnlyEntry ==
  ASSUME NEW r, IsItem(r), TimedBefore(r), r.at[0] > 0, r.clock # NoClock
  PROVE  /\ r.at[0] = 1 /\ r.toDecay = 0 /\ r.at[1] = 0 /\ r.at[2] = 0 /\ r.at[3] = 0
         /\ r.placed /\ r.duration \in Nat /\ r.clock \in Int /\ OnTime(r.duration, 0, r.clock + 2)
<1>1. Untouched(r) /\ r.duration \in Nat /\ r.clock \in Int
  BY RecordIs DEF TimedBefore
<1>2. 0 \in Bucket /\ 1 \in Bucket /\ 2 \in Bucket /\ 3 \in Bucket
  BY DEF Bucket
<1>3. r.at[0] = 1
  BY <1>1, <1>2, UntouchedIs
<1>4. r.toDecay = 0 /\ r.at[1] = 0 /\ r.at[2] = 0 /\ r.at[3] = 0
  BY <1>1, <1>2, <1>3, UntouchedIs
<1>5. r.placed /\ OnTime(r.duration, 0, r.clock + 2)
  BY <1>1, <1>2, <1>3 DEF TimedBefore, Untouched
<1> QED
  BY <1>1, <1>3, <1>4, <1>5

(* What decays, decays in time.                                              *)
LEMMA OverInTime ==
  ASSUME NEW r, IsItem(r), TimedBefore(r), r.at[0] > 0, r.clock # NoClock, IsOver(Left(r))
  PROVE  r.clock \in -3 .. 6
<1>1. r.duration \in Nat /\ r.clock \in Int /\ OnTime(r.duration, 0, r.clock + 2) /\ r.duration > 0
  BY OnlyEntry DEF TimedBefore, Untouched
<1>2. Left(r) \in Nat /\ Left(r) < 7
  <2>1. Left(r) \in Nat /\ Left(r) < 8
    BY <1>1 DEF Left, IsOver, Second
  <2>2. (Left(r) + 1) \div 8 = 0
    BY DEF IsOver, Second, DecayInterval
  <2>3. Left(r) # 7
    BY <2>2
  <2> QED
    BY <2>1, <2>3
<1>3. CASE r.duration < 8
  BY <1>1, <1>3 DEF OnTime, Second
<1>4. CASE r.duration >= 8
  <2>1. r.clock \in {r.duration - 8, r.duration - 10}
    BY <1>1, <1>4 DEF OnTime, Second
  <2>2. r.duration - 8 < 7
    BY <1>1, <1>2, <1>4 DEF Left, Second
  <2> QED
    BY <1>1, <1>4, <2>1, <2>2
<1> QED
  BY <1>1, <1>3, <1>4

(* The references of an item, and one of the check.                          *)
LEMMA ErasedRefs ==
  ASSUME NEW r, SoundBut(r, 0), r.at[0] > 0
  PROVE  LET e == Erased(r)
         IN  /\ e.refs = Total(e) + e.release + 1 + IF e.placed THEN 1 ELSE 0
             /\ e.refs > 0 /\ r.refs > 0 /\ e.release \in Nat /\ IsItem(e)
<1> DEFINE e == Erased(r)
<1>1. IsItem(r)
  BY DEF SoundBut
<1>2. /\ IsItem(e) /\ Total(e) = Total(r) - 1 /\ Total(e) \in Nat /\ e.placed = r.placed
      /\ e.refs = r.refs /\ e.release = r.release
  BY <1>1, ErasedIs
<1> HIDE DEF e
<1>3. r.release \in Nat /\ Total(r) \in Nat /\ r.refs \in Nat
  BY <1>1, RecordIs
<1>4. r.refs = Total(r) + r.release + 0 + IF r.placed THEN 1 ELSE 0
  BY DEF SoundBut
<1>5. e.refs = Total(e) + e.release + 1 + IF e.placed THEN 1 ELSE 0
  <2>1. CASE r.placed
    BY <1>2, <1>3, <1>4, <2>1
  <2>2. CASE ~r.placed
    BY <1>2, <1>3, <1>4, <2>2
  <2> QED
    BY <2>1, <2>2
<1>6. e.refs > 0
  BY <1>2, <1>3, <1>5
<1> QED
  BY <1>2, <1>3, <1>5, <1>6 DEF e

(* The numbers of an item of which an entry is erased.                       *)
LEMMA ErasedNumbers ==
  ASSUME NEW r, SoundBut(r, 0), r.at[0] > 0
  PROVE  /\ IsItem(r) /\ r.at[0] \in Nat /\ r.at[0] - 1 \in Nat /\ Total(r) \in Nat /\ Total(r) > 0
         /\ r.at[0] <= Total(r)
<1>1. IsItem(r)
  BY DEF SoundBut
<1>2. r.at[0] \in Nat /\ Total(r) \in Nat /\ r.at[0] <= Total(r)
  BY <1>1, RecordIs DEF Bucket
<1> QED
  BY <1>1, <1>2

(* An item that cannot decay any more (game.cpp:4921).                       *)
LEMMA StoppedIs ==
  ASSUME NEW r, SoundBut(r, 0), TimedBefore(r), r.at[0] > 0, ~CanDecay(r)
  PROVE  VisitMakes(r, [Erased(r) EXCEPT !.decaying = FALSE, !.release = @ + 1, !.clock = NoClock])
<1> DEFINE e == Erased(r)
           s == [e EXCEPT !.decaying = FALSE, !.release = @ + 1, !.clock = NoClock]
<1>1. IsItem(r) /\ r.at[0] \in Nat
  BY ErasedNumbers
<1>2. /\ IsItem(e) /\ Total(e) \in Nat
      /\ e.at[0] = r.at[0] - 1
      /\ e.kind = r.kind /\ e.placed = r.placed /\ e.refs = r.refs
  BY <1>1, ErasedIs
<1>3. /\ e.refs = Total(e) + e.release + 1 + IF e.placed THEN 1 ELSE 0
      /\ e.refs > 0 /\ e.release \in Nat
  BY ErasedRefs
<1> HIDE DEF e
<1>4. /\ DOMAIN s = Names
      /\ s.kind = e.kind /\ s.duration = e.duration /\ s.decaying = FALSE /\ s.decaying \in BOOLEAN
      /\ s.placed = e.placed /\ s.refs = e.refs /\ s.toDecay = e.toDecay /\ s.at = e.at
      /\ s.release = e.release + 1 /\ s.clock = NoClock
  BY <1>2 DEF IsItem, Names
<1> HIDE DEF s
<1>5. IsItem(s) /\ Total(s) = Total(e)
  BY <1>2, <1>3, <1>4, RecordIs, TotalSame DEF IsItem
<1>6. SoundBut(s, 0)
  <2>1. s.refs = Total(s) + s.release + 0 + IF s.placed THEN 1 ELSE 0
    <3>1. CASE e.placed
      BY <1>2, <1>3, <1>4, <1>5, <3>1
    <3>2. CASE ~e.placed
      BY <1>2, <1>3, <1>4, <1>5, <3>2
    <3> QED
      BY <3>1, <3>2
  <2>2. ~CanDecay(s)
    BY <1>2, <1>4 DEF CanDecay
  <2>3. s.placed => s.kind \in Kind
    BY <1>2, <1>4 DEF SoundBut
  <2> QED
    BY <1>4, <1>5, <2>1, <2>2, <2>3 DEF SoundBut
<1>7. r.clock # NoClock => s.kind = r.kind /\ s.placed
  <2>1. r.clock # NoClock => r.placed
    BY DEF TimedBefore, Untouched
  <2> QED
    BY <1>2, <1>4, <2>1
<1>8. LeavesNew(s) => LeavesNew(r)
  BY <1>2, <1>4 DEF LeavesNew
<1> QED
  BY <1>1, <1>2, <1>3, <1>4, <1>6, <1>7, <1>8 DEF VisitMakes, TimedAfter, s, e

(* An item that is removed because its time is over.                         *)
LEMMA VanishedIs ==
  ASSUME NEW r, SoundBut(r, 0), TimedBefore(r), r.at[0] > 0, CanDecay(r), IsOver(Left(r))
  PROVE  LET s == [Removed(Erased(r)) EXCEPT !.release = @ + 1]
         IN  VisitMakes(r, s) /\ s.placed = FALSE
<1> DEFINE e == Erased(r)
           q == Removed(e)
           s == [q EXCEPT !.release = @ + 1]
<1>1. IsItem(r) /\ r.at[0] \in Nat /\ r.placed
  BY ErasedNumbers DEF CanDecay
<1>2. /\ IsItem(e) /\ Total(e) \in Nat /\ e.at[0] = r.at[0] - 1
      /\ e.kind = r.kind /\ e.placed = r.placed /\ e.refs = r.refs
  BY <1>1, ErasedIs
<1>3. e.refs = Total(e) + e.release + 1 + 1 /\ e.refs > 0
  BY <1>1, <1>2, ErasedRefs
<1> HIDE DEF e
<1>4. SoundBut(q, 1) /\ q.placed = FALSE /\ q.at = e.at /\ q.refs = e.refs /\ q.clock = NoClock
  BY <1>1, <1>2, <1>3, RemovedIs
<1> HIDE DEF q
<1>5. SoundBut(s, 0) /\ s.placed = FALSE /\ s.at = e.at /\ s.refs = e.refs /\ s.clock = NoClock
  BY <1>4, ReleasedIs
<1> HIDE DEF s
<1>6. r.clock # NoClock => r.clock \in -3 .. 6
  BY <1>1, OverInTime
<1>7. VisitMakes(r, s)
  BY <1>1, <1>2, <1>3, <1>5, <1>6 DEF VisitMakes, TimedAfter, LeavesNew
<1> QED
  BY <1>5, <1>7 DEF s, q, e

(* An item that becomes one of the same class.                               *)
LEMMA TurnedIntoIs ==
  ASSUME NEW r, SoundBut(r, 0), TimedBefore(r), r.at[0] > 0, CanDecay(r), IsOver(Left(r)),
         DecayTo[r.kind] \in Kind
  PROVE  VisitMakes(r, [StartDecay(Renamed(Erased(r), DecayTo[r.kind])) EXCEPT !.release = @ + 1])
<1> DEFINE e == Erased(r)
           k == DecayTo[r.kind]
           q == Renamed(e, k)
           p == StartDecay(q)
           s == [p EXCEPT !.release = @ + 1]
<1>1. IsItem(r) /\ r.at[0] \in Nat /\ r.placed /\ r.kind \in Kind /\ DecayTime[r.kind] > 0
  BY ErasedNumbers DEF CanDecay, SoundBut
<1>2. /\ IsItem(e) /\ Total(e) = Total(r) - 1 /\ Total(e) \in Nat /\ e.at[0] = r.at[0] - 1
      /\ e.kind = r.kind /\ e.placed = r.placed /\ e.refs = r.refs
  BY <1>1, ErasedIs
<1>3. e.refs = Total(e) + e.release + 1 + 1
  BY <1>1, <1>2, ErasedRefs
<1>4. r.kind \notin Stop /\ k \notin Stop
  BY <1>1, DecayAssumption
<1>5. Total(r) \in Nat /\ r.at[0] <= Total(r)
  BY ErasedNumbers
<1> HIDE DEF e
<1>6. SoundBut(q, 1) /\ q.placed /\ q.at = e.at /\ q.clock = NoClock /\ q.kind = k /\ Total(q) = Total(e)
  BY <1>1, <1>2, <1>3, <1>4, RenamedIs
<1> HIDE DEF q
<1>7. /\ SoundBut(p, 1) /\ p.placed /\ p.kind = k /\ p.at = e.at /\ TimedAfter(p)
      /\ Total(q) > 0 => p.clock = NoClock
  BY <1>6, StartDecayIs
<1> HIDE DEF p
<1>8. /\ SoundBut(s, 0) /\ s.placed = p.placed /\ s.kind = k /\ s.at = e.at /\ TimedAfter(s)
      /\ s.refs = p.refs /\ s.clock = p.clock
  BY <1>7, ReleasedIs
<1>9. s.refs > 0
  <2>1. IsItem(s) /\ s.refs = Total(s) + s.release + 0 + IF s.placed THEN 1 ELSE 0
    BY <1>8 DEF SoundBut
  <2>2. Total(s) \in Nat /\ s.release \in Nat
    BY <2>1, RecordIs
  <2> QED
    BY <1>7, <1>8, <2>1, <2>2
<1>10. r.at[0] > 1 => s.clock = NoClock
  BY <1>1, <1>2, <1>5, <1>6, <1>7, <1>8
<1>11. r.clock # NoClock => r.clock \in -3 .. 6
  BY <1>1, OverInTime
<1>12. LeavesNew(s) => LeavesNew(r)
  BY <1>1, <1>8, ReplaceableAre DEF LeavesNew
<1> HIDE DEF s
<1>13. VisitMakes(r, s)
  BY <1>1, <1>2, <1>8, <1>9, <1>10, <1>11, <1>12 DEF VisitMakes
<1> QED
  BY <1>13 DEF s, p, q, e

(* An item that waits for the next check.                                    *)
LEMMA NextCheckIs ==
  ASSUME NEW r, SoundBut(r, 0), TimedBefore(r), r.at[0] > 0, CanDecay(r),
         Left(r) < Second, ~IsOver(Left(r))
  PROVE  VisitMakes(r, [Erased(r) EXCEPT !.at[1] = @ + 1])
<1> DEFINE e == Erased(r)
           s == [e EXCEPT !.at[1] = @ + 1]
<1>1. /\ IsItem(r) /\ r.at[0] \in Nat /\ r.placed /\ r.kind \in Kind /\ DecayTime[r.kind] > 0
      /\ Total(r) \in Nat /\ Total(r) > 0 /\ r.refs > 0
  BY ErasedNumbers, ErasedRefs DEF CanDecay, SoundBut
<1>2. /\ IsItem(e) /\ Total(e) = Total(r) - 1
      /\ e.at[0] = r.at[0] - 1 /\ e.at[1] = r.at[1] /\ e.at[2] = r.at[2] /\ e.at[3] = r.at[3]
      /\ e.kind = r.kind /\ e.placed = r.placed /\ e.decaying = r.decaying
      /\ e.refs = r.refs /\ e.release = r.release /\ e.toDecay = r.toDecay /\ e.clock = r.clock
      /\ e.duration = Left(r)
  BY <1>1, ErasedIs
<1>3. Left(r) = 7 /\ r.duration = 15
  <2>1. r.duration \in Nat
    BY <1>1, RecordIs
  <2>2. Left(r) \in Nat /\ Left(r) < 8
    BY <2>1 DEF Left, Second
  <2>3. (Left(r) + 1) \div 8 # 0
    BY <2>2 DEF IsOver, Second, DecayInterval
  <2>4. Left(r) = 7
    BY <2>2, <2>3
  <2> QED
    BY <2>1, <2>4 DEF Left, Second
<1> HIDE DEF e
<1>4. /\ DOMAIN s = Names
      /\ s.kind = e.kind /\ s.duration = e.duration /\ s.decaying = e.decaying
      /\ s.placed = e.placed /\ s.refs = e.refs /\ s.toDecay = e.toDecay
      /\ s.at = [e.at EXCEPT ![1] = @ + 1]
      /\ s.release = e.release /\ s.clock = e.clock
  BY <1>2 DEF IsItem, Names
<1> HIDE DEF s
<1>5. /\ e.at \in [Bucket -> Nat] /\ e.toDecay \in Nat
      /\ e.at[0] \in Nat /\ e.at[1] \in Nat /\ e.at[2] \in Nat /\ e.at[3] \in Nat
  BY <1>2, RecordIs
<1>6. /\ s.at \in [Bucket -> Nat]
      /\ s.at[0] = e.at[0] /\ s.at[1] = e.at[1] + 1 /\ s.at[2] = e.at[2] /\ s.at[3] = e.at[3]
  BY <1>4, <1>5 DEF Bucket
<1>7. Total(s) = Total(r)
  <2>1. Total(s) = Total(e) + 1
    BY <1>4, <1>5, <1>6 DEF Total
  <2> QED
    BY <1>1, <1>2, <2>1
<1>8. IsItem(s)
  BY <1>2, <1>4, <1>6, RecordIs DEF IsItem
<1>9. SoundBut(s, 0)
  <2>1. s.refs = Total(s) + s.release + 0 + IF s.placed THEN 1 ELSE 0
    BY <1>2, <1>4, <1>7 DEF SoundBut
  <2>2. s.duration > 0
    BY <1>2, <1>3, <1>4
  <2> QED
    BY <1>1, <1>2, <1>4, <1>7, <1>8, <2>1, <2>2 DEF SoundBut
<1>10. r.at[0] > 1 => s.clock = NoClock
  BY <1>1, <1>2, <1>4, OnlyEntry
<1>11. TimedAfter(s)
  <2> SUFFICES ASSUME s.clock # NoClock
               PROVE  /\ Untouched(s)
                      /\ s.toDecay = 1 => s.clock \in {s.duration, s.duration - 2}
                      /\ \A b \in Bucket : s.at[b] = 1 => OnTime(s.duration, (b + 3) % 4, s.clock)
    BY DEF TimedAfter
  <2>1. r.clock # NoClock
    BY <1>2, <1>4
  <2>2. /\ r.at[0] = 1 /\ r.toDecay = 0 /\ r.at[1] = 0 /\ r.at[2] = 0 /\ r.at[3] = 0
        /\ r.clock \in Int /\ OnTime(r.duration, 0, r.clock + 2)
    BY <1>1, <2>1, OnlyEntry
  <2>3. s.clock \in {7, 5}
    BY <1>2, <1>3, <1>4, <2>2 DEF OnTime, Second
  <2>4. Untouched(s)
    BY <1>1, <1>2, <1>3, <1>4, <1>7, <2>1 DEF Untouched, TimedBefore
  <2>5. ASSUME NEW b \in Bucket, s.at[b] = 1 PROVE OnTime(s.duration, (b + 3) % 4, s.clock)
    <3>1. b = 1
      BY <1>2, <1>6, <2>2, <2>5 DEF Bucket
    <3> QED
      BY <1>2, <1>3, <1>4, <2>3, <3>1 DEF OnTime, Second
  <2> QED
    BY <1>2, <1>4, <2>2, <2>4, <2>5
<1>12. r.clock # NoClock => s.kind = r.kind /\ s.placed
  BY <1>1, <1>2, <1>4
<1>13. LeavesNew(s) => LeavesNew(r)
  BY <1>1, <1>2, <1>4 DEF LeavesNew
<1>14. VisitMakes(r, s)
  BY <1>1, <1>2, <1>4, <1>6, <1>9, <1>10, <1>11, <1>12, <1>13 DEF VisitMakes
<1> QED
  BY <1>14 DEF s, e

(* An item that has a second or more left stays where it is.                 *)
LEMMA StaysIs ==
  ASSUME NEW r, SoundBut(r, 0), TimedBefore(r), r.at[0] > 0, CanDecay(r), ~(Left(r) < Second)
  PROVE  VisitMakes(r, [r EXCEPT !.duration = Left(r)])
<1> DEFINE s == [r EXCEPT !.duration = Left(r)]
<1>1. /\ IsItem(r) /\ r.at[0] \in Nat /\ r.placed /\ r.kind \in Kind
      /\ Total(r) \in Nat /\ Total(r) > 0 /\ r.refs > 0 /\ r.duration \in Nat
  BY ErasedNumbers, ErasedRefs, RecordIs DEF CanDecay, SoundBut
<1>2. Left(r) \in Nat /\ Left(r) >= 8 /\ r.duration = Left(r) + 8
  <2>1. Left(r) \in Nat
    BY <1>1 DEF Left, Second
  <2> QED
    BY <1>1, <2>1 DEF Left, Second
<1>3. /\ DOMAIN s = Names
      /\ s.kind = r.kind /\ s.duration = Left(r) /\ s.decaying = r.decaying
      /\ s.placed = r.placed /\ s.refs = r.refs /\ s.toDecay = r.toDecay /\ s.at = r.at
      /\ s.release = r.release /\ s.clock = r.clock
  BY <1>1 DEF IsItem, Names
<1> HIDE DEF s
<1>4. IsItem(s) /\ Total(s) = Total(r)
  BY <1>1, <1>2, <1>3, RecordIs, TotalSame DEF IsItem
<1>5. SoundBut(s, 0)
  <2>1. s.duration > 0
    BY <1>2, <1>3
  <2> QED
    BY <1>1, <1>3, <1>4, <2>1 DEF SoundBut
<1>6. r.at[0] > 1 => s.clock = NoClock
  BY <1>1, <1>3, OnlyEntry
<1>7. TimedAfter(s)
  <2> SUFFICES ASSUME s.clock # NoClock
               PROVE  /\ Untouched(s)
                      /\ s.toDecay = 1 => s.clock \in {s.duration, s.duration - 2}
                      /\ \A b \in Bucket : s.at[b] = 1 => OnTime(s.duration, (b + 3) % 4, s.clock)
    BY DEF TimedAfter
  <2>1. /\ r.at[0] = 1 /\ r.toDecay = 0 /\ r.at[1] = 0 /\ r.at[2] = 0 /\ r.at[3] = 0
        /\ r.clock \in Int /\ OnTime(r.duration, 0, r.clock + 2)
    BY <1>1, <1>3, OnlyEntry
  <2>2. s.clock \in {Left(r), Left(r) - 2}
    <3>1. r.clock + 2 \in {r.duration - 6, r.duration - 8}
      BY <1>2, <2>1 DEF OnTime, Second
    <3> QED
      BY <1>2, <1>3, <2>1, <3>1
  <2>3. Untouched(s)
    BY <1>2, <1>3, <1>4 DEF Untouched, TimedBefore
  <2>4. ASSUME NEW b \in Bucket, s.at[b] = 1 PROVE OnTime(s.duration, (b + 3) % 4, s.clock)
    <3>1. b = 0
      BY <1>3, <2>1, <2>4 DEF Bucket
    <3> QED
      BY <1>2, <1>3, <2>2, <3>1 DEF OnTime, Second
  <2> QED
    BY <1>3, <2>1, <2>3, <2>4
<1>8. r.clock # NoClock => s.kind = r.kind /\ s.placed
  BY <1>1, <1>3
<1>9. LeavesNew(s) => LeavesNew(r)
  BY <1>3 DEF LeavesNew
<1>10. VisitMakes(r, s)
  BY <1>1, <1>3, <1>5, <1>6, <1>7, <1>8, <1>9 DEF VisitMakes
<1> QED
  BY <1>10 DEF s

(* Items of which a new one may become in this check.                        *)
Leaving(w) == {x \in Item : LeavesNew(w[x])}

(* The check that began with `now` has got to w; todo visits are left.       *)
OfItem(now, w, todo, x) ==
  /\ SoundBut(w[x], 0) /\ todo[x] <= w[x].at[0]
  /\ todo[x] > 0 => TimedBefore(w[x])
  /\ todo[x] = 0 => TimedAfter(w[x])
  /\ now[x].clock # NoClock =>
       \/ now[x].clock \in -3 .. 6
       \/ /\ w[x].kind = now[x].kind /\ w[x].placed
          /\ todo[x] > 0 => w[x].clock = now[x].clock

During(now, w, todo) ==
  /\ DOMAIN w = Item /\ todo \in [Item -> Nat]
  /\ \A x \in Item : OfItem(now, w, todo, x)
  /\ Cardinality(Leaving(w)) <= Cardinality(Free(w))

(* Nothing is counted twice.                                                 *)
LEMMA CountsAre ==
  ASSUME NEW w
  PROVE  /\ IsFiniteSet(Leaving(w)) /\ IsFiniteSet(Free(w))
         /\ Cardinality(Leaving(w)) \in Nat /\ Cardinality(Free(w)) \in Nat
<1>1. IsFiniteSet(Item) /\ Leaving(w) \subseteq Item /\ Free(w) \subseteq Item
  BY DecayAssumption DEF Leaving, Free
<1>2. IsFiniteSet(Leaving(w)) /\ IsFiniteSet(Free(w))
  BY <1>1, FS_Subset
<1> QED
  BY <1>2, FS_CardinalityType

(* What an item that is not referenced has.                                  *)
LEMMA UnusedIs ==
  ASSUME NEW r, SoundBut(r, 0), r.refs = 0
  PROVE  ~r.placed /\ r.at[0] = 0
<1>1. r.refs = Total(r) + r.release + 0 + IF r.placed THEN 1 ELSE 0
  BY DEF SoundBut
<1>2. Total(r) \in Nat /\ r.release \in Nat /\ r.at[0] \in Nat /\ r.at[0] <= Total(r)
  BY RecordIs DEF SoundBut, Bucket
<1>3. ~r.placed
  BY <1>1, <1>2
<1> QED
  BY <1>1, <1>2, <1>3

(* The item that was visited.                                                *)
LEMMA VisitedKeeps ==
  ASSUME NEW now, NEW w, NEW todo, During(now, w, todo), NEW i \in Item, todo[i] > 0,
         NEW v, VisitMakes(w[i], v[i])
  PROVE  OfItem(now, v, [todo EXCEPT ![i] = @ - 1], i)
<1> DEFINE r == w[i]
           s == v[i]
           left == [todo EXCEPT ![i] = @ - 1]
<1>1. /\ SoundBut(r, 0) /\ todo[i] <= r.at[0] /\ TimedBefore(r)
      /\ now[i].clock # NoClock =>
           \/ now[i].clock \in -3 .. 6
           \/ r.kind = now[i].kind /\ r.placed /\ r.clock = now[i].clock
  BY DEF During, OfItem
<1>2. todo[i] \in Nat /\ todo \in [Item -> Nat] /\ left[i] = todo[i] - 1
  BY DEF During
<1>3. /\ SoundBut(s, 0) /\ s.refs > 0
      /\ s.at[0] >= r.at[0] - 1
      /\ TimedAfter(s) /\ (r.at[0] > 1 => s.clock = NoClock)
      /\ r.clock # NoClock => (s.kind = r.kind /\ s.placed) \/ r.clock \in -3 .. 6
  BY DEF VisitMakes
<1> HIDE DEF left, r, s
<1>4. IsItem(r) /\ r.at[0] \in Nat /\ s.at[0] \in Nat /\ r.at[0] > 0
  <2>1. IsItem(r) /\ IsItem(s)
    BY <1>1, <1>3 DEF SoundBut
  <2>2. r.at[0] \in Nat /\ s.at[0] \in Nat
    BY <2>1, RecordIs
  <2> QED
    BY <1>1, <1>2, <2>1, <2>2
<1>5. left[i] <= s.at[0]
  BY <1>1, <1>2, <1>3, <1>4
<1>6. left[i] > 0 => r.at[0] > 1
  BY <1>1, <1>2, <1>4
<1>7. left[i] > 0 => TimedBefore(s)
  BY <1>3, <1>6 DEF TimedBefore
<1>8. ASSUME now[i].clock # NoClock, now[i].clock \notin -3 .. 6
      PROVE  s.kind = now[i].kind /\ s.placed /\ (left[i] > 0 => s.clock = now[i].clock)
  <2>1. r.clock = now[i].clock /\ r.kind = now[i].kind
    BY <1>1, <1>8
  <2>2. r.at[0] = 1
    BY <1>1, <1>4, <1>8, <2>1, OnlyEntry
  <2> QED
    BY <1>2, <1>3, <1>6, <1>8, <2>1, <2>2
<1> QED
  BY <1>3, <1>5, <1>7, <1>8 DEF OfItem, left, s

(* A visit that changes one item.                                            *)
LEMMA OneVisited ==
  ASSUME NEW now, NEW w, NEW todo, During(now, w, todo), NEW i \in Item, todo[i] > 0,
         NEW s, VisitMakes(w[i], s)
  PROVE  LET v == [w EXCEPT ![i] = s]
         IN  /\ During(now, v, [todo EXCEPT ![i] = @ - 1])
             /\ \A x \in Item \ {i} : v[x].at[0] = w[x].at[0]
<1> DEFINE v == [w EXCEPT ![i] = s]
           left == [todo EXCEPT ![i] = @ - 1]
<1>1. DOMAIN v = Item /\ v[i] = s /\ \A x \in Item \ {i} : v[x] = w[x]
  BY DEF During
<1>2. left \in [Item -> Nat] /\ \A x \in Item \ {i} : left[x] = todo[x]
  BY DEF During
<1>3. OfItem(now, v, left, i)
  <2> HIDE DEF v
  <2> QED
    BY <1>1, VisitedKeeps
<1> HIDE DEF v, left
<1>4. \A x \in Item \ {i} : OfItem(now, v, left, x)
  BY <1>1, <1>2 DEF During, OfItem
<1>5. Leaving(v) \subseteq Leaving(w)
  BY <1>1 DEF Leaving, VisitMakes
<1>6. Free(v) = Free(w)
  <2>1. w[i].refs # 0
    <3>1. SoundBut(w[i], 0) /\ todo[i] <= w[i].at[0] /\ todo[i] \in Nat
      BY DEF During, OfItem
    <3>2. w[i].at[0] # 0
      BY <3>1
    <3> QED
      BY <3>1, <3>2, UnusedIs
  <2>2. s.refs # 0
    BY DEF VisitMakes
  <2> QED
    BY <1>1, <2>1, <2>2 DEF Free
<1>7. Cardinality(Leaving(v)) <= Cardinality(Free(v))
  <2>1. Cardinality(Leaving(v)) <= Cardinality(Leaving(w))
    BY <1>5, CountsAre, FS_Subset
  <2> QED
    BY <1>6, <2>1, CountsAre DEF During
<1>8. During(now, v, left)
  BY <1>1, <1>2, <1>3, <1>4, <1>7 DEF During
<1> QED
  BY <1>1, <1>8 DEF v, left

(* A visit that leaves a new item behind.                                    *)
LEMMA TwoVisited ==
  ASSUME NEW now, NEW w, NEW todo, During(now, w, todo), NEW i \in Item, todo[i] > 0,
         NEW v, DOMAIN v = Item, VisitMakes(w[i], v[i]), v[i].placed = FALSE, LeavesNew(w[i]),
         NEW j \in Free(w), \A x \in Item \ {i, j} : v[x] = w[x],
         SoundBut(v[j], 0), TimedAfter(v[j]), v[j].refs > 0, v[j].at[0] = 0
  PROVE  During(now, v, [todo EXCEPT ![i] = @ - 1])
<1> DEFINE left == [todo EXCEPT ![i] = @ - 1]
<1>0. SoundBut(w[i], 0) /\ w[i].at[0] # 0 /\ w[i].refs # 0
  <2>1. SoundBut(w[i], 0)
    BY DEF During, OfItem
  <2>2. w[i].at[0] # 0
    BY DEF LeavesNew
  <2> QED
    BY <2>1, <2>2, UnusedIs
<1>00. j \in Item /\ j # i /\ w[j].refs = 0 /\ SoundBut(w[j], 0)
  BY <1>0 DEF Free, During, OfItem
<1>000. ~w[j].placed /\ w[j].at[0] = 0
  BY <1>00, UnusedIs
<1>1. DOMAIN v = Item /\ \A x \in Item \ {i, j} : v[x] = w[x]
  OBVIOUS
<1>2. left \in [Item -> Nat] /\ \A x \in Item \ {i} : left[x] = todo[x]
  BY DEF During
<1>3. OfItem(now, v, left, i)
  BY <1>1, VisitedKeeps
<1> HIDE DEF left
<1>4. \A x \in Item \ {i, j} : OfItem(now, v, left, x)
  BY <1>1, <1>2 DEF During, OfItem
<1>5. OfItem(now, v, left, j)
  <2>1. left[j] = 0
    <3>1. todo[j] \in Nat /\ todo[j] <= w[j].at[0]
      BY <1>00 DEF During, OfItem
    <3> QED
      BY <1>2, <1>00, <1>000, <3>1
  <2>2. now[j].clock # NoClock => now[j].clock \in -3 .. 6
    BY <1>00, <1>000 DEF During, OfItem
  <2> QED
    BY <1>1, <2>1, <2>2 DEF OfItem
<1>6. Leaving(v) \subseteq Leaving(w) \ {i} /\ i \in Leaving(w)
  <2>1. i \notin Leaving(v)
    BY <1>1 DEF Leaving, LeavesNew
  <2>2. j \notin Leaving(v)
    BY <1>1 DEF Leaving, LeavesNew
  <2>3. \A x \in Item \ {i, j} : x \in Leaving(v) => x \in Leaving(w)
    BY <1>1 DEF Leaving
  <2> QED
    BY <2>1, <2>2, <2>3 DEF Leaving
<1>7. Free(v) = Free(w) \ {j}
  <2>1. v[i].refs # 0 /\ v[j].refs # 0
    BY DEF VisitMakes
  <2> QED
    BY <1>0, <1>00, <1>1, <2>1 DEF Free
<1>8. Cardinality(Leaving(v)) <= Cardinality(Free(v))
  <2>1. Cardinality(Leaving(w) \ {i}) = Cardinality(Leaving(w)) - 1 /\ IsFiniteSet(Leaving(w) \ {i})
    BY <1>6, CountsAre, FS_RemoveElement
  <2>2. Cardinality(Leaving(v)) <= Cardinality(Leaving(w) \ {i})
    BY <1>6, <2>1, FS_Subset
  <2>3. Cardinality(Free(v)) = Cardinality(Free(w)) - 1
    BY <1>7, CountsAre, FS_RemoveElement
  <2>4. /\ Cardinality(Leaving(v)) \in Nat /\ Cardinality(Leaving(w)) \in Nat
        /\ Cardinality(Free(v)) \in Nat /\ Cardinality(Free(w)) \in Nat
    BY CountsAre
  <2>5. Cardinality(Leaving(w)) <= Cardinality(Free(w))
    BY DEF During
  <2> QED
    BY <2>1, <2>2, <2>3, <2>4, <2>5
<1>9. During(now, v, left)
  BY <1>1, <1>2, <1>3, <1>4, <1>5, <1>8 DEF During
<1> QED
  BY <1>9 DEF left

(* What a visit is, case by case.                                            *)
LEMMA VisitIs ==
  ASSUME NEW w, NEW i \in Item
  PROVE  /\ ~CanDecay(w[i]) =>
              Visit(w, i) = [w EXCEPT ![i] = [Erased(w[i]) EXCEPT !.decaying = FALSE,
                                                !.release = @ + 1, !.clock = NoClock]]
         /\ CanDecay(w[i]) /\ IsOver(Left(w[i])) =>
              Visit(w, i) =
                [InternalDecay([w EXCEPT ![i] = Erased(w[i])], i) EXCEPT ![i].release = @ + 1]
         /\ CanDecay(w[i]) /\ Left(w[i]) < Second /\ ~IsOver(Left(w[i])) =>
              Visit(w, i) = [w EXCEPT ![i] = [Erased(w[i]) EXCEPT !.at[1] = @ + 1]]
         /\ CanDecay(w[i]) /\ ~(Left(w[i]) < Second) =>
              Visit(w, i) = [w EXCEPT ![i].duration = Left(w[i])]
<1> DEFINE A == [w EXCEPT ![i] = [Erased(w[i]) EXCEPT !.decaying = FALSE,
                                                !.release = @ + 1, !.clock = NoClock]]
           B == [InternalDecay([w EXCEPT ![i] = Erased(w[i])], i) EXCEPT ![i].release = @ + 1]
           C == [w EXCEPT ![i] = [Erased(w[i]) EXCEPT !.at[1] = @ + 1]]
           D == [w EXCEPT ![i].duration = Left(w[i])]
<1>1. Visit(w, i) = CASE ~CanDecay(w[i]) -> A
                      [] CanDecay(w[i]) /\ IsOver(Left(w[i])) -> B
                      [] CanDecay(w[i]) /\ Left(w[i]) < Second /\ ~IsOver(Left(w[i])) -> C
                      [] OTHER -> D
  BY DEF Visit, Erased, Left
<1> HIDE DEF A, B, C, D
<1>2. IsOver(Left(w[i])) => Left(w[i]) < Second
  BY DEF IsOver
<1>3. /\ ~CanDecay(w[i]) => Visit(w, i) = A
      /\ CanDecay(w[i]) /\ IsOver(Left(w[i])) => Visit(w, i) = B
      /\ CanDecay(w[i]) /\ Left(w[i]) < Second /\ ~IsOver(Left(w[i])) => Visit(w, i) = C
      /\ CanDecay(w[i]) /\ ~(Left(w[i]) < Second) => Visit(w, i) = D
  BY <1>1, <1>2
<1> QED
  BY <1>3 DEF A, B, C, D

(* What checkDecay does to an item of its bucket.                            *)
LEMMA VisitKeeps ==
  ASSUME NEW now, NEW w, NEW todo, During(now, w, todo), NEW i \in Item, todo[i] > 0
  PROVE  LET v == Visit(w, i)
         IN  /\ During(now, v, [todo EXCEPT ![i] = @ - 1])
             /\ \A x \in Item \ {i} : v[x].at[0] = w[x].at[0]
<1> DEFINE r == w[i]
           left == [todo EXCEPT ![i] = @ - 1]
           Good(v) == During(now, v, left) /\ \A x \in Item \ {i} : v[x].at[0] = w[x].at[0]
<1>1. DOMAIN w = Item /\ SoundBut(r, 0) /\ TimedBefore(r) /\ r.at[0] > 0
  <2>1. DOMAIN w = Item /\ SoundBut(r, 0) /\ TimedBefore(r) /\ todo[i] \in Nat /\ todo[i] <= r.at[0]
    BY DEF During, OfItem
  <2>2. r.at[0] \in Nat
    BY <2>1, RecordIs DEF SoundBut
  <2> QED
    BY <2>1, <2>2
<1>2. \A s : VisitMakes(r, s) => Good([w EXCEPT ![i] = s])
  BY OneVisited
<1> HIDE DEF Good
<1>7. \A s : \A j \in Free(w) : \A c :
        VisitMakes(r, s) /\ s.placed = FALSE /\ LeavesNew(r) /\ SoundBut(c, 0) /\ TimedAfter(c)
        /\ c.refs > 0 /\ c.at[0] = 0 => Good([w EXCEPT ![i] = s, ![j] = c])
  <2> SUFFICES ASSUME NEW s, NEW j \in Free(w), NEW c, VisitMakes(r, s), s.placed = FALSE, LeavesNew(r),
                      SoundBut(c, 0), TimedAfter(c), c.refs > 0, c.at[0] = 0
               PROVE  Good([w EXCEPT ![i] = s, ![j] = c])
    OBVIOUS
  <2> DEFINE v == [w EXCEPT ![i] = s, ![j] = c]
  <2>1. v = [w EXCEPT ![i] = s, ![j] = c]
    OBVIOUS
  <2> HIDE DEF v
  <2>2. /\ DOMAIN v = Item /\ v[i] = s /\ v[j] = c /\ j # i
        /\ \A x \in Item \ {i, j} : v[x] = w[x]
    <3>1. j # i /\ j \in Item
      BY <1>1, ErasedRefs DEF Free
    <3> QED
      BY <1>1, <2>1, <3>1
  <2>3. /\ VisitMakes(w[i], v[i]) /\ v[i].placed = FALSE /\ LeavesNew(w[i])
        /\ SoundBut(v[j], 0) /\ TimedAfter(v[j]) /\ v[j].refs > 0 /\ v[j].at[0] = 0
    BY <2>2
  <2>4. During(now, v, [todo EXCEPT ![i] = @ - 1])
    BY <2>2, <2>3, TwoVisited
  <2>5. w[j].at[0] = 0
    <3>1. SoundBut(w[j], 0) /\ w[j].refs = 0
      BY DEF Free, During, OfItem
    <3> QED
      BY <3>1, UnusedIs
  <2>6. \A x \in Item \ {i} : v[x].at[0] = w[x].at[0]
    BY <2>2, <2>3, <2>5
  <2>7. Good(v)
    BY <2>4, <2>6 DEF Good
  <2> QED
    BY <2>7 DEF v
<1> SUFFICES Good(Visit(w, i))
  BY DEF Good
<1>3. CASE ~CanDecay(r)
  <2> DEFINE s == [Erased(r) EXCEPT !.decaying = FALSE, !.release = @ + 1, !.clock = NoClock]
  <2>1. Visit(w, i) = [w EXCEPT ![i] = s]
    BY <1>3, VisitIs
  <2>2. VisitMakes(r, s)
    BY <1>1, <1>3, StoppedIs
  <2> HIDE DEF s
  <2> QED
    BY <1>2, <2>1, <2>2
<1>4. CASE CanDecay(r) /\ Left(r) < Second /\ ~IsOver(Left(r))
  <2> DEFINE s == [Erased(r) EXCEPT !.at[1] = @ + 1]
  <2>1. Visit(w, i) = [w EXCEPT ![i] = s]
    BY <1>4, VisitIs
  <2>2. VisitMakes(r, s)
    BY <1>1, <1>4, NextCheckIs
  <2> HIDE DEF s
  <2> QED
    BY <1>2, <2>1, <2>2
<1>5. CASE CanDecay(r) /\ ~(Left(r) < Second)
  <2>1. Visit(w, i) = [w EXCEPT ![i] = [r EXCEPT !.duration = Left(r)]]
    BY <1>5, VisitIs
  <2> QED
    BY <1>1, <1>2, <1>5, <2>1, StaysIs
<1>6. CASE CanDecay(r) /\ IsOver(Left(r))
  <2> DEFINE e == Erased(r)
             u == [w EXCEPT ![i] = e]
             k == DecayTo[r.kind]
             z == InternalDecay(u, i)
  <2>1. Visit(w, i) = [z EXCEPT ![i].release = @ + 1]
    BY <1>6, VisitIs
  <2>2. /\ r.placed /\ r.kind \in Kind /\ k \in Kind \cup {Nothing} /\ Nothing \notin Kind
        /\ IsItem(r)
    BY <1>1, <1>6, DecayAssumption DEF CanDecay, SoundBut
  <2>3. IsItem(e) /\ e.kind = r.kind /\ e.refs = r.refs
    BY <1>1, <2>2, ErasedIs
  <2>4. DOMAIN u = Item /\ u[i] = e /\ \A x \in Item \ {i} : u[x] = w[x]
    BY <1>1
  <2> HIDE DEF u, z
  <2>5. CASE k = Nothing
    <3> DEFINE q == Removed(e)
    <3>1. z = [u EXCEPT ![i] = q]
      BY <2>3, <2>4, <2>5 DEF InternalDecay, z
    <3>2. z = [w EXCEPT ![i] = q]
      BY <1>1, <3>1 DEF u
    <3>3. [z EXCEPT ![i].release = @ + 1] = [w EXCEPT ![i] = [q EXCEPT !.release = @ + 1]]
      <4> HIDE DEF q
      <4> QED
        BY <1>1, <3>2
    <3> QED
      BY <1>1, <1>2, <1>6, <2>1, <3>3, VanishedIs
  <2>6. CASE k \in Kind
    <3> DEFINE t == Transformed(u, i, k)
    <3>1. z = [t.items EXCEPT ![t.at] = StartDecay(@)]
      BY <2>2, <2>3, <2>4, <2>6 DEF InternalDecay, z
    <3>2. CASE Class[r.kind] = Class[k]
      <4> DEFINE q == Renamed(e, k)
                 p == StartDecay(q)
      <4>1. t = [at |-> i, items |-> [u EXCEPT ![i] = q]]
        BY <2>3, <2>4, <3>2 DEF Transformed
      <4> HIDE DEF t, q
      <4>2. t.at = i /\ t.items = [w EXCEPT ![i] = q]
        BY <1>1, <4>1 DEF u
      <4>3. z = [w EXCEPT ![i] = p]
        BY <1>1, <3>1, <4>2
      <4> HIDE DEF p
      <4>4. [z EXCEPT ![i].release = @ + 1] = [w EXCEPT ![i] = [p EXCEPT !.release = @ + 1]]
        BY <1>1, <4>3
      <4>5. VisitMakes(r, [p EXCEPT !.release = @ + 1])
        BY <1>1, <1>6, <2>6, TurnedIntoIs DEF p, q
      <4> QED
        BY <1>2, <2>1, <4>4, <4>5
    <3>3. CASE Class[r.kind] # Class[k]
      <4> DEFINE q == Removed(e)
                 s == [q EXCEPT !.release = @ + 1]
                 c == ListIfNew(Created(k))
                 j == CHOOSE j \in Free(u) : TRUE
      <4>1. LeavesNew(r)
        BY <1>1, <2>2, <2>6, <3>3, ReplaceableAre DEF LeavesNew
      <4>2. Free(u) = Free(w)
        BY <2>3, <2>4 DEF Free
      <4>3. Free(w) # {}
        <5>1. i \in Leaving(w)
          BY <4>1 DEF Leaving
        <5>2. Cardinality(Leaving(w)) # 0
          BY <5>1, CountsAre, FS_EmptySet
        <5>3. Cardinality(Free(w)) # 0
          BY <5>2, CountsAre DEF During
        <5> QED
          BY <5>3, FS_EmptySet
      <4>4. j \in Free(w)
        BY <4>2, <4>3
      <4>5. t = [at |-> j, items |-> [u EXCEPT ![i] = Removed(@), ![j] = c]]
        BY <2>3, <2>4, <3>3 DEF Transformed
      <4> HIDE DEF j, t
      <4>6. j \in Item /\ j # i
        <5>1. r.refs > 0
          BY <1>1, ErasedRefs
        <5> QED
          BY <4>4, <5>1 DEF Free
      <4> HIDE DEF q
      <4>7. t.at = j /\ t.items = [w EXCEPT ![i] = q, ![j] = c]
        BY <1>1, <4>5, <4>6 DEF u, q
      <4>8. StartDecay(c) = c
        <5>1. IsItem(Created(k))
          BY <2>6, NewItem
        <5> QED
          BY <5>1, ListedOnce
      <4> HIDE DEF c
      <4>9. z = [w EXCEPT ![i] = q, ![j] = c]
        BY <1>1, <3>1, <4>6, <4>7, <4>8
      <4>10. [z EXCEPT ![i].release = @ + 1] = [w EXCEPT ![i] = s, ![j] = c]
        BY <1>1, <4>6, <4>9
      <4>11. VisitMakes(r, s) /\ s.placed = FALSE
        BY <1>1, <1>6, VanishedIs DEF q
      <4>12. SoundBut(c, 0) /\ TimedAfter(c) /\ c.refs > 0 /\ c.at[0] = 0
        BY <2>6, NewIs DEF c
      <4> HIDE DEF s
      <4>13. Good([w EXCEPT ![i] = s, ![j] = c])
        BY <1>7, <4>1, <4>4, <4>11, <4>12
      <4> QED
        BY <2>1, <4>10, <4>13
    <3> QED
      BY <3>2, <3>3
  <2> QED
    BY <2>2, <2>5, <2>6
<1> QED
  BY <1>3, <1>4, <1>5, <1>6

-----------------------------------------------------------------------------
(* A check.                                                                  *)

(* h visits i as often as there are elements, and the items one by one.      *)
VisitsOf(i, a, S, h) ==
  h = [s \in SUBSET S |-> IF s = {} THEN a ELSE Visit(h[s \ {Pick(s)}], i)]

VisitsOfAll(a, S, h) ==
  h = [s \in SUBSET S |-> IF s = {} THEN a ELSE VisitAll(h[s \ {Pick(s)}], Pick(s))]

(* These are folds, and so there are some.                                   *)
LEMMA VisitsExist ==
  ASSUME NEW a, NEW S, IsFiniteSet(S)
  PROVE  (\A i : \E h : VisitsOf(i, a, S, h)) /\ \E h : VisitsOfAll(a, S, h)
<1>1. \A i, x, y : Combine(<<"visit", i>>, x, y) = Visit(y, i)
  BY DEF Combine
<1>2. \A x, y : Combine(<<"all">>, x, y) = VisitAll(y, x)
  BY DEF Combine
<1>3. ASSUME NEW i PROVE \E h : VisitsOf(i, a, S, h)
  <2>1. PICK h : FoldsBy(<<"visit", i>>, a, S, h)
    BY FoldsExist
  <2>2. VisitsOf(i, a, S, h)
    BY <1>1, <2>1 DEF FoldsBy, VisitsOf
  <2> QED
    BY <2>2
<1>4. \E h : VisitsOfAll(a, S, h)
  <2>1. PICK h : FoldsBy(<<"all">>, a, S, h)
    BY FoldsExist
  <2>2. VisitsOfAll(a, S, h)
    BY <1>2, <2>1 DEF FoldsBy, VisitsOfAll
  <2> QED
    BY <2>2
<1> QED
  BY <1>3, <1>4

(* All visits of an item.                                                    *)
LEMMA VisitAllIs ==
  ASSUME NEW w, NEW i
  PROVE  VisitAll(w, i) = (CHOOSE h : VisitsOf(i, w, 1 .. w[i].at[0], h))[1 .. w[i].at[0]]
BY DEF VisitAll, FoldSet, MapThenFoldSet, VisitsOf, Pick

(* The entries of the others stay.                                           *)
OthersStay(w, v, i) == \A x \in Item \ {i} : v[x].at[0] = w[x].at[0]

(* They keep what each of them keeps.                                        *)
LEMMA VisitAllKeeps ==
  ASSUME NEW now, NEW w, NEW todo, During(now, w, todo), NEW i \in Item, todo[i] = w[i].at[0]
  PROVE  /\ During(now, VisitAll(w, i), [todo EXCEPT ![i] = 0])
         /\ OthersStay(w, VisitAll(w, i), i)
<1> DEFINE n == w[i].at[0]
           S == 1 .. n
           h == CHOOSE h : VisitsOf(i, w, S, h)
           left(s) == [todo EXCEPT ![i] = n - Cardinality(s)]
           Good(s) == During(now, h[s], left(s)) /\ \A x \in Item \ {i} : h[s][x].at[0] = w[x].at[0]
           P == {s \in SUBSET S : Good(s)}
<1>1. n \in Nat /\ IsFiniteSet(S) /\ Cardinality(S) = n
  <2>1. n \in Nat
    BY RecordIs DEF During, OfItem, SoundBut
  <2> HIDE DEF n
  <2>2. 1 \in Int /\ n \in Int
    BY <2>1
  <2>3. IsFiniteSet(1 .. n) /\ Cardinality(1 .. n) = IF 1 > n THEN 0 ELSE n - 1 + 1
    BY <2>2, FS_Interval
  <2> QED
    BY <2>1, <2>3
<1>2. VisitAll(w, i) = h[S]
  BY VisitAllIs
<1> HIDE DEF n, S
<1>3. VisitsOf(i, w, S, h)
  BY <1>1, VisitsExist
<1> HIDE DEF h
<1>4. \A s \in SUBSET S : h[s] = IF s = {} THEN w ELSE Visit(h[s \ {Pick(s)}], i)
  BY <1>3 DEF VisitsOf
<1>5. todo \in [Item -> Nat] /\ todo[i] = n
  BY DEF During, n
<1>6. \A s \in SUBSET S : IsFiniteSet(s) /\ Cardinality(s) \in Nat /\ Cardinality(s) <= n
  BY <1>1, FS_Subset, FS_CardinalityType
<1>7. {} \in P
  <2>1. left({}) = todo
    <3>1. Cardinality({}) = 0
      BY FS_EmptySet
    <3> QED
      BY <1>1, <1>5, <3>1
  <2>2. h[{}] = w
    BY <1>4
  <2> HIDE DEF left
  <2> QED
    BY <2>1, <2>2
<1>8. ASSUME NEW s \in SUBSET S, s # {}, \A x \in s : s \ {x} \in P
      PROVE  s \in P
  <2> DEFINE t == s \ {Pick(s)}
  <2>1. Pick(s) \in s /\ t \in SUBSET S /\ Good(t)
    BY <1>8, PickIs
  <2>2. h[s] = Visit(h[t], i)
    BY <1>4, <1>8
  <2>3. Cardinality(t) = Cardinality(s) - 1
    BY <1>6, <2>1, FS_RemoveElement
  <2> HIDE DEF t
  <2>4. left(t)[i] = n - Cardinality(t) /\ left(t)[i] > 0 /\ left(s) = [left(t) EXCEPT ![i] = @ - 1]
    <3>1. Cardinality(s) \in Nat /\ Cardinality(s) <= n /\ Cardinality(t) \in Nat
      BY <1>6, <2>1
    <3>2. n - Cardinality(s) = n - Cardinality(t) - 1 /\ n - Cardinality(t) > 0
      BY <1>1, <2>3, <3>1
    <3> QED
      BY <1>5, <3>2
  <2> HIDE DEF left
  <2>5. During(now, h[t], left(t))
    BY <2>1
  <2>6. During(now, h[s], left(s))
    <3>1. During(now, Visit(h[t], i), [left(t) EXCEPT ![i] = @ - 1])
      BY <2>4, <2>5, VisitKeeps
    <3> QED
      BY <2>2, <2>4, <3>1
  <2>7. ASSUME NEW x \in Item \ {i} PROVE h[s][x].at[0] = w[x].at[0]
    <3>1. h[s][x].at[0] = h[t][x].at[0]
      BY <2>2, <2>4, <2>5, VisitKeeps
    <3> QED
      BY <2>1, <3>1
  <2> QED
    BY <2>6, <2>7
<1> HIDE DEF P
<1>9. SUBSET S \subseteq P
  BY <1>1, <1>7, <1>8, SetInduction
<1>10. Good(S)
  BY <1>9 DEF P
<1>11. left(S) = [todo EXCEPT ![i] = 0]
  <2>1. n - Cardinality(S) = 0
    BY <1>1
  <2> QED
    BY <2>1
<1> HIDE DEF left
<1> QED
  BY <1>2, <1>10, <1>11 DEF OthersStay

(* The items as the check finds them, and as it leaves them.                 *)
Begun == [x \in Item |-> [item[x] EXCEPT
            !.clock = IF @ = NoClock THEN NoClock ELSE @ - DecayInterval]]

Checked == FoldSet(LAMBDA i, w : VisitAll(w, i), Begun, Item)

Turned == [x \in Item |-> [Checked[x] EXCEPT !.at = [b \in Bucket |-> @[(b + 1) % 4]]]]

(* ... as a fold.                                                            *)
LEMMA CheckedIs ==
  Checked = (CHOOSE h : VisitsOfAll(Begun, Item, h))[Item]
BY DEF Checked, FoldSet, MapThenFoldSet, VisitsOfAll, Pick

(* Each of the items is visited as often as it has to be.                    *)
LEMMA CheckedKeeps ==
  ASSUME Kept(item), HasMemory(item)
  PROVE  During(Begun, Checked, [x \in Item |-> 0])
<1> DEFINE now == Begun
           h == CHOOSE h : VisitsOfAll(now, Item, h)
           left(s) == [x \in Item |-> IF x \in s THEN 0 ELSE now[x].at[0]]
           Good(s) == /\ During(now, h[s], left(s))
                      /\ \A x \in Item \ s : h[s][x].at[0] = now[x].at[0]
           P == {s \in SUBSET Item : Good(s)}
<1>1. IsFiniteSet(Item)
  BY DecayAssumption
<1>2. Checked = h[Item]
  BY CheckedIs
<1>3. VisitsOfAll(now, Item, h)
  BY <1>1, VisitsExist
<1> HIDE DEF h
<1>4. \A s \in SUBSET Item : h[s] = IF s = {} THEN now ELSE VisitAll(h[s \ {Pick(s)}], Pick(s))
  BY <1>3 DEF VisitsOfAll
<1>5. /\ DOMAIN now = Item
      /\ \A x \in Item : /\ SoundBut(now[x], 0) /\ TimedBefore(now[x])
                         /\ now[x].kind = item[x].kind /\ now[x].placed = item[x].placed
                         /\ now[x].at = item[x].at /\ now[x].refs = item[x].refs
  <2>1. ASSUME NEW x \in Item
        PROVE  /\ SoundBut(now[x], 0) /\ TimedBefore(now[x])
               /\ now[x].kind = item[x].kind /\ now[x].placed = item[x].placed
               /\ now[x].at = item[x].at /\ now[x].refs = item[x].refs
    <3>1. SoundBut(item[x], 0) /\ Timed(item[x])
      BY DEF Kept
    <3>2. now[x] = [item[x] EXCEPT !.clock = IF @ = NoClock THEN NoClock ELSE @ - DecayInterval]
      BY DEF Begun
    <3> QED
      BY <3>1, <3>2, BegunIs
  <2> QED
    BY <2>1 DEF Begun
<1> HIDE DEF now
<1>6. {} \in P
  <2>1. h[{}] = now
    BY <1>4
  <2>2. \A x \in Item : now[x].at[0] \in Nat /\ IsItem(now[x])
    BY <1>5, RecordIs DEF SoundBut
  <2>3. \A x \in Item : OfItem(now, now, left({}), x)
    BY <1>5, <2>2, NotVisited DEF OfItem, TimedBefore, Untouched
  <2>4. Cardinality(Leaving(now)) <= Cardinality(Free(now))
    <3> DEFINE L == {x \in Item : item[x].placed /\ item[x].kind \in Replaceable}
    <3>1. Cardinality(L) <= Cardinality(Free(item))
      BY DEF HasMemory
    <3>2. Free(now) = Free(item)
      BY <1>5 DEF Free
    <3>3. Leaving(now) \subseteq L
      BY <1>5 DEF Leaving, LeavesNew
    <3>4. IsFiniteSet(L) /\ Cardinality(L) \in Nat
      BY <1>1, FS_Subset, FS_CardinalityType
    <3> HIDE DEF L
    <3>5. Cardinality(Leaving(now)) <= Cardinality(L)
      BY <3>3, <3>4, FS_Subset
    <3> QED
      BY <3>1, <3>2, <3>4, <3>5, CountsAre
  <2>5. left({}) \in [Item -> Nat]
    BY <2>2
  <2> HIDE DEF left
  <2>6. During(now, now, left({}))
    BY <1>5, <2>3, <2>4, <2>5 DEF During
  <2> QED
    BY <2>1, <2>6
<1>7. ASSUME NEW s \in SUBSET Item, s # {}, \A x \in s : s \ {x} \in P
      PROVE  s \in P
  <2> DEFINE i == Pick(s)
             t == s \ {i}
  <2>1. i \in s /\ i \in Item /\ t \in SUBSET Item /\ Good(t) /\ i \notin t
    BY <1>7, PickIs
  <2>2. h[s] = VisitAll(h[t], i)
    BY <1>4, <1>7
  <2>3. Item \ s = (Item \ t) \ {i} /\ i \in Item \ t
    BY <2>1
  <2>4. s = t \cup {i}
    BY <2>1
  <2> HIDE DEF i, t
  <2>5. left(t)[i] = h[t][i].at[0] /\ left(s) = [left(t) EXCEPT ![i] = 0]
    BY <2>1, <2>3, <2>4
  <2> HIDE DEF left
  <2>6. During(now, h[t], left(t))
    BY <2>1
  <2>7. During(now, VisitAll(h[t], i), [left(t) EXCEPT ![i] = 0])
    BY <2>1, <2>5, <2>6, VisitAllKeeps
  <2>8. OthersStay(h[t], VisitAll(h[t], i), i)
    BY <2>1, <2>5, <2>6, VisitAllKeeps
  <2>9. During(now, h[s], left(s))
    BY <2>2, <2>5, <2>7
  <2>10. ASSUME NEW x \in Item \ s PROVE h[s][x].at[0] = now[x].at[0]
    <3>1. x \in Item \ {i} /\ x \in Item \ t
      BY <2>3
    <3> QED
      BY <2>1, <2>2, <2>8, <3>1 DEF OthersStay
  <2> QED
    BY <2>9, <2>10
<1> HIDE DEF P
<1>8. SUBSET Item \subseteq P
  BY <1>1, <1>6, <1>7, SetInduction
<1>9. Good(Item)
  BY <1>8 DEF P
<1>10. left(Item) = [x \in Item |-> 0]
  OBVIOUS
<1> HIDE DEF left
<1> QED
  BY <1>2, <1>9, <1>10 DEF now

(* Game::checkDecay, with the cleanup at its end.                            *)
LEMMA CheckDecayKeeps ==
  ASSUME DecayInv, CheckDecay
  PROVE  DecayInv'
<1>1. /\ HasMemory(item)
      /\ item' = [x \in Item |-> Cleaned(Turned[x])]
      /\ ended' = {Begun[x].clock : x \in {j \in Item :
                     /\ Begun[j].clock # NoClock
                     /\ \/ Checked[j].kind # Begun[j].kind
                        \/ Begun[j].placed /\ ~Checked[j].placed}}
  BY DEF CheckDecay, Begun, Checked, Turned
<1>2. During(Begun, Checked, [x \in Item |-> 0])
  BY <1>1, CheckedKeeps DEF DecayInv
<1>3. ASSUME NEW x \in Item
      PROVE  /\ SoundBut(Checked[x], 0) /\ TimedAfter(Checked[x])
             /\ Begun[x].clock # NoClock =>
                  \/ Begun[x].clock \in -3 .. 6
                  \/ Checked[x].kind = Begun[x].kind /\ Checked[x].placed
  BY <1>2 DEF During, OfItem
<1>4. ASSUME NEW x \in Item PROVE SoundBut(Cleaned(Turned[x]), 0) /\ Timed(Cleaned(Turned[x]))
  <2>1. Turned[x] = [Checked[x] EXCEPT !.at = [b \in Bucket |-> @[(b + 1) % 4]]]
    BY DEF Turned
  <2>2. SoundBut(Turned[x], 0) /\ TimedTurned(Turned[x])
    BY <1>3, <2>1, TurnedIs
  <2> QED
    BY <2>2, CleanedIs
<1>5. Kept([x \in Item |-> Cleaned(Turned[x])])
  BY <1>4 DEF Kept
<1>6. Kept(item)'
  BY <1>1, <1>5 DEF Kept
<1>7. ended' \subseteq -3 .. 6
  BY <1>1, <1>3
<1> QED
  BY <1>6, <1>7 DEF DecayInv

(* Every step keeps the invariant.                                           *)
LEMMA DecayStepKeeps ==
  ASSUME DecayInv, [DecayNext]_decayVars
  PROVE  DecayInv'
<1>1. CASE CheckDecay
  BY <1>1, CheckDecayKeeps
<1>2. CASE Cleanup
  BY <1>2, CleanupKeeps
<1>3. ASSUME NEW i \in Item, NEW k \in Kind, AddItem(i, k) \/ TransformItem(i, k)
      PROVE  DecayInv'
  BY <1>3, AddItemKeeps, TransformItemKeeps
<1>4. ASSUME NEW i \in Item, NEW j \in Item, SplitItem(i, j)
      PROVE  DecayInv'
  BY <1>4, SplitItemKeeps
<1>5. ASSUME NEW i \in Item, NEW d \in Duration, SetDuration(i, d)
      PROVE  DecayInv'
  BY <1>5, SetDurationKeeps
<1>6. ASSUME NEW i \in Item, MoveItem(i) \/ RemoveItem(i) \/ DecayItem(i)
      PROVE  DecayInv'
  BY <1>6, MoveItemKeeps, RemoveItemKeeps, DecayItemKeeps
<1>7. CASE UNCHANGED decayVars
  BY <1>7 DEF DecayInv, Kept, decayVars
<1> QED
  BY <1>1, <1>2, <1>3, <1>4, <1>5, <1>6, <1>7 DEF DecayNext

(* There is nothing at the beginning.                                        *)
LEMMA DecayBegins ==
  ASSUME DecayInit
  PROVE  DecayInv
BY FreedIs DEF DecayInit, DecayInv, Kept

(* What the invariant says between two checks: every item has the            *)
(* references that are counted for it, but a decaying one is on the list or  *)
(* in a bucket with some duration left, and the time an item has that nobody *)
(* touched is that of its bucket (game.cpp:4846, 4899, 5159).                *)
THEOREM DecayInvariance == DecaySpec => []DecayInv
<1>1. DecayInit => DecayInv
  BY DecayBegins
<1>2. DecayInv /\ [DecayNext]_decayVars => DecayInv'
  BY DecayStepKeeps
<1> QED
  BY <1>1, <1>2, PTL DEF DecaySpec

(* No item is freed while checkDecay will visit it, or kept for ever, and    *)
(* none is marked as decaying without an entry that makes it decay.          *)
THEOREM ItemsAlwaysListed == DecaySpec => []ItemsAreListed
<1>1. DecayInv => ItemsAreListed
  <2> SUFFICES ASSUME DecayInv PROVE ItemsAreListed
    OBVIOUS
  <2>1. ASSUME NEW x \in Item
        PROVE  LET r == item[x]
               IN  /\ r.kind \in Kind \cup {NoKind}
                   /\ {r.duration, r.refs, r.toDecay, r.release} \subseteq Nat
                   /\ r.at \in [Bucket -> Nat]
                   /\ r.decaying \in BOOLEAN /\ r.placed \in BOOLEAN
                   /\ r.clock \in Int \cup {NoClock}
                   /\ r.refs = Entries(r) + r.release + IF r.placed THEN 1 ELSE 0
                   /\ CanDecay(r) => IF r.decaying THEN Entries(r) > 0 ELSE r.duration > 0
    <3> DEFINE r == item[x]
    <3>1. SoundBut(r, 0) /\ IsItem(r)
      BY KeptIs DEF DecayInv
    <3> HIDE DEF r
    <3>2. Entries(r) = Total(r) /\ Total(r) \in Nat /\ r.release \in Nat
      BY <3>1, RecordIs
    <3>3. r.refs = Entries(r) + r.release + IF r.placed THEN 1 ELSE 0
      BY <3>1, <3>2 DEF SoundBut
    <3>4. CanDecay(r) => IF r.decaying THEN Entries(r) > 0 ELSE r.duration > 0
      BY <3>1, <3>2 DEF SoundBut, CanDecay, Idle
    <3>5. {r.duration, r.refs, r.toDecay, r.release} \subseteq Nat
      BY <3>1, RecordIs
    <3> QED
      BY <3>1, <3>3, <3>4, <3>5, RecordIs DEF r
  <2>2. ended \subseteq Int
    BY DEF DecayInv
  <2> QED
    BY <2>1, <2>2 DEF ItemsAreListed, DecayTypeOK
<1> QED
  BY <1>1, DecayInvariance, PTL

(* An item that nobody touches decays less than two checks late and less     *)
(* than 0.875 s early.                                                       *)
THEOREM DecaysInTime == DecaySpec => []DecayInTime
<1>1. DecayInv => DecayInTime
  <2> SUFFICES ASSUME DecayInv PROVE DecayInTime
    OBVIOUS
  <2>1. \A x \in Item : item[x].clock # NoClock => item[x].clock > -DecayInterval
    BY KeptIs, TimedIs DEF DecayInv
  <2>2. 1 - 2 * DecayInterval .. Second - 2 = -3 .. 6
    BY DEF DecayInterval, Second
  <2> QED
    BY <2>1, <2>2 DEF DecayInv, DecayInTime
<1> QED
  BY <1>1, DecayInvariance, PTL
=============================================================================
