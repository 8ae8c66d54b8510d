------------------------- MODULE WaitingListProofs ---------------------------
(***************************************************************************)
(* Theorems about WaitingList, for any players, places and word size: one    *)
(* entry for each, in the order of arrival, and nobody passes.               *)
(*                                                                           *)
(* The lists go through cleanupList at each login, which is a recursive      *)
(* function over the positions of a list.  What it returns is found by       *)
(* induction over the positions, as an argument about the least number that  *)
(* is no element of a set (Induction): an embedding of the result in the     *)
(* list, so that nobody comes in and nobody changes places (Thins).  Of the  *)
(* counters, which may be wrong, the theorems need nothing but their range.  *)
(***************************************************************************)
EXTENDS WaitingList, FiniteSetTheorems, WellFoundedInduction, TLAPS

-----------------------------------------------------------------------------
(* Induction over the natural numbers, as a fact about sets of them.         *)
LEMMA Induction ==
  ASSUME NEW S, 0 \in S, \A n \in Nat : n \in S => n + 1 \in S
  PROVE  Nat \subseteq S
<1> DEFINE T == Nat \ S
<1> SUFFICES ASSUME T # {} PROVE FALSE
  OBVIOUS
<1>1. PICK x \in T : \A y \in T : ~ (<<y, x>> \in OpToRel(<, Nat))
  <2>1. T \subseteq Nat
    OBVIOUS
  <2> HIDE DEF T
  <2> QED
    BY <2>1, NatLessThanWellFounded, WFMin
<1>2. \A y \in T : ~ (y < x)
  BY <1>1 DEF OpToRel
<1>3. x # 0 /\ x \in Nat
  OBVIOUS
<1>4. x - 1 \in Nat /\ x - 1 < x
  BY <1>3
<1>5. x - 1 \in S
  BY <1>2, <1>4
<1>6. x \in S
  BY <1>3, <1>4, <1>5
<1> QED
  BY <1>6

-----------------------------------------------------------------------------
(* Lists of entries.                                                         *)

(* s is what is left of t when entries are removed or prolonged: the same    *)
(* players in the same order.                                                *)
IsEmbedding(at, s, t) ==
  /\ at \in [DOMAIN s -> DOMAIN t]
  /\ \A i \in DOMAIN s : s[i].playerGUID = t[at[i]].playerGUID
  /\ \A i, j \in DOMAIN s : i < j => at[i] < at[j]

Thins(s, t) == \E at : IsEmbedding(at, s, t)

Distinct(s) ==
  \A i, j \in DOMAIN s : s[i].playerGUID = s[j].playerGUID => i = j

Waits(p, s) == \E i \in DOMAIN s : s[i].playerGUID = p

(* cleanupList, entry by entry.                                              *)
Step(list, f, n) ==
  IF n = 0 THEN <<>>
  ELSE IF IsExpired(list[n]) THEN f[n - 1]
  ELSE Append(f[n - 1], list[n])

Solves(list, m, f) == f = [n \in 0 .. m |-> Step(list, f, n)]

(* The recursive function of cleanupList satisfies its equation.            *)
LEMMA CleanupEnds ==
  ASSUME NEW list \in Seq(Wait)
  PROVE  \E f : Solves(list, Len(list), f) /\ Cleaned(list) = f[Len(list)]
<1> DEFINE S == {m \in Nat : \E f : Solves(list, m, f)}
<1>1. 0 \in S
  <2> DEFINE f == [n \in 0 .. 0 |-> <<>>]
  <2>1. Solves(list, 0, f)
    BY DEF Solves, Step
  <2> QED
    BY <2>1
<1>2. \A m \in Nat : m \in S => m + 1 \in S
  <2> SUFFICES ASSUME NEW m \in Nat, m \in S PROVE \E g : Solves(list, m + 1, g)
    OBVIOUS
  <2>1. PICK f : Solves(list, m, f)
    OBVIOUS
  <2> DEFINE g == [n \in 0 .. m + 1 |->
                     IF n = m + 1 THEN Step(list, f, n) ELSE f[n]]
  <2>2. \A n \in 0 .. m + 1 : g[n] = Step(list, g, n)
    <3> SUFFICES ASSUME NEW n \in 0 .. m + 1 PROVE g[n] = Step(list, g, n)
      OBVIOUS
    <3>1. n # 0 => n - 1 \in 0 .. m + 1 /\ n - 1 # m + 1
      OBVIOUS
    <3>2. n # 0 => g[n - 1] = f[n - 1]
      BY <3>1
    <3>3. Step(list, g, n) = Step(list, f, n)
      BY <3>2 DEF Step
    <3>4. CASE n = m + 1
      BY <3>3, <3>4
    <3>5. CASE n # m + 1
      <4>1. n \in 0 .. m /\ g[n] = f[n]
        BY <3>5
      <4>2. f[n] = Step(list, f, n)
        BY <2>1, <4>1 DEF Solves
      <4> QED
        BY <3>3, <4>1, <4>2
    <3> QED
      BY <3>4, <3>5
  <2>3. Solves(list, m + 1, g)
    <3>1. g = [n \in 0 .. m + 1 |-> g[n]]
      OBVIOUS
    <3> HIDE DEF g
    <3> QED
      BY <2>2, <3>1 DEF Solves
  <2> QED
    BY <2>3
<1>3. Len(list) \in Nat /\ Nat \subseteq S
  <2> HIDE DEF S
  <2> QED
    BY <1>1, <1>2, Induction
<1>4. \E f : Solves(list, Len(list), f)
  BY <1>3
<1> DEFINE kept == CHOOSE f : Solves(list, Len(list), f)
<1>5. Solves(list, Len(list), kept)
  BY <1>4
<1>6. Cleaned(list) = kept[Len(list)]
  BY DEF Cleaned, Solves, Step
<1> QED
  BY <1>5, <1>6

(* s has the entries of the first m of list that are not expired.            *)
IsKept(list, m, s) ==
  /\ s \in Seq(Wait)
  /\ \E at \in [1 .. Len(s) -> 1 .. m] :
       /\ \A i \in 1 .. Len(s) : s[i] = list[at[i]]
       /\ \A i, j \in 1 .. Len(s) : i < j => at[i] < at[j]
       /\ \A n \in 1 .. m :
            ~IsExpired(list[n]) => \E i \in 1 .. Len(s) : at[i] = n

(* What cleanupList keeps, in the order in which it was.                    *)
LEMMA CleanedKeeps ==
  ASSUME NEW list \in Seq(Wait)
  PROVE  IsKept(list, Len(list), Cleaned(list))
<1>1. PICK f : Solves(list, Len(list), f) /\ Cleaned(list) = f[Len(list)]
  BY CleanupEnds
<1>2. \A n \in 0 .. Len(list) : f[n] = Step(list, f, n)
  BY <1>1 DEF Solves
<1> DEFINE S == {m \in Nat : m <= Len(list) => IsKept(list, m, f[m])}
<1>3. 0 \in S
  <2>1. f[0] = <<>>
    BY <1>2 DEF Step
  <2>2. Len(<<>>) = 0 /\ <<>> \in Seq(Wait)
    OBVIOUS
  <2> DEFINE at == [i \in 1 .. 0 |-> i]
  <2>3. at \in [1 .. 0 -> 1 .. 0]
    OBVIOUS
  <2>4. \A i \in 1 .. 0 : FALSE
    OBVIOUS
  <2> HIDE DEF at
  <2>5. IsKept(list, 0, <<>>)
    BY <2>2, <2>3, <2>4 DEF IsKept
  <2> QED
    BY <2>1, <2>5
<1>4. \A m \in Nat : m \in S => m + 1 \in S
  <2> SUFFICES ASSUME NEW m \in Nat, m + 1 <= Len(list), IsKept(list, m, f[m])
               PROVE  IsKept(list, m + 1, f[m + 1])
    BY DEF S
  <2> DEFINE s == f[m]
  <2>1. PICK at \in [1 .. Len(s) -> 1 .. m] :
       /\ \A i \in 1 .. Len(s) : s[i] = list[at[i]]
       /\ \A i, j \in 1 .. Len(s) : i < j => at[i] < at[j]
       /\ \A n \in 1 .. m :
            ~IsExpired(list[n]) => \E i \in 1 .. Len(s) : at[i] = n
    BY DEF IsKept
  <2>2. s \in Seq(Wait) /\ Len(s) \in Nat
    BY DEF IsKept
  <2>3. f[m + 1] = IF IsExpired(list[m + 1]) THEN s ELSE Append(s, list[m + 1])
    BY <1>2 DEF Step
  <2>4. list[m + 1] \in Wait
    OBVIOUS
  <2>5. CASE IsExpired(list[m + 1])
    <3>1. at \in [1 .. Len(s) -> 1 .. m + 1]
      OBVIOUS
    <3>2. \A n \in 1 .. m + 1 : ~IsExpired(list[n]) => n \in 1 .. m
      BY <2>5
    <3>3. f[m + 1] = s
      BY <2>3, <2>5
    <3> HIDE DEF s
    <3>4. IsKept(list, m + 1, s)
      BY <2>1, <2>2, <3>1, <3>2 DEF IsKept
    <3> QED
      BY <3>3, <3>4
  <2>6. CASE ~IsExpired(list[m + 1])
    <3> DEFINE r == Append(s, list[m + 1])
               to == [i \in 1 .. Len(s) + 1 |->
                        IF i = Len(s) + 1 THEN m + 1 ELSE at[i]]
    <3> HIDE DEF s
    <3>1. /\ r \in Seq(Wait) /\ Len(r) = Len(s) + 1
          /\ \A i \in 1 .. Len(s) : r[i] = s[i]
          /\ r[Len(s) + 1] = list[m + 1]
      BY <2>2, <2>4
    <3>2. to \in [1 .. Len(r) -> 1 .. m + 1]
      BY <2>2, <3>1
    <3>3. \A i \in 1 .. Len(r) : r[i] = list[to[i]]
      BY <2>1, <2>2, <3>1
    <3>4. \A i, j \in 1 .. Len(s) + 1 : i < j => to[i] < to[j]
      <4> SUFFICES ASSUME NEW i \in 1 .. Len(s) + 1,
                          NEW j \in 1 .. Len(s) + 1, i < j
                   PROVE  to[i] < to[j]
        OBVIOUS
      <4>1. i \in 1 .. Len(s) /\ to[i] = at[i] /\ at[i] \in 1 .. m
        BY <2>1, <2>2
      <4>2. CASE j = Len(s) + 1
        BY <4>1, <4>2, <2>2
      <4>3. CASE j # Len(s) + 1
        <5>1. j \in 1 .. Len(s)
          BY <4>3, <2>2
        <5>2. to[j] = at[j]
          BY <4>3, <5>1
        <5> HIDE DEF to
        <5> QED
          BY <4>1, <5>1, <5>2, <2>1
      <4> QED
        BY <4>2, <4>3
    <3>5. ASSUME NEW n \in 1 .. m + 1, ~IsExpired(list[n])
          PROVE  \E i \in 1 .. Len(r) : to[i] = n
      <4>1. CASE n = m + 1
        <5>1. Len(s) + 1 \in 1 .. Len(r) /\ to[Len(s) + 1] = n
          BY <4>1, <2>2, <3>1
        <5> QED
          BY <5>1
      <4>2. CASE n \in 1 .. m
        <5>1. PICK i \in 1 .. Len(s) : at[i] = n
          BY <3>5, <4>2, <2>1
        <5>2. i \in 1 .. Len(r) /\ to[i] = n
          BY <5>1, <2>2, <3>1
        <5> QED
          BY <5>2
      <4> QED
        BY <4>1, <4>2
    <3>6. f[m + 1] = r
      BY <2>3, <2>6
    <3> HIDE DEF r, to
    <3> QED
      BY <3>1, <3>2, <3>3, <3>4, <3>5, <3>6 DEF IsKept
  <2> QED
    BY <2>5, <2>6
<1>5. Len(list) \in S
  <2>1. Len(list) \in Nat
    OBVIOUS
  <2> HIDE DEF S
  <2> QED
    BY <2>1, <1>3, <1>4, Induction
<1> QED
  BY <1>1, <1>5

(* What clean-up leaves: entries of the list, in their order, and all those  *)
(* whose time is not over.                                                   *)
LEMMA CleanedThins ==
  ASSUME NEW list \in Seq(Wait)
  PROVE  /\ Cleaned(list) \in Seq(Wait)
         /\ Thins(Cleaned(list), list)
         /\ \A n \in DOMAIN list :
              ~IsExpired(list[n]) => Waits(list[n].playerGUID, Cleaned(list))
<1> DEFINE s == Cleaned(list)
<1> HIDE DEF s
<1>1. s \in Seq(Wait)
  BY CleanedKeeps DEF IsKept, s
<1>2. PICK at \in [1 .. Len(s) -> 1 .. Len(list)] :
       /\ \A i \in 1 .. Len(s) : s[i] = list[at[i]]
       /\ \A i, j \in 1 .. Len(s) : i < j => at[i] < at[j]
       /\ \A n \in 1 .. Len(list) :
            ~IsExpired(list[n]) => \E i \in 1 .. Len(s) : at[i] = n
  BY CleanedKeeps DEF IsKept, s
<1>3. DOMAIN s = 1 .. Len(s) /\ DOMAIN list = 1 .. Len(list)
  BY <1>1
<1>4. IsEmbedding(at, s, list)
  BY <1>2, <1>3 DEF IsEmbedding
<1>5. \A n \in DOMAIN list : ~IsExpired(list[n]) => Waits(list[n].playerGUID, s)
  BY <1>2, <1>3 DEF Waits
<1> QED
  BY <1>1, <1>4, <1>5 DEF Thins, s

(* Nobody comes in, nobody changes places.                                   *)
LEMMA ThinsKeeps ==
  ASSUME NEW s \in Seq(Wait), NEW t \in Seq(Wait), Thins(s, t)
  PROVE  /\ \A p : Waits(p, s) => Waits(p, t)
         /\ Distinct(t) => Distinct(s)
         /\ Distinct(t) =>
              \A i, j \in DOMAIN t : \A k, l \in DOMAIN s :
                /\ i < j
                /\ s[k].playerGUID = t[i].playerGUID
                /\ s[l].playerGUID = t[j].playerGUID
                => k < l
<1>1. PICK at : IsEmbedding(at, s, t)
  BY DEF Thins
<1>2. DOMAIN s \subseteq Nat /\ DOMAIN t \subseteq Nat
  OBVIOUS
<1>3. \A p : Waits(p, s) => Waits(p, t)
  BY <1>1 DEF Waits, IsEmbedding
<1>4. ASSUME Distinct(t), NEW i \in DOMAIN s, NEW j \in DOMAIN s,
             s[i].playerGUID = s[j].playerGUID
      PROVE  i = j
  <2>1. at[i] = at[j] /\ at[i] \in DOMAIN t
    BY <1>1, <1>4 DEF IsEmbedding, Distinct
  <2>2. ~(i < j) /\ ~(j < i)
    BY <1>1, <1>2, <2>1 DEF IsEmbedding
  <2> QED
    BY <1>2, <2>2
<1>5. ASSUME Distinct(t), NEW i \in DOMAIN t, NEW j \in DOMAIN t,
             NEW k \in DOMAIN s, NEW l \in DOMAIN s, i < j,
             s[k].playerGUID = t[i].playerGUID,
             s[l].playerGUID = t[j].playerGUID
      PROVE  k < l
  <2>1. at[k] = i /\ at[l] = j
    BY <1>1, <1>5 DEF IsEmbedding, Distinct
  <2>2. k # l /\ ~(l < k)
    BY <1>1, <1>2, <1>5, <2>1 DEF IsEmbedding
  <2> QED
    BY <1>2, <2>2
<1> QED
  BY <1>3, <1>4, <1>5 DEF Distinct

(* Lists may be thinned one after the other.                                *)
LEMMA ThinsTransitive ==
  ASSUME NEW s \in Seq(Wait), NEW t \in Seq(Wait), NEW u \in Seq(Wait),
         Thins(s, t), Thins(t, u)
  PROVE  Thins(s, u)
<1>1. PICK f : IsEmbedding(f, s, t)
  BY DEF Thins
<1>2. PICK g : IsEmbedding(g, t, u)
  BY DEF Thins
<1> DEFINE h == [i \in DOMAIN s |-> g[f[i]]]
<1>3. IsEmbedding(h, s, u)
  BY <1>1, <1>2 DEF IsEmbedding
<1> QED
  BY <1>3 DEF Thins

(* ... and side by side.                                                    *)
LEMMA ThinsConcat ==
  ASSUME NEW s1 \in Seq(Wait), NEW s2 \in Seq(Wait),
         NEW t1 \in Seq(Wait), NEW t2 \in Seq(Wait),
         Thins(s1, t1), Thins(s2, t2)
  PROVE  Thins(s1 \o s2, t1 \o t2)
<1>1. PICK f : IsEmbedding(f, s1, t1)
  BY DEF Thins
<1>2. PICK g : IsEmbedding(g, s2, t2)
  BY DEF Thins
<1> DEFINE n == Len(s1)
           m == Len(t1)
           s == s1 \o s2
           t == t1 \o t2
           h == [i \in DOMAIN s |-> IF i <= n THEN f[i] ELSE g[i - n] + m]
<1>3. /\ n \in Nat /\ m \in Nat
      /\ DOMAIN s1 = 1 .. n /\ DOMAIN t1 = 1 .. m
      /\ DOMAIN s2 = 1 .. Len(s2) /\ DOMAIN t2 = 1 .. Len(t2)
      /\ Len(s2) \in Nat /\ Len(t2) \in Nat
      /\ DOMAIN s = 1 .. n + Len(s2) /\ DOMAIN t = 1 .. m + Len(t2)
  OBVIOUS
<1>4. \A i \in DOMAIN s : s[i] = IF i <= n THEN s1[i] ELSE s2[i - n]
  OBVIOUS
<1>5. \A i \in DOMAIN t : t[i] = IF i <= m THEN t1[i] ELSE t2[i - m]
  OBVIOUS
<1> HIDE DEF n, m, s, t
<1>6. \A i \in DOMAIN s :
        /\ i <= n => i \in DOMAIN s1 /\ f[i] \in 1 .. m /\ h[i] = f[i]
        /\ ~(i <= n) => /\ i - n \in DOMAIN s2
                        /\ g[i - n] \in 1 .. Len(t2) /\ h[i] = g[i - n] + m
  BY <1>1, <1>2, <1>3 DEF IsEmbedding
<1>7. h \in [DOMAIN s -> DOMAIN t]
  BY <1>3, <1>6
<1> HIDE DEF h
<1>8. ASSUME NEW i \in DOMAIN s
      PROVE  s[i].playerGUID = t[h[i]].playerGUID
  <2>1. CASE i <= n
    <3>1. t[h[i]] = t1[f[i]]
      BY <1>3, <1>5, <1>6, <1>7, <2>1
    <3> QED
      BY <1>1, <1>4, <1>6, <2>1, <3>1 DEF IsEmbedding
  <2>2. CASE ~(i <= n)
    <3>1. t[h[i]] = t2[g[i - n]]
      <4>1. ~(h[i] <= m) /\ h[i] - m = g[i - n]
        BY <1>3, <1>6, <2>2
      <4> QED
        BY <1>5, <1>7, <4>1
    <3> QED
      BY <1>2, <1>4, <1>6, <2>2, <3>1 DEF IsEmbedding
  <2> QED
    BY <2>1, <2>2
<1>9. ASSUME NEW i \in DOMAIN s, NEW j \in DOMAIN s, i < j
      PROVE  h[i] < h[j]
  <2>1. CASE j <= n
    <3>1. i <= n
      BY <1>3, <1>9, <2>1
    <3> QED
      BY <1>1, <1>6, <1>9, <2>1, <3>1 DEF IsEmbedding
  <2>2. CASE i <= n /\ ~(j <= n)
    BY <1>3, <1>6, <2>2
  <2>3. CASE ~(i <= n) /\ ~(j <= n)
    <3>1. i - n < j - n
      BY <1>3, <1>9
    <3>2. g[i - n] < g[j - n]
      BY <1>2, <1>6, <2>3, <3>1 DEF IsEmbedding
    <3> QED
      BY <1>3, <1>6, <2>3, <3>2
  <2> QED
    BY <1>3, <1>9, <2>1, <2>2, <2>3
<1>10. IsEmbedding(h, s, t)
  BY <1>7, <1>8, <1>9 DEF IsEmbedding
<1> QED
  BY <1>10 DEF Thins, s, t

(* Entries that are only prolonged.                                          *)
LEMMA SameThins ==
  ASSUME NEW s \in Seq(Wait), NEW t \in Seq(Wait), DOMAIN s = DOMAIN t,
         \A i \in DOMAIN t : s[i].playerGUID = t[i].playerGUID
  PROVE  Thins(s, t)
<1> DEFINE at == [i \in DOMAIN s |-> i]
<1>1. IsEmbedding(at, s, t)
  BY DEF IsEmbedding
<1> QED
  BY <1>1 DEF Thins

(* The entries of two lists, one behind the other.                          *)
LEMMA Concatenation ==
  ASSUME NEW a \in Seq(Wait), NEW b \in Seq(Wait)
  PROVE  /\ a \o b \in Seq(Wait)
         /\ DOMAIN (a \o b) = 1 .. Len(a) + Len(b)
         /\ \A i \in 1 .. Len(a) + Len(b) :
              (a \o b)[i] = IF i <= Len(a) THEN a[i] ELSE b[i - Len(a)]
  OBVIOUS

(* Taking out an entry thins a list.                                        *)
LEMMA RemoveAtThins ==
  ASSUME NEW t \in Seq(Wait), NEW k \in DOMAIN t
  PROVE  /\ RemoveAt(t, k) \in Seq(Wait)
         /\ Thins(RemoveAt(t, k), t)
         /\ Distinct(t) => ~Waits(t[k].playerGUID, RemoveAt(t, k))
<1> DEFINE s == RemoveAt(t, k)
           at == [i \in DOMAIN s |-> IF i < k THEN i ELSE i + 1]
<1>1. k \in 1 .. Len(t) /\ Len(t) \in Nat /\ DOMAIN t = 1 .. Len(t)
  OBVIOUS
<1>2. /\ s \in Seq(Wait)
      /\ DOMAIN s = 1 .. Len(t) - 1
      /\ \A i \in DOMAIN s : s[i] = t[IF i < k THEN i ELSE i + 1]
  <2> DEFINE a == SubSeq(t, 1, k - 1)
             b == SubSeq(t, k + 1, Len(t))
  <2>1. /\ a \in Seq(Wait) /\ Len(a) = k - 1
        /\ \A i \in 1 .. k - 1 : a[i] = t[i]
    BY <1>1
  <2>2. /\ b \in Seq(Wait) /\ Len(b) = Len(t) - k
        /\ \A i \in 1 .. Len(t) - k : b[i] = t[k + i]
    BY <1>1
  <2>3. s = a \o b
    BY DEF RemoveAt
  <2> HIDE DEF a, b, s
  <2>4. s \in Seq(Wait) /\ DOMAIN s = 1 .. Len(t) - 1
    <3>1. Len(a) + Len(b) = Len(t) - 1
      BY <1>1, <2>1, <2>2
    <3> QED
      BY <2>1, <2>2, <2>3, <3>1, Concatenation
  <2>5. ASSUME NEW i \in DOMAIN s
        PROVE  s[i] = t[IF i < k THEN i ELSE i + 1]
    <3>0. /\ i \in 1 .. Len(a) + Len(b)
          /\ s[i] = IF i <= k - 1 THEN a[i] ELSE b[i - (k - 1)]
      <4>1. i \in 1 .. Len(a) + Len(b)
        BY <1>1, <2>1, <2>2, <2>4
      <4> QED
        BY <2>1, <2>2, <2>3, <4>1, Concatenation
    <3>1. CASE i < k
      <4>1. i \in 1 .. k - 1
        BY <1>1, <2>4, <3>1
      <4> QED
        BY <2>1, <3>0, <3>1, <4>1
    <3>2. CASE ~(i < k)
      <4>1. i - (k - 1) \in 1 .. Len(t) - k /\ k + (i - (k - 1)) = i + 1
        BY <1>1, <2>4, <3>2
      <4>2. s[i] = b[i - (k - 1)]
        BY <1>1, <2>4, <3>0, <3>2
      <4> QED
        BY <2>2, <3>2, <4>1, <4>2
    <3> QED
      BY <3>1, <3>2
  <2> QED
    BY <2>4, <2>5
<1> HIDE DEF s
<1>3. IsEmbedding(at, s, t)
  BY <1>1, <1>2 DEF IsEmbedding
<1>4. ASSUME Distinct(t), NEW i \in DOMAIN s, s[i].playerGUID = t[k].playerGUID
      PROVE  FALSE
  <2>1. at[i] \in DOMAIN t /\ at[i] # k /\ s[i] = t[at[i]]
    BY <1>1, <1>2
  <2> QED
    BY <1>4, <2>1 DEF Distinct
<1> QED
  BY <1>2, <1>3, <1>4 DEF Thins, Waits, s

-----------------------------------------------------------------------------
(* The two lists.                                                            *)

(* Nobody is in a list twice, and premium players have their own.            *)
Separate(P, W) ==
  /\ P \in Seq(Wait) /\ W \in Seq(Wait)
  /\ Distinct(P) /\ Distinct(W)
  /\ \A p : Waits(p, P) => p \in Premium
  /\ \A p : Waits(p, W) => p \notin Premium

(* Who is in the game is in neither list, except for those who pass by.      *)
IInv ==
  /\ TypeOK
  /\ IsFiniteSet(online)
  /\ Separate(priorityWaitList, waitList)
  /\ \A p \in online \ AlwaysLogin :
       ~Waits(p, priorityWaitList) /\ ~Waits(p, waitList)

(* Who waits in one of two lists.                                           *)
LEMMA WaitsInConcat ==
  ASSUME NEW P \in Seq(Wait), NEW W \in Seq(Wait), NEW p
  PROVE  Waits(p, P \o W) <=> Waits(p, P) \/ Waits(p, W)
<1>1. /\ Len(P) \in Nat /\ DOMAIN P = 1 .. Len(P)
      /\ Len(W) \in Nat /\ DOMAIN W = 1 .. Len(W)
      /\ DOMAIN (P \o W) = 1 .. Len(P) + Len(W)
      /\ \A i \in 1 .. Len(P) + Len(W) :
           (P \o W)[i] = IF i <= Len(P) THEN P[i] ELSE W[i - Len(P)]
  BY Concatenation
<1>2. ASSUME Waits(p, P \o W) PROVE Waits(p, P) \/ Waits(p, W)
  <2>1. PICK i \in 1 .. Len(P) + Len(W) : (P \o W)[i].playerGUID = p
    BY <1>1, <1>2 DEF Waits
  <2>2. CASE i <= Len(P)
    BY <1>1, <2>1, <2>2 DEF Waits
  <2>3. CASE ~(i <= Len(P))
    <3>1. i - Len(P) \in DOMAIN W
      BY <1>1, <2>3
    <3> QED
      BY <1>1, <2>1, <2>3, <3>1 DEF Waits
  <2> QED
    BY <2>2, <2>3
<1>3. ASSUME Waits(p, P) PROVE Waits(p, P \o W)
  BY <1>1, <1>3 DEF Waits
<1>4. ASSUME Waits(p, W) PROVE Waits(p, P \o W)
  <2>1. PICK i \in DOMAIN W : W[i].playerGUID = p
    BY <1>4 DEF Waits
  <2>2. /\ i + Len(P) \in 1 .. Len(P) + Len(W)
        /\ ~(i + Len(P) <= Len(P)) /\ (i + Len(P)) - Len(P) = i
    BY <1>1
  <2>3. (P \o W)[i + Len(P)] = W[i]
    BY <1>1, <2>2
  <2> QED
    BY <1>1, <2>1, <2>2, <2>3 DEF Waits
<1> QED
  BY <1>2, <1>3, <1>4

(* Nobody is in both lists.                                                 *)
LEMMA QueueDistinct ==
  ASSUME NEW P, NEW W, Separate(P, W)
  PROVE  Distinct(P \o W)
<1>1. P \in Seq(Wait) /\ W \in Seq(Wait)
  BY DEF Separate
<1>2. /\ Len(P) \in Nat /\ DOMAIN P = 1 .. Len(P)
      /\ Len(W) \in Nat /\ DOMAIN W = 1 .. Len(W)
      /\ DOMAIN (P \o W) = 1 .. Len(P) + Len(W)
      /\ \A i \in 1 .. Len(P) + Len(W) :
           (P \o W)[i] = IF i <= Len(P) THEN P[i] ELSE W[i - Len(P)]
  BY <1>1, Concatenation
<1> SUFFICES ASSUME NEW i \in 1 .. Len(P) + Len(W), NEW j \in 1 .. Len(P) + Len(W),
                    (P \o W)[i].playerGUID = (P \o W)[j].playerGUID
             PROVE  i = j
  BY <1>2 DEF Distinct
<1>3. ASSUME NEW k \in 1 .. Len(P) + Len(W)
      PROVE  /\ k <= Len(P) => k \in DOMAIN P /\ (P \o W)[k] = P[k]
             /\ ~(k <= Len(P)) => /\ k - Len(P) \in DOMAIN W
                                  /\ (P \o W)[k] = W[k - Len(P)]
  BY <1>2
<1>4. CASE i <= Len(P) /\ j <= Len(P)
  BY <1>3, <1>4 DEF Separate, Distinct
<1>5. CASE ~(i <= Len(P)) /\ ~(j <= Len(P))
  <2>1. i - Len(P) = j - Len(P)
    BY <1>3, <1>5 DEF Separate, Distinct
  <2> QED
    BY <1>2, <2>1
<1>6. CASE i <= Len(P) /\ ~(j <= Len(P))
  BY <1>3, <1>6 DEF Separate, Waits
<1>7. CASE ~(i <= Len(P)) /\ j <= Len(P)
  BY <1>3, <1>7 DEF Separate, Waits
<1> QED
  BY <1>4, <1>5, <1>6, <1>7

(* Lists that only lose entries stay separate.                               *)
LEMMA ThinsSeparate ==
  ASSUME NEW P, NEW W, Separate(P, W), NEW Q \in Seq(Wait), NEW V \in Seq(Wait),
         Thins(Q, P), Thins(V, W)
  PROVE  Separate(Q, V)
BY ThinsKeeps DEF Separate

(* An entry at the end.                                                      *)
LEMMA AppendKeeps ==
  ASSUME NEW s \in Seq(Wait), NEW w \in Wait
  PROVE  /\ Append(s, w) \in Seq(Wait)
         /\ Append(s, w) = s \o <<w>>
         /\ \A p : Waits(p, Append(s, w)) <=> Waits(p, s) \/ p = w.playerGUID
         /\ Distinct(s) /\ ~Waits(w.playerGUID, s) => Distinct(Append(s, w))
         /\ Thins(s, Append(s, w))
<1> DEFINE t == Append(s, w)
<1>1. /\ t \in Seq(Wait)
      /\ Len(s) \in Nat /\ DOMAIN s = 1 .. Len(s)
      /\ DOMAIN t = 1 .. Len(s) + 1
      /\ \A i \in 1 .. Len(s) : t[i] = s[i]
      /\ t[Len(s) + 1] = w
  OBVIOUS
<1>2. t = s \o <<w>>
  OBVIOUS
<1> HIDE DEF t
<1>3. \A i \in DOMAIN t : i \in DOMAIN s \/ i = Len(s) + 1
  BY <1>1
<1>4. DOMAIN s \subseteq DOMAIN t /\ Len(s) + 1 \in DOMAIN t
  BY <1>1
<1>5. \A p : Waits(p, t) <=> Waits(p, s) \/ p = w.playerGUID
  BY <1>1, <1>3, <1>4 DEF Waits
<1>6. Distinct(s) /\ ~Waits(w.playerGUID, s) => Distinct(t)
  BY <1>1, <1>3 DEF Distinct, Waits
<1>7. Thins(s, t)
  <2> DEFINE at == [i \in DOMAIN s |-> i]
  <2>1. IsEmbedding(at, s, t)
    BY <1>1, <1>4 DEF IsEmbedding
  <2> QED
    BY <2>1 DEF Thins
<1> QED
  BY <1>1, <1>2, <1>5, <1>6, <1>7 DEF t

(* What cleanupList leaves of the two lists.                                 *)
LEMMA CleanupKeeps ==
  ASSUME IInv
  PROVE  /\ Separate(CleanPriority, CleanWait)
         /\ Thins(CleanPriority, priorityWaitList)
         /\ Thins(CleanWait, waitList)
         /\ CleanQueue \in Seq(Wait) /\ Queue \in Seq(Wait)
         /\ Thins(CleanQueue, Queue)
         /\ Distinct(Queue) /\ Distinct(CleanQueue)
         /\ \A i \in DOMAIN Queue :
              ~IsExpired(Queue[i]) => Waits(Queue[i].playerGUID, CleanQueue)
<1>1. priorityWaitList \in Seq(Wait) /\ waitList \in Seq(Wait)
  BY DEF IInv, Separate
<1>2. /\ CleanPriority \in Seq(Wait) /\ Thins(CleanPriority, priorityWaitList)
      /\ CleanWait \in Seq(Wait) /\ Thins(CleanWait, waitList)
  BY <1>1, CleanedThins DEF CleanPriority, CleanWait
<1>3. Separate(CleanPriority, CleanWait)
  BY <1>2, ThinsSeparate DEF IInv
<1>4. CleanQueue \in Seq(Wait) /\ Queue \in Seq(Wait)
  BY <1>1, <1>2, Concatenation DEF CleanQueue, Queue
<1>5. Thins(CleanQueue, Queue)
  BY <1>1, <1>2, ThinsConcat DEF CleanQueue, Queue
<1>6. Distinct(Queue) /\ Distinct(CleanQueue)
  BY <1>3, QueueDistinct DEF IInv, CleanQueue, Queue
<1>7. ASSUME NEW i \in DOMAIN Queue, ~IsExpired(Queue[i])
      PROVE  Waits(Queue[i].playerGUID, CleanQueue)
  <2> DEFINE P == priorityWaitList
             W == waitList
  <2>1. /\ Len(P) \in Nat /\ DOMAIN P = 1 .. Len(P)
        /\ Len(W) \in Nat /\ DOMAIN W = 1 .. Len(W)
    BY <1>1
  <2>2. /\ i \in 1 .. Len(P) + Len(W)
        /\ Queue[i] = IF i <= Len(P) THEN P[i] ELSE W[i - Len(P)]
    BY <1>1, <1>7, Concatenation DEF Queue
  <2>3. CASE i <= Len(P)
    <3>2. i \in DOMAIN P /\ Queue[i] = P[i]
      BY <2>1, <2>2, <2>3
    <3>1. Waits(Queue[i].playerGUID, CleanPriority)
      BY <1>1, <1>7, <3>2, CleanedThins DEF CleanPriority
    <3> QED
      BY <1>2, <3>1, WaitsInConcat DEF CleanQueue
  <2>4. CASE ~(i <= Len(P))
    <3>1. i - Len(P) \in DOMAIN W
      BY <2>1, <2>2, <2>4
    <3>2. Waits(Queue[i].playerGUID, CleanWait)
      BY <1>1, <1>7, <2>2, <2>4, <3>1, CleanedThins DEF CleanWait
    <3> QED
      BY <1>2, <3>2, WaitsInConcat DEF CleanQueue
  <2> QED
    BY <2>3, <2>4
<1> QED
  BY <1>2, <1>3, <1>4, <1>5, <1>6, <1>7

-----------------------------------------------------------------------------
(* The steps.                                                                *)

(* A number modulo the size of a word is a word.                             *)
LEMMA Wraps == ASSUME NEW x \in Int PROVE x % SizeMax \in 0 .. SizeMax - 1
BY WaitingListAssumption

(* The counters stay in their range.                                        *)
LEMMA CleanSizes ==
  ASSUME IInv
  PROVE  /\ CleanPrioritySize \in 0 .. SizeMax - 1
         /\ CleanWaitSize \in 0 .. SizeMax - 1
<1>1. ASSUME NEW list \in Seq(Wait)
      PROVE  Removed(list) \in Int
  <2>1. Cleaned(list) \in Seq(Wait)
    BY CleanedThins
  <2> QED
    BY <2>1 DEF Removed
<1>2. /\ prioritySize - Removed(priorityWaitList) \in Int
      /\ waitSize - Removed(waitList) \in Int
  BY <1>1 DEF IInv, TypeOK
<1> QED
  BY <1>2, Wraps DEF CleanPrioritySize, CleanWaitSize

(* Timeouts are natural numbers.                                            *)
LEMMA Timeouts == \A slot : GetTimeout(slot) \in Nat
BY DEF GetTimeout, GetTime

(* findClient finds who waits.                                              *)
LEMMA FoundWaits == \A p : IsFound(p) <=> Waits(p, CleanQueue)
BY DEF IsFound, Waits

(* Where findClient finds the player: in one of the lists.                   *)
LEMMA FoundAt ==
  ASSUME IInv, NEW p, IsFound(p)
  PROVE  LET slot == SlotIn(CleanQueue, p)
             n == Len(CleanPriority)
         IN  /\ n \in Nat /\ slot \in Nat \ {0}
             /\ slot <= n => /\ slot \in DOMAIN CleanPriority
                             /\ CleanPriority[slot].playerGUID = p
             /\ slot > n => /\ slot - n \in DOMAIN CleanWait
                            /\ CleanWait[slot - n].playerGUID = p
<1> DEFINE slot == SlotIn(CleanQueue, p)
           n == Len(CleanPriority)
<1>1. CleanPriority \in Seq(Wait) /\ CleanWait \in Seq(Wait)
  BY CleanupKeeps DEF Separate
<1>2. slot \in DOMAIN CleanQueue /\ CleanQueue[slot].playerGUID = p
  BY DEF IsFound, SlotIn
<1> HIDE DEF slot
<1>3. /\ slot \in 1 .. Len(CleanPriority) + Len(CleanWait)
      /\ CleanQueue[slot] = IF slot <= Len(CleanPriority) THEN CleanPriority[slot]
                            ELSE CleanWait[slot - Len(CleanPriority)]
  BY <1>1, <1>2, Concatenation DEF CleanQueue
<1>4. /\ n \in Nat /\ DOMAIN CleanPriority = 1 .. n
      /\ Len(CleanWait) \in Nat /\ DOMAIN CleanWait = 1 .. Len(CleanWait)
  BY <1>1
<1> HIDE DEF CleanPriority, CleanWait
<1>5. slot \in Nat \ {0}
  BY <1>3, <1>4
<1>6. CASE slot <= n
  BY <1>2, <1>3, <1>4, <1>5, <1>6 DEF slot
<1>7. CASE slot > n
  <2>1. slot - n \in DOMAIN CleanWait /\ ~(slot <= n)
    BY <1>3, <1>4, <1>7
  <2> QED
    BY <1>2, <1>3, <1>4, <1>5, <1>7, <2>1 DEF slot
<1> QED
  BY <1>4, <1>5, <1>6, <1>7 DEF slot

(* A player who is let in leaves its list.                                   *)
LEMMA LetInLists ==
  ASSUME IInv, NEW p, LetIn(p)
  PROVE  /\ Separate(priorityWaitList', waitList')
         /\ Thins(priorityWaitList', CleanPriority)
         /\ Thins(waitList', CleanWait)
         /\ ~Waits(p, priorityWaitList') /\ ~Waits(p, waitList')
<1> DEFINE slot == SlotIn(CleanQueue, p)
           n == Len(CleanPriority)
<1>1. /\ Separate(CleanPriority, CleanWait)
      /\ CleanPriority \in Seq(Wait) /\ CleanWait \in Seq(Wait)
  BY CleanupKeeps DEF Separate
<1>2. /\ n \in Nat /\ slot \in Nat \ {0}
      /\ slot <= n => /\ slot \in DOMAIN CleanPriority
                      /\ CleanPriority[slot].playerGUID = p
      /\ slot > n => /\ slot - n \in DOMAIN CleanWait
                     /\ CleanWait[slot - n].playerGUID = p
  BY FoundAt DEF LetIn
<1>3. /\ priorityWaitList' = IF slot <= n THEN RemoveAt(CleanPriority, slot)
                                          ELSE CleanPriority
      /\ waitList' = IF slot > n THEN RemoveAt(CleanWait, slot - n) ELSE CleanWait
  BY DEF LetIn
<1>4. Thins(CleanPriority, CleanPriority) /\ Thins(CleanWait, CleanWait)
  BY <1>1, SameThins
<1> HIDE DEF slot, n
<1>5. CASE slot <= n
  <2>1. ~(slot > n) /\ waitList' = CleanWait
    BY <1>2, <1>3, <1>5
  <2>2. /\ priorityWaitList' \in Seq(Wait)
        /\ Thins(priorityWaitList', CleanPriority)
        /\ ~Waits(p, priorityWaitList')
    BY <1>1, <1>2, <1>3, <1>5, RemoveAtThins DEF Separate
  <2>3. Waits(p, CleanPriority)
    BY <1>2, <1>5 DEF Waits
  <2>4. ~Waits(p, CleanWait)
    BY <1>1, <2>3 DEF Separate
  <2> QED
    BY <1>1, <1>4, <2>1, <2>2, <2>4, ThinsSeparate
<1>6. CASE slot > n
  <2>1. ~(slot <= n) /\ priorityWaitList' = CleanPriority
    BY <1>2, <1>3, <1>6
  <2>2. /\ waitList' \in Seq(Wait)
        /\ Thins(waitList', CleanWait)
        /\ ~Waits(p, waitList')
    BY <1>1, <1>2, <1>3, <1>6, RemoveAtThins DEF Separate
  <2>3. Waits(p, CleanWait)
    BY <1>2, <1>6 DEF Waits
  <2>4. ~Waits(p, CleanPriority)
    BY <1>1, <2>3 DEF Separate
  <2> QED
    BY <1>1, <1>4, <2>1, <2>2, <2>4, ThinsSeparate
<1> QED
  BY <1>2, <1>5, <1>6

(* A player who waits longer keeps its place.                                *)
LEMMA WaitLongerLists ==
  ASSUME IInv, NEW p \in Player, WaitLonger(p)
  PROVE  /\ Separate(priorityWaitList', waitList')
         /\ Thins(priorityWaitList', CleanPriority)
         /\ Thins(waitList', CleanWait)
<1> DEFINE slot == SlotIn(CleanQueue, p)
           n == Len(CleanPriority)
           w == [playerGUID |-> p, timeout |-> now + GetTimeout(slot)]
<1>1. /\ Separate(CleanPriority, CleanWait)
      /\ CleanPriority \in Seq(Wait) /\ CleanWait \in Seq(Wait)
  BY CleanupKeeps DEF Separate
<1>2. /\ n \in Nat /\ slot \in Nat \ {0}
      /\ slot <= n => /\ slot \in DOMAIN CleanPriority
                      /\ CleanPriority[slot].playerGUID = p
      /\ slot > n => /\ slot - n \in DOMAIN CleanWait
                     /\ CleanWait[slot - n].playerGUID = p
  BY FoundAt DEF WaitLonger
<1>3. /\ priorityWaitList' = IF slot <= n THEN [CleanPriority EXCEPT ![slot] = w]
                                          ELSE CleanPriority
      /\ waitList' = IF slot > n THEN [CleanWait EXCEPT ![slot - n] = w]
                                 ELSE CleanWait
  BY DEF WaitLonger
<1>4. w \in Wait /\ w.playerGUID = p
  BY Timeouts DEF IInv, TypeOK, Wait
<1>5. ASSUME NEW t \in Seq(Wait), NEW k \in DOMAIN t, t[k].playerGUID = p,
             NEW v \in Wait, v.playerGUID = p
      PROVE  [t EXCEPT ![k] = v] \in Seq(Wait) /\ Thins([t EXCEPT ![k] = v], t)
  <2>1. /\ [t EXCEPT ![k] = v] \in Seq(Wait)
        /\ DOMAIN [t EXCEPT ![k] = v] = DOMAIN t
    OBVIOUS
  <2>2. \A i \in DOMAIN t : [t EXCEPT ![k] = v][i].playerGUID = t[i].playerGUID
    BY <1>5
  <2> QED
    BY <2>1, <2>2, SameThins
<1>6. Thins(CleanPriority, CleanPriority) /\ Thins(CleanWait, CleanWait)
  BY <1>1, SameThins
<1> HIDE DEF slot, n, w
<1>7. priorityWaitList' \in Seq(Wait) /\ Thins(priorityWaitList', CleanPriority)
  BY <1>1, <1>2, <1>3, <1>4, <1>5, <1>6
<1>8. waitList' \in Seq(Wait) /\ Thins(waitList', CleanWait)
  BY <1>1, <1>2, <1>3, <1>4, <1>5, <1>6
<1> QED
  BY <1>1, <1>7, <1>8, ThinsSeparate

(* A player who is new goes to the end of its list.                          *)
LEMMA QueueUpLists ==
  ASSUME IInv, NEW p \in Player, QueueUp(p)
  PROVE  /\ Separate(priorityWaitList', waitList')
         /\ ~Waits(p, CleanQueue)
         /\ \E w \in Wait :
              /\ w.playerGUID = p
              /\ IF p \in Premium
                 THEN /\ priorityWaitList' = Append(CleanPriority, w)
                      /\ waitList' = CleanWait
                 ELSE /\ waitList' = Append(CleanWait, w)
                      /\ priorityWaitList' = CleanPriority
<1>1. /\ Separate(CleanPriority, CleanWait)
      /\ CleanPriority \in Seq(Wait) /\ CleanWait \in Seq(Wait)
  BY CleanupKeeps DEF Separate
<1>2. ~Waits(p, CleanQueue)
  BY FoundWaits DEF QueueUp
<1>3. ~Waits(p, CleanPriority) /\ ~Waits(p, CleanWait)
  BY <1>1, <1>2, WaitsInConcat DEF CleanQueue
<1>4. PICK w \in Wait :
        /\ w.playerGUID = p
        /\ IF p \in Premium
           THEN /\ priorityWaitList' = Append(CleanPriority, w)
                /\ waitList' = CleanWait
           ELSE /\ waitList' = Append(CleanWait, w)
                /\ priorityWaitList' = CleanPriority
  <2> DEFINE slot == IF p \in Premium THEN CleanPrioritySize
                     ELSE (CleanPrioritySize + CleanWaitSize) % SizeMax
             w == [playerGUID |-> p, timeout |-> now + GetTimeout(slot + 1)]
  <2>1. w \in Wait /\ w.playerGUID = p
    <3>1. GetTimeout(slot + 1) \in Nat
      BY Timeouts
    <3> HIDE DEF slot
    <3> QED
      BY <3>1 DEF IInv, TypeOK, Wait
  <2>2. IF p \in Premium
        THEN /\ priorityWaitList' = Append(CleanPriority, w)
             /\ waitList' = CleanWait
        ELSE /\ waitList' = Append(CleanWait, w)
             /\ priorityWaitList' = CleanPriority
    BY DEF QueueUp
  <2> HIDE DEF w
  <2> QED
    BY <2>1, <2>2
<1>5. Separate(priorityWaitList', waitList')
  <2>1. CASE p \in Premium
    <3>1. priorityWaitList' = Append(CleanPriority, w) /\ waitList' = CleanWait
      BY <1>4, <2>1
    <3>2. /\ priorityWaitList' \in Seq(Wait)
          /\ \A q : Waits(q, priorityWaitList') <=> Waits(q, CleanPriority) \/ q = p
          /\ Distinct(priorityWaitList')
      BY <1>1, <1>3, <1>4, <3>1, AppendKeeps DEF Separate
    <3>3. \A q : Waits(q, priorityWaitList') => q \in Premium
      BY <1>1, <2>1, <3>2 DEF Separate
    <3> QED
      BY <1>1, <3>1, <3>2, <3>3 DEF Separate
  <2>2. CASE p \notin Premium
    <3>1. waitList' = Append(CleanWait, w) /\ priorityWaitList' = CleanPriority
      BY <1>4, <2>2
    <3>2. /\ waitList' \in Seq(Wait)
          /\ \A q : Waits(q, waitList') <=> Waits(q, CleanWait) \/ q = p
          /\ Distinct(waitList')
      BY <1>1, <1>3, <1>4, <3>1, AppendKeeps DEF Separate
    <3>3. \A q : Waits(q, waitList') => q \notin Premium
      BY <1>1, <2>2, <3>2 DEF Separate
    <3> QED
      BY <1>1, <3>1, <3>2, <3>3 DEF Separate
  <2> QED
    BY <2>1, <2>2
<1> QED
  BY <1>2, <1>4, <1>5

-----------------------------------------------------------------------------
(* The invariant holds at the start and after each step.                     *)
LEMMA InitHolds == Init => IInv
<1> SUFFICES ASSUME Init PROVE IInv
  OBVIOUS
<1>1. <<>> \in Seq(Wait) /\ DOMAIN <<>> = {}
  OBVIOUS
<1>2. TypeOK
  BY <1>1, WaitingListAssumption DEF Init, TypeOK
<1>3. IsFiniteSet(online)
  BY FS_EmptySet DEF Init
<1>4. Separate(priorityWaitList, waitList)
  BY <1>1 DEF Init, Separate, Distinct, Waits
<1> QED
  BY <1>2, <1>3, <1>4 DEF IInv, Init

(* A login keeps the invariant.                                             *)
LEMMA LoginKeeps == ASSUME IInv, NEW p \in Player, Login(p) PROVE IInv'
<1>1. /\ prioritySize \in 0 .. SizeMax - 1 /\ waitSize \in 0 .. SizeMax - 1
      /\ online \subseteq Player /\ now \in Nat /\ IsFiniteSet(online)
      /\ Separate(priorityWaitList, waitList)
      /\ \A q \in online \ AlwaysLogin :
           ~Waits(q, priorityWaitList) /\ ~Waits(q, waitList)
  BY DEF IInv, TypeOK
<1>2. now' \in Nat
  BY <1>1 DEF Login
<1>3. CASE PassBy(p)
  <2>1. /\ online' \subseteq online \cup {p} /\ online \subseteq online'
        /\ p \notin AlwaysLogin => Queue = <<>>
    BY <1>3 DEF PassBy, Enter
  <2>2. IsFiniteSet(online') /\ online' \subseteq Player
    BY <1>1, <2>1, FS_AddElement, FS_Subset
  <2>3. p \notin AlwaysLogin => ~Waits(p, priorityWaitList) /\ ~Waits(p, waitList)
    <3>1. Queue = <<>> => ~Waits(p, Queue)
      BY DEF Waits
    <3> QED
      BY <1>1, <2>1, <3>1, WaitsInConcat DEF Queue, Separate
  <2>4. UNCHANGED <<priorityWaitList, waitList, prioritySize, waitSize>>
    BY <1>3 DEF PassBy, lists
  <2> QED
    BY <1>1, <1>2, <2>1, <2>2, <2>3, <2>4 DEF IInv, TypeOK, Separate
<1>4. ASSUME Separate(priorityWaitList', waitList'),
             online' \subseteq online \cup {p}, online \subseteq online',
             prioritySize' \in 0 .. SizeMax - 1, waitSize' \in 0 .. SizeMax - 1,
             \A q \in online' \ AlwaysLogin :
               ~Waits(q, priorityWaitList') /\ ~Waits(q, waitList')
      PROVE  IInv'
  <2>1. IsFiniteSet(online') /\ online' \subseteq Player
    BY <1>1, <1>4, FS_AddElement, FS_Subset
  <2> QED
    BY <1>2, <1>4, <2>1 DEF IInv, TypeOK, Separate
<1>5. ASSUME NEW q \in online \ AlwaysLogin
      PROVE  ~Waits(q, CleanPriority) /\ ~Waits(q, CleanWait)
  BY <1>1, <1>5, CleanupKeeps, ThinsKeeps DEF Separate
<1>6. CleanPriority \in Seq(Wait) /\ CleanWait \in Seq(Wait)
  BY CleanupKeeps DEF Separate
<1>7. CASE LetIn(p)
  <2>1. /\ Separate(priorityWaitList', waitList')
        /\ Thins(priorityWaitList', CleanPriority)
        /\ Thins(waitList', CleanWait)
        /\ ~Waits(p, priorityWaitList') /\ ~Waits(p, waitList')
    BY <1>7, LetInLists
  <2>2. online' \subseteq online \cup {p} /\ online \subseteq online'
    BY <1>7 DEF LetIn, Enter
  <2>3. prioritySize' \in 0 .. SizeMax - 1
    BY <1>7, CleanSizes DEF LetIn
  <2>4. waitSize' \in 0 .. SizeMax - 1
    <3>1. CleanWaitSize - 1 \in Int
      BY CleanSizes
    <3> QED
      BY <1>7, <3>1, Wraps DEF LetIn
  <2>5. ASSUME NEW q \in online' \ AlwaysLogin
        PROVE  ~Waits(q, priorityWaitList') /\ ~Waits(q, waitList')
    <3>1. CASE q = p
      BY <2>1, <3>1
    <3>2. CASE q # p
      BY <1>5, <1>6, <2>1, <2>2, <2>5, <3>2, ThinsKeeps DEF Separate
    <3> QED
      BY <3>1, <3>2
  <2> QED
    BY <1>4, <2>1, <2>2, <2>3, <2>4, <2>5
<1>8. CASE WaitLonger(p)
  <2>1. /\ Separate(priorityWaitList', waitList')
        /\ Thins(priorityWaitList', CleanPriority)
        /\ Thins(waitList', CleanWait)
    BY <1>8, WaitLongerLists
  <2>2. online' = online
    BY <1>8 DEF WaitLonger
  <2>3. prioritySize' \in 0 .. SizeMax - 1 /\ waitSize' \in 0 .. SizeMax - 1
    BY <1>8, CleanSizes DEF WaitLonger
  <2>4. ASSUME NEW q \in online' \ AlwaysLogin
        PROVE  ~Waits(q, priorityWaitList') /\ ~Waits(q, waitList')
    BY <1>5, <1>6, <2>1, <2>2, <2>4, ThinsKeeps DEF Separate
  <2> QED
    BY <1>4, <2>1, <2>2, <2>3, <2>4
<1>9. CASE QueueUp(p)
  <2>1. Separate(priorityWaitList', waitList')
    BY <1>9, QueueUpLists
  <2>2. PICK w \in Wait :
          /\ w.playerGUID = p
          /\ IF p \in Premium
             THEN /\ priorityWaitList' = Append(CleanPriority, w)
                  /\ waitList' = CleanWait
             ELSE /\ waitList' = Append(CleanWait, w)
                  /\ priorityWaitList' = CleanPriority
    BY <1>9, QueueUpLists
  <2>3. online' = online /\ p \notin online
    BY <1>9 DEF QueueUp, Login
  <2>4. prioritySize' \in 0 .. SizeMax - 1 /\ waitSize' \in 0 .. SizeMax - 1
    <3>1. CleanPrioritySize + 1 \in Int /\ CleanWaitSize + 1 \in Int
      BY CleanSizes
    <3> QED
      BY <1>9, <3>1, CleanSizes, Wraps DEF QueueUp
  <2>5. ASSUME NEW q \in online' \ AlwaysLogin
        PROVE  ~Waits(q, priorityWaitList') /\ ~Waits(q, waitList')
    <3>1. q # p /\ ~Waits(q, CleanPriority) /\ ~Waits(q, CleanWait)
      BY <1>5, <2>3, <2>5
    <3>2. /\ ~Waits(q, Append(CleanPriority, w))
          /\ ~Waits(q, Append(CleanWait, w))
      BY <1>6, <2>2, <3>1, AppendKeeps
    <3>3. CASE p \in Premium
      BY <2>2, <3>1, <3>2, <3>3
    <3>4. CASE p \notin Premium
      BY <2>2, <3>1, <3>2, <3>4
    <3> QED
      BY <3>3, <3>4
  <2> QED
    BY <1>4, <2>1, <2>3, <2>4, <2>5
<1> QED
  BY <1>3, <1>7, <1>8, <1>9 DEF Login, ClientLogin

(* ... and so does every step.                                              *)
LEMMA NextKeeps == IInv /\ [Next]_vars => IInv'
<1> SUFFICES ASSUME IInv, [Next]_vars PROVE IInv'
  OBVIOUS
<1>1. ASSUME NEW p \in Player, Login(p) PROVE IInv'
  BY <1>1, LoginKeeps
<1>2. ASSUME NEW p \in Player, Logout(p) PROVE IInv'
  <2>1. online' \subseteq online
    BY <1>2 DEF Logout
  <2>2. IsFiniteSet(online')
    BY <2>1, FS_Subset DEF IInv
  <2> QED
    BY <1>2, <2>1, <2>2 DEF Logout, lists, IInv, TypeOK, Separate
<1>3. CASE Tick
  <2>1. now' \in Nat
    BY <1>3, WaitingListAssumption DEF Tick, IInv, TypeOK
  <2> QED
    BY <1>3, <2>1 DEF Tick, lists, IInv, TypeOK, Separate
<1>4. CASE UNCHANGED vars
  BY <1>4 DEF vars, lists, IInv, TypeOK, Separate
<1> QED
  BY <1>1, <1>2, <1>3, <1>4 DEF Next

-----------------------------------------------------------------------------
(* The two lists are kept apart whatever the players do and however the      *)
(* counters wrap (waitlist.cpp: clientLogin).                                *)
THEOREM Invariance == Safety => []IInv
BY InitHolds, NextKeeps, PTL DEF Safety

(* Nobody waits twice, or waits and plays (waitlist.cpp: clientLogin).       *)
THEOREM OneEntry == Spec => []OneEntryEach
<1>1. IInv => OneEntryEach
  <2> SUFFICES ASSUME IInv PROVE OneEntryEach
    OBVIOUS
  <2>1. TypeOK /\ Separate(priorityWaitList, waitList)
    BY DEF IInv
  <2>2. Distinct(Queue)
    BY <2>1, QueueDistinct DEF Queue
  <2>3. \A p : IsWaiting(p) <=> Waits(p, Queue)
    BY DEF IsWaiting, Waits
  <2>4. \A p \in online \ AlwaysLogin : ~IsWaiting(p)
    BY <2>1, <2>3, WaitsInConcat DEF IInv, Separate, Queue
  <2> QED
    BY <2>1, <2>2, <2>4 DEF OneEntryEach, Distinct
<1> QED
  BY <1>1, Invariance, PTL DEF Spec

(* Who enters without privileges leaves room for everybody ahead.            *)
LEMMA EnterInTurn ==
  ASSUME IInv, [Next]_vars, NEW p \in (online' \ online) \ AlwaysLogin
  PROVE  Cardinality(online') + AheadNow(p) <= MaxPlayers
<1>1. Login(p)
  BY DEF Next, Login, ClientLogin, PassBy, LetIn, WaitLonger, QueueUp, Enter,
         Logout, Tick, vars
<1>2. IsFiniteSet(online) /\ Cardinality(online) \in Nat /\ MaxPlayers \in Nat
  BY FS_CardinalityType, WaitingListAssumption DEF IInv
<1>3. CASE PassBy(p)
  <2>1. online' = online \cup {p} /\ Queue = <<>> /\ Cardinality(online) < MaxPlayers
    BY <1>3 DEF PassBy, Enter
  <2>2. Cardinality(online') = Cardinality(online) + 1
    BY <1>2, <2>1, FS_AddElement
  <2>3. ~IsFound(p)
    <3>1. ~Waits(p, Queue)
      BY <2>1 DEF Waits
    <3> QED
      BY <3>1, CleanupKeeps, ThinsKeeps, FoundWaits
  <2> QED
    BY <1>2, <2>1, <2>2, <2>3 DEF AheadNow
<1>4. CASE LetIn(p)
  <2>1. online' = online \cup {p} /\ IsFound(p) /\ HasRoom(SlotIn(CleanQueue, p))
    BY <1>4 DEF LetIn, Enter
  <2>2. Cardinality(online') = Cardinality(online) + 1
    BY <1>2, <2>1, FS_AddElement
  <2>3. SlotIn(CleanQueue, p) \in Nat
    BY <2>1, FoundAt
  <2> QED
    BY <1>2, <2>1, <2>2, <2>3 DEF AheadNow, HasRoom
<1> QED
  BY <1>1, <1>3, <1>4 DEF Login, ClientLogin, WaitLonger, QueueUp

(* No login takes the place of somebody further ahead (waitlist.cpp:         *)
(* clientLogin).                                                             *)
THEOREM NobodyOvertakes == Spec => NoOvertaking
<1>1. IInv /\ [Next]_vars =>
        [\A p \in (online' \ online) \ AlwaysLogin :
           Cardinality(online') + AheadNow(p) <= MaxPlayers]_vars
  BY EnterInTurn
<1> QED
  BY <1>1, Invariance, PTL DEF Spec, Safety, NoOvertaking

(* Of two players who wait before and after a step, the one ahead stays      *)
(* ahead.                                                                    *)
LEMMA StepKeepsOrder ==
  ASSUME IInv, [Next]_vars,
         NEW i \in DOMAIN Queue, NEW j \in DOMAIN Queue,
         NEW k \in DOMAIN Queue', NEW l \in DOMAIN Queue',
         i < j, ~IsExpired(Queue[i]),
         Queue'[k].playerGUID = Queue[i].playerGUID,
         Queue'[l].playerGUID = Queue[j].playerGUID
  PROVE  k < l
<1> DEFINE a == Queue[i].playerGUID
           b == Queue[j].playerGUID
<1>1. /\ Queue \in Seq(Wait) /\ CleanQueue \in Seq(Wait)
      /\ CleanPriority \in Seq(Wait) /\ CleanWait \in Seq(Wait)
      /\ Thins(CleanQueue, Queue) /\ Distinct(Queue) /\ Distinct(CleanQueue)
  BY CleanupKeeps DEF Separate
<1>2. /\ priorityWaitList' \in Seq(Wait) /\ waitList' \in Seq(Wait)
      /\ Queue' = priorityWaitList' \o waitList'
      /\ Separate(priorityWaitList', waitList')
  BY NextKeeps DEF IInv, Queue, Separate
<1>3. Queue' \in Seq(Wait) /\ Distinct(Queue')
  BY <1>2, Concatenation, QueueDistinct
<1>4. ASSUME Thins(Queue', Queue) PROVE k < l
  BY <1>1, <1>3, <1>4, ThinsKeeps
<1>5. ASSUME NEW p \in Player, LetIn(p) \/ WaitLonger(p) PROVE k < l
  <2>1. Thins(priorityWaitList', CleanPriority) /\ Thins(waitList', CleanWait)
    BY <1>5, LetInLists, WaitLongerLists
  <2>2. Thins(Queue', CleanQueue)
    BY <1>1, <1>2, <2>1, ThinsConcat DEF CleanQueue
  <2> QED
    BY <1>1, <1>3, <1>4, <2>2, ThinsTransitive
<1>6. ASSUME UNCHANGED <<priorityWaitList, waitList>> PROVE k < l
  <2>1. Queue' = Queue
    BY <1>2, <1>6 DEF Queue
  <2> QED
    BY <1>1, <1>4, <2>1, SameThins
<1>7. ASSUME NEW p \in Player, QueueUp(p) PROVE k < l
  <2>1. ~Waits(p, CleanQueue)
    BY <1>7, QueueUpLists
  <2>2. PICK w \in Wait :
          /\ w.playerGUID = p
          /\ IF p \in Premium
             THEN /\ priorityWaitList' = Append(CleanPriority, w)
                  /\ waitList' = CleanWait
             ELSE /\ waitList' = Append(CleanWait, w)
                  /\ priorityWaitList' = CleanPriority
    BY <1>7, QueueUpLists
  (* The one ahead is still there, so the new one is another.                *)
  <2>3. Waits(a, CleanQueue) /\ a # p
    BY <2>1, CleanupKeeps
  <2>4. a # b /\ k \in Nat /\ l \in Nat /\ k # l
    <3>1. a # b
      <4>1. i # j
        BY <1>1
      <4> QED
        BY <1>1, <4>1 DEF Distinct
    <3> QED
      BY <1>3, <3>1
  (* Both were there: the queue is what the clean-up left, and the new one.   *)
  <2>5. CASE b # p
    <3>1. Thins(CleanQueue, Queue')
      <4>1. Thins(CleanPriority, CleanPriority) /\ Thins(CleanWait, CleanWait)
        BY <1>1, SameThins
      <4>2. /\ Thins(CleanPriority, Append(CleanPriority, w))
            /\ Thins(CleanWait, Append(CleanWait, w))
        BY <1>1, AppendKeeps
      <4>3. Thins(CleanPriority, priorityWaitList') /\ Thins(CleanWait, waitList')
        BY <2>2, <4>1, <4>2
      <4> QED
        BY <1>1, <1>2, <4>3, ThinsConcat DEF CleanQueue
    <3>2. Waits(b, CleanQueue)
      <4>1. Waits(b, Queue')
        BY DEF Waits
      <4>2. Waits(b, priorityWaitList') \/ Waits(b, waitList')
        BY <1>2, <4>1, WaitsInConcat
      <4>3. /\ Waits(b, Append(CleanPriority, w)) => Waits(b, CleanPriority)
            /\ Waits(b, Append(CleanWait, w)) => Waits(b, CleanWait)
        BY <1>1, <2>2, <2>5, AppendKeeps
      <4>4. Waits(b, CleanPriority) \/ Waits(b, CleanWait)
        BY <2>2, <4>2, <4>3
      <4> QED
        BY <1>1, <4>4, WaitsInConcat DEF CleanQueue
    <3>3. PICK x \in DOMAIN CleanQueue : CleanQueue[x].playerGUID = a
      BY <2>3 DEF Waits
    <3>4. PICK y \in DOMAIN CleanQueue : CleanQueue[y].playerGUID = b
      BY <3>2 DEF Waits
    <3>5. x < y
      BY <1>1, <3>3, <3>4, ThinsKeeps
    <3>6. l < k => y < x
      BY <1>1, <1>3, <3>1, <3>3, <3>4, ThinsKeeps
    <3>7. x \in Nat /\ y \in Nat
      BY <1>1
    <3> QED
      BY <2>4, <3>5, <3>6, <3>7
  (* The one behind was not there in time and is now at the end of its list. *)
  <2>6. CASE b = p
    <3> DEFINE n == Len(CleanPriority)
               m == Len(CleanWait)
    <3>1. /\ n \in Nat /\ m \in Nat
          /\ DOMAIN CleanPriority = 1 .. n /\ DOMAIN CleanWait = 1 .. m
      BY <1>1
    <3>2. CASE p \notin Premium
      <4>1. /\ priorityWaitList' = CleanPriority
            /\ waitList' = Append(CleanWait, w)
        BY <2>2, <3>2
      <4>2. Len(waitList') = m + 1 /\ waitList'[m + 1] = w
        BY <1>1, <4>1
      <4>3. /\ DOMAIN Queue' = 1 .. n + (m + 1)
            /\ Queue'[n + (m + 1)] = w
        <5>1. n + (m + 1) \in 1 .. n + (m + 1) /\ ~(n + (m + 1) <= n)
              /\ (n + (m + 1)) - n = m + 1
          BY <3>1
        <5> HIDE DEF n, m
        <5>2. Len(priorityWaitList') = n
          BY <4>1 DEF n
        <5> QED
          BY <1>2, <4>2, <5>1, <5>2, Concatenation
      <4>4. n + (m + 1) \in DOMAIN Queue'
        BY <3>1, <4>3
      <4>5. l = n + (m + 1)
        BY <1>3, <2>2, <2>6, <4>3, <4>4 DEF Distinct
      <4>6. k \in 1 .. n + (m + 1)
        BY <4>3
      <4> QED
        BY <2>4, <3>1, <4>5, <4>6
    <3>3. CASE p \in Premium
      <4>1. /\ priorityWaitList' = Append(CleanPriority, w)
            /\ waitList' = CleanWait
        BY <2>2, <3>3
      <4>2. /\ Len(priorityWaitList') = n + 1 /\ priorityWaitList'[n + 1] = w
            /\ \A x \in 1 .. n : priorityWaitList'[x] = CleanPriority[x]
        BY <1>1, <4>1
      <4>3. /\ DOMAIN Queue' = 1 .. (n + 1) + m
            /\ \A x \in 1 .. n + 1 : Queue'[x] = priorityWaitList'[x]
        <5>1. 1 .. n + 1 \subseteq 1 .. (n + 1) + m
          BY <3>1
        <5>2. Len(waitList') = m
          BY <4>1
        <5> HIDE DEF n, m
        <5>3. LET P == priorityWaitList'
                  W == waitList'
              IN  /\ DOMAIN Queue' = 1 .. Len(P) + Len(W)
                  /\ \A x \in 1 .. Len(P) + Len(W) :
                       Queue'[x] = IF x <= Len(P) THEN P[x] ELSE W[x - Len(P)]
          BY <1>2, Concatenation
        <5>4. \A x \in 1 .. n + 1 : x <= n + 1
          BY <3>1
        <5> QED
          BY <4>2, <5>1, <5>2, <5>3, <5>4
      <4>4. n + 1 \in DOMAIN Queue' /\ Queue'[n + 1] = w
        BY <3>1, <4>2, <4>3
      <4>5. l = n + 1
        BY <1>3, <2>2, <2>6, <4>4 DEF Distinct
      (* Who is ahead of a premium player is premium.                        *)
      <4>6. a \in Premium
        <5> DEFINE P == priorityWaitList
                   W == waitList
        <5>1. /\ P \in Seq(Wait) /\ W \in Seq(Wait)
              /\ \A q : Waits(q, P) => q \in Premium
              /\ \A q : Waits(q, W) => q \notin Premium
          BY DEF IInv, Separate
        <5>2. /\ Len(P) \in Nat /\ DOMAIN P = 1 .. Len(P)
              /\ Len(W) \in Nat /\ DOMAIN W = 1 .. Len(W)
          BY <5>1
        <5>3. /\ i \in 1 .. Len(P) + Len(W) /\ j \in 1 .. Len(P) + Len(W)
              /\ Queue[i] = IF i <= Len(P) THEN P[i] ELSE W[i - Len(P)]
              /\ Queue[j] = IF j <= Len(P) THEN P[j] ELSE W[j - Len(P)]
          BY <5>1, Concatenation DEF Queue
        <5>4. j <= Len(P)
          <6>1. ASSUME ~(j <= Len(P)) PROVE FALSE
            <7>1. j - Len(P) \in DOMAIN W /\ Queue[j] = W[j - Len(P)]
              BY <5>2, <5>3, <6>1
            <7>2. Waits(b, W)
              BY <7>1 DEF Waits
            <7> QED
              BY <2>6, <3>3, <5>1, <7>2
          <6> QED
            BY <6>1
        <5>5. i \in DOMAIN P /\ Queue[i] = P[i]
          BY <5>2, <5>3, <5>4
        <5>6. Waits(a, P)
          BY <5>5 DEF Waits
        <5> QED
          BY <5>1, <5>6
      <4>7. Waits(a, CleanPriority)
        BY <1>1, <2>3, <4>6, WaitsInConcat, CleanupKeeps DEF CleanQueue, Separate
      <4>8. PICK x \in 1 .. n : CleanPriority[x].playerGUID = a
        BY <3>1, <4>7 DEF Waits
      <4>9. x \in DOMAIN Queue' /\ Queue'[x].playerGUID = a
        BY <3>1, <4>2, <4>3, <4>8
      <4>10. k = x
        BY <1>3, <4>9 DEF Distinct
      <4> QED
        BY <3>1, <4>5, <4>8, <4>10
    <3> QED
      BY <3>2, <3>3
  <2> QED
    BY <2>5, <2>6
<1> QED
  BY <1>5, <1>6, <1>7
     DEF Next, Login, ClientLogin, PassBy, Logout, Tick, vars, lists

(* Players who wait keep their order, unless their time is over when they    *)
(* come back (waitlist.cpp: cleanupList, clientLogin).                       *)
THEOREM OrderIsKept == Spec => OrderKept
<1>1. IInv /\ [Next]_vars =>
        [\A i, j \in DOMAIN Queue : \A k, l \in DOMAIN Queue' :
           /\ i < j
           /\ ~IsExpired(Queue[i])
           /\ Queue'[k].playerGUID = Queue[i].playerGUID
           /\ Queue'[l].playerGUID = Queue[j].playerGUID
           => k < l]_vars
  BY StepKeepsOrder
<1> QED
  BY <1>1, Invariance, PTL DEF Spec, Safety, OrderKept

=============================================================================
