------------------------------- MODULE FoldLemmas -----------------------------
(***************************************************************************)
(* What a fold of op over a sequence computes, for any op: the community   *)
(* modules define it by a function recursive on the sets of indices.  It   *)
(* is proved by induction on a natural number, stated of a set for want of *)
(* provers that instantiate a theorem about every operator.                *)
(***************************************************************************)
EXTENDS Integers, SequencesExt, FiniteSetTheorems, TLAPS

CONSTANT op(_, _)

(* The fold. *)
Folded(base, s) == FoldLeft(op, base, s)

(* The least-number principle. *)
LEMMA LeastNumber ==
  ASSUME NEW S \in SUBSET Nat, S # {}
  PROVE  \E m \in S : \A n \in S : m <= n
<1>1. IsWellFoundedOn(OpToRel(<, Nat), Nat)
  BY NatLessThanWellFounded, Zenon
<1>2. PICK m \in S : \A n \in S : ~(<<n, m>> \in OpToRel(<, Nat))
  BY <1>1, WFMin, Zenon
<1>3. \A n \in S : ~(n < m)
  BY <1>2 DEF OpToRel
<1> QED BY <1>3

(* Induction: a set with 0 and every successor in it has every number.     *)
LEMMA NatInducts ==
  ASSUME NEW P, 0 \in P, \A n \in Nat : n \in P => n + 1 \in P
  PROVE  Nat \subseteq P
<1> DEFINE S == Nat \ P
<1> SUFFICES ASSUME S # {} PROVE FALSE
  OBVIOUS
<1>1. S \in SUBSET Nat /\ \A n \in S : n # 0 /\ n \in Nat /\ n \notin P
  OBVIOUS
<1>2. PICK m \in S : \A n \in S : m <= n
  <2> HIDE DEF S
  <2> QED BY <1>1, LeastNumber
<1>3. m - 1 \in Nat /\ ~(m <= m - 1) /\ (m - 1) + 1 = m
  BY <1>1
<1>4. m - 1 \in P
  BY <1>2, <1>3
<1> QED BY <1>1, <1>3, <1>4

(* The body of the recursive function that folds s from base, over the     *)
(* sets of the first n indices.                                            *)
Body(f, base, s, n) ==
  [t \in SUBSET (1..n) |->
     IF t = {} THEN base ELSE op(f[t \ {Max(t)}], s[Max(t)])]

LEMMA LastIndex ==
  ASSUME NEW n \in Nat, NEW t \in SUBSET (1..(n + 1)), n + 1 \in t
  PROVE  Max(t) = n + 1
<1>1. \A y \in t : n + 1 >= y
  OBVIOUS
<1>2. \A x \in t : (\A y \in t : x >= y) => x = n + 1
  OBVIOUS
<1> QED BY <1>1, <1>2 DEF Max

(* Such a function exists. *)
LEMMA FoldExists ==
  ASSUME NEW base, NEW s, NEW n \in Nat
  PROVE  \E f : f = Body(f, base, s, n)
<1> DEFINE P == {m \in Nat : \E f : f = Body(f, base, s, m)}
<1>1. 0 \in P
  <2> DEFINE f == [t \in SUBSET (1..0) |-> base]
  <2>1. \A t \in SUBSET (1..0) : t = {}
    OBVIOUS
  <2>2. f = Body(f, base, s, 0)
    BY <2>1 DEF Body
  <2> QED BY <2>2
<1>2. ASSUME NEW m \in Nat, m \in P PROVE m + 1 \in P
  <2>1. PICK f : f = Body(f, base, s, m)
    BY <1>2
  <2> DEFINE step(h, t) == IF t = {} THEN base ELSE op(h[t \ {Max(t)}], s[Max(t)])
             g == [t \in SUBSET (1..(m + 1)) |->
                     IF m + 1 \in t THEN op(f[t \ {m + 1}], s[m + 1]) ELSE f[t]]
  <2>2. ASSUME NEW t \in SUBSET (1..(m + 1)) PROVE g[t] = step(g, t)
    <3>1. CASE m + 1 \in t
      <4>1. Max(t) = m + 1 /\ t # {}
        BY <3>1, LastIndex
      <4>2. t \ {m + 1} \in SUBSET (1..(m + 1)) /\ m + 1 \notin t \ {m + 1}
        OBVIOUS
      <4>3. g[t \ {m + 1}] = f[t \ {m + 1}]
        BY <4>2
      <4>4. g[t] = op(f[t \ {m + 1}], s[m + 1])
        BY <3>1
      <4> QED BY <4>1, <4>3, <4>4
    <3>2. CASE m + 1 \notin t
      <4>0. \A i \in t : i \in 1..m
        BY <3>2
      <4>5. t \in SUBSET (1..m) /\ 1..m \subseteq 1..(m + 1)
        BY <4>0
      <4>1. t \in SUBSET (1..m) /\ t \ {Max(t)} \in SUBSET (1..m)
            /\ t \ {Max(t)} \in SUBSET (1..(m + 1)) /\ m + 1 \notin t \ {Max(t)}
        BY <3>2, <4>5
      <4>2. f[t] = step(f, t)
        BY <2>1, <4>1 DEF Body
      <4>3. g[t] = f[t] /\ g[t \ {Max(t)}] = f[t \ {Max(t)}]
        BY <3>2, <4>1
      <4> QED BY <4>2, <4>3
    <3> QED BY <3>1, <3>2
  <2>3. g = [t \in SUBSET (1..(m + 1)) |-> g[t]]
    OBVIOUS
  <2>4. g = Body(g, base, s, m + 1)
    <3> HIDE DEF g
    <3> QED BY <2>2, <2>3 DEF Body
  <2> QED BY <2>4
<1>3. Nat \subseteq P
  <2> HIDE DEF P
  <2> QED BY <1>1, <1>2, NatInducts
<1> QED BY <1>3

(* A fold is the value of such a function at all the indices. *)
LEMMA FoldIsBody ==
  ASSUME NEW base, NEW n \in Nat, NEW s, DOMAIN s = 1..n
  PROVE  \E f : f = Body(f, base, s, n) /\ Folded(base, s) = f[1..n]
<1> DEFINE f == CHOOSE g : g = Body(g, base, s, n)
<1>1. f = Body(f, base, s, n)
  BY FoldExists
<1>2. Folded(base, s) = f[1..n]
  BY DEF Folded, FoldLeft, MapThenFoldSet, Body
<1> QED BY <1>1, <1>2

(* One step of it. *)
LEMMA BodyStep ==
  ASSUME NEW base, NEW s, NEW n \in Nat, NEW f, f = Body(f, base, s, n),
         NEW k \in Nat, k + 1 \in 1..n
  PROVE  f[1..(k + 1)] = op(f[1..k], s[k + 1])
<1>1. 1..(k + 1) \in SUBSET (1..n) /\ 1..(k + 1) # {} /\ k + 1 \in 1..(k + 1)
  OBVIOUS
<1>2. Max(1..(k + 1)) = k + 1
  BY <1>1, LastIndex
<1>3. (1..(k + 1)) \ {k + 1} = 1..k
  OBVIOUS
<1>4. f[1..(k + 1)] = op(f[(1..(k + 1)) \ {Max(1..(k + 1))}], s[Max(1..(k + 1))])
  BY <1>1 DEF Body
<1> QED BY <1>2, <1>3, <1>4

(* A fold over nothing. *)
LEMMA FoldOfNone ==
  ASSUME NEW base
  PROVE  Folded(base, <<>>) = base
<1>1. DOMAIN <<>> = 1..0
  OBVIOUS
<1>2. PICK f : f = Body(f, base, <<>>, 0) /\ Folded(base, <<>>) = f[1..0]
  BY <1>1, FoldIsBody
<1>3. 1..0 = {} /\ {} \in SUBSET (1..0)
  OBVIOUS
<1> QED BY <1>2, <1>3 DEF Body

(* A fold over one element more. *)
LEMMA FoldOfAppend ==
  ASSUME NEW base, NEW S, NEW s \in Seq(S), NEW e \in S
  PROVE  Folded(base, Append(s, e)) = op(Folded(base, s), e)
<1> DEFINE n == Len(s)
           r == Append(s, e)
<1>1. n \in Nat /\ DOMAIN s = 1..n /\ DOMAIN r = 1..(n + 1) /\ n + 1 \in Nat
      /\ r[n + 1] = e /\ \A i \in 1..n : r[i] = s[i]
  OBVIOUS
<1> HIDE DEF n, r
<1>2. PICK f : f = Body(f, base, s, n) /\ Folded(base, s) = f[1..n]
  <2>1. n \in Nat /\ DOMAIN s = 1..n
    BY <1>1
  <2> QED BY <2>1, FoldIsBody, Zenon
<1>3. PICK g : g = Body(g, base, r, n + 1) /\ Folded(base, r) = g[1..(n + 1)]
  <2>1. n + 1 \in Nat /\ DOMAIN r = 1..(n + 1)
    BY <1>1
  <2> QED BY <2>1, FoldIsBody, Zenon
<1> DEFINE P == {k \in Nat : k <= n => f[1..k] = g[1..k]}
<1>4. 0 \in P
  <2>1. 1..0 = {} /\ {} \in SUBSET (1..n) /\ {} \in SUBSET (1..(n + 1))
    OBVIOUS
  <2>2. f[{}] = base /\ g[{}] = base
    BY <1>2, <1>3, <2>1 DEF Body
  <2> QED BY <2>1, <2>2
<1>5. ASSUME NEW k \in Nat, k \in P PROVE k + 1 \in P
  <2> SUFFICES ASSUME k + 1 <= n PROVE f[1..(k + 1)] = g[1..(k + 1)]
    OBVIOUS
  <2>1. k + 1 \in 1..n /\ k + 1 \in 1..(n + 1) /\ k <= n
    BY <1>1
  <2>2. f[1..(k + 1)] = op(f[1..k], s[k + 1])
    BY <1>1, <1>2, <2>1, BodyStep
  <2>3. g[1..(k + 1)] = op(g[1..k], r[k + 1])
    BY <1>1, <1>3, <2>1, BodyStep
  <2> QED BY <1>1, <1>5, <2>1, <2>2, <2>3
<1>6. f[1..n] = g[1..n]
  <2>1. Nat \subseteq P
    <3> HIDE DEF P
    <3> QED BY <1>4, <1>5, NatInducts
  <2> QED BY <1>1, <2>1
<1>7. g[1..(n + 1)] = op(g[1..n], e)
  <2>1. n + 1 \in 1..(n + 1)
    BY <1>1
  <2> QED BY <1>1, <1>3, <2>1, BodyStep
<1> QED BY <1>2, <1>3, <1>6, <1>7 DEF r

(* Folding two sequences joined is folding the one after the other. *)
LEMMA FoldOfConcat ==
  ASSUME NEW base, NEW S, NEW s \in Seq(S), NEW t \in Seq(S)
  PROVE  Folded(base, s \o t) = Folded(Folded(base, s), t)
<1> DEFINE Right(r) == Folded(base, s \o r) = Folded(Folded(base, s), r)
           P == {n \in Nat : \A r \in Seq(S) : Len(r) = n => Right(r)}
<1>1. 0 \in P
  <2>1. \A r \in Seq(S) : Len(r) = 0 => r = <<>>
    OBVIOUS
  <2>2. s \o <<>> = s
    OBVIOUS
  <2>3. Folded(Folded(base, s), <<>>) = Folded(base, s)
    BY FoldOfNone
  <2> QED BY <2>1, <2>2, <2>3
<1>2. ASSUME NEW n \in Nat, n \in P PROVE n + 1 \in P
  <2>1. ASSUME NEW r \in Seq(S), Len(r) = n + 1
        PROVE  Right(r)
    <3> DEFINE q == SubSeq(r, 1, n)
               e == r[n + 1]
               u == s \o q
    <3>1. q \in Seq(S) /\ e \in S /\ Len(q) = n /\ r = Append(q, e)
      BY <2>1
    <3> HIDE DEF q, e
    <3>2. Right(q)
      BY <1>2, <3>1
    <3>3. u \in Seq(S) /\ s \o r = Append(u, e)
      BY <3>1
    <3>4. Folded(base, u) = Folded(Folded(base, s), q)
      BY <3>2
    <3> HIDE DEF u
    <3>5. Folded(base, Append(u, e)) = op(Folded(base, u), e)
      BY <3>1, <3>3, FoldOfAppend
    <3>6. Folded(Folded(base, s), Append(q, e)) = op(Folded(Folded(base, s), q), e)
      BY <3>1, FoldOfAppend
    <3> QED BY <3>1, <3>3, <3>4, <3>5, <3>6
  <2> HIDE DEF Right
  <2> QED BY <2>1
<1>3. Nat \subseteq P
  <2> HIDE DEF P
  <2> QED BY <1>1, <1>2, NatInducts
<1>4. Len(t) \in Nat
  OBVIOUS
<1>5. Right(t)
  <2> HIDE DEF Right
  <2> QED BY <1>3, <1>4
<1> QED BY <1>5

--------------------------------------------------------------------------------
(* Sequences of sequences, flattened *)

(* A sequence followed by another holds what either holds. *)
LEMMA JoinedHolds ==
  ASSUME NEW S, NEW r \in Seq(S), NEW s \in Seq(S)
  PROVE  /\ r \o s \in Seq(S)
         /\ \A a : Contains(r \o s, a) <=> Contains(r, a) \/ Contains(s, a)
<1>1. Len(r) \in Nat /\ Len(s) \in Nat /\ Len(r \o s) = Len(r) + Len(s)
      /\ r \o s \in Seq(S)
  OBVIOUS
<1>2. ASSUME NEW a, Contains(r, a) PROVE Contains(r \o s, a)
  <2>1. PICK i \in 1..Len(r) : r[i] = a
    BY <1>2 DEF Contains
  <2>2. i \in 1..Len(r \o s) /\ (r \o s)[i] = a
    BY <1>1, <2>1
  <2> QED BY <2>2 DEF Contains
<1>3. ASSUME NEW a, Contains(s, a) PROVE Contains(r \o s, a)
  <2>1. PICK i \in 1..Len(s) : s[i] = a
    BY <1>3 DEF Contains
  <2>2. Len(r) + i \in 1..Len(r \o s) /\ (r \o s)[Len(r) + i] = a
    BY <1>1, <2>1
  <2> QED BY <2>2 DEF Contains
<1>4. ASSUME NEW a, Contains(r \o s, a) PROVE Contains(r, a) \/ Contains(s, a)
  <2>1. PICK i \in 1..Len(r \o s) : (r \o s)[i] = a
    BY <1>4 DEF Contains
  <2>2. CASE i <= Len(r)
    <3>1. i \in 1..Len(r) /\ r[i] = a
      BY <1>1, <2>1, <2>2
    <3> QED BY <3>1 DEF Contains
  <2>3. CASE ~(i <= Len(r))
    <3>1. i - Len(r) \in 1..Len(s) /\ s[i - Len(r)] = a
      BY <1>1, <2>1, <2>3
    <3> QED BY <3>1 DEF Contains
  <2> QED BY <2>2, <2>3
<1> QED BY <1>1, <1>2, <1>3, <1>4

FlatBody(f, ss, n) ==
  [i \in 1..n |-> IF i = 1 THEN ss[i] ELSE f[i - 1] \o ss[i]]

LEMMA FlatExists ==
  ASSUME NEW ss, NEW n \in Nat
  PROVE  \E f : f = FlatBody(f, ss, n)
<1> DEFINE P == {m \in Nat : \E f : f = FlatBody(f, ss, m)}
<1>1. 0 \in P
  <2> DEFINE f == [i \in 1..0 |-> ss[i]]
  <2>1. \A i : i \notin 1..0
    OBVIOUS
  <2>2. f = FlatBody(f, ss, 0)
    BY <2>1 DEF FlatBody
  <2> QED BY <2>2
<1>2. ASSUME NEW m \in Nat, m \in P PROVE m + 1 \in P
  <2>1. PICK f : f = FlatBody(f, ss, m)
    BY <1>2
  <2> DEFINE step(h, i) == IF i = 1 THEN ss[i] ELSE h[i - 1] \o ss[i]
             g == [i \in 1..(m + 1) |-> IF i = m + 1 THEN step(f, i) ELSE f[i]]
  <2>2. ASSUME NEW i \in 1..(m + 1) PROVE g[i] = step(g, i)
    <3>1. i # 1 => i - 1 \in 1..m /\ i - 1 \in 1..(m + 1) /\ i - 1 # m + 1
      OBVIOUS
    <3>2. i # 1 => g[i - 1] = f[i - 1]
      BY <3>1
    <3>3. CASE i = m + 1
      BY <3>2, <3>3
    <3>4. CASE i # m + 1
      <4>1. i \in 1..m
        BY <3>4
      <4>2. f[i] = step(f, i)
        BY <2>1, <4>1 DEF FlatBody
      <4>3. g[i] = f[i]
        BY <3>4
      <4> HIDE DEF g
      <4> QED BY <3>2, <4>2, <4>3
    <3> QED BY <3>3, <3>4
  <2>3. g = [i \in 1..(m + 1) |-> g[i]]
    OBVIOUS
  <2>4. g = FlatBody(g, ss, m + 1)
    <3> HIDE DEF g
    <3> QED BY <2>2, <2>3 DEF FlatBody
  <2> QED BY <2>4
<1>3. Nat \subseteq P
  <2> HIDE DEF P
  <2> QED BY <1>1, <1>2, NatInducts
<1> QED BY <1>3

(* It holds what one of them holds. *)
LEMMA FlattenHolds ==
  ASSUME NEW S, NEW ss \in Seq(Seq(S))
  PROVE  /\ FlattenSeq(ss) \in Seq(S)
         /\ \A a : Contains(FlattenSeq(ss), a) <=> \E i \in 1..Len(ss) : Contains(ss[i], a)
<1> DEFINE n == Len(ss)
<1>1. n \in Nat /\ \A i \in 1..n : ss[i] \in Seq(S)
  OBVIOUS
<1>2. CASE n = 0
  <2>1. FlattenSeq(ss) = ss /\ ss = <<>>
    BY <1>2 DEF FlattenSeq
  <2>2. <<>> \in Seq(S) /\ Len(<<>>) = 0
    OBVIOUS
  <2> QED BY <2>1, <2>2 DEF Contains
<1>3. CASE n # 0
  <2> DEFINE f == CHOOSE g : g = FlatBody(g, ss, n)
  <2>1. f = FlatBody(f, ss, n)
    BY <1>1, FlatExists
  <2>2. FlattenSeq(ss) = f[n]
    BY <1>3 DEF FlattenSeq, FlatBody
  <2> HIDE DEF f, n
  <2> DEFINE P == {k \in Nat : k + 1 <= n =>
                     /\ f[k + 1] \in Seq(S)
                     /\ \A a : Contains(f[k + 1], a) <=>
                                 \E i \in 1..(k + 1) : Contains(ss[i], a)}
  <2>3. 0 \in P
    <3>1. SUFFICES ASSUME 1 <= n
                   PROVE  /\ f[1] \in Seq(S)
                          /\ \A a : Contains(f[1], a) <=>
                                      \E i \in 1..1 : Contains(ss[i], a)
      OBVIOUS
    <3>2. 1 \in 1..n /\ \A i : i \in 1..1 <=> i = 1
      BY <1>1, <3>1
    <3>3. f[1] = ss[1]
      BY <2>1, <3>2 DEF FlatBody
    <3> QED BY <1>1, <3>2, <3>3
  <2>4. ASSUME NEW k \in Nat, k \in P PROVE k + 1 \in P
    <3> SUFFICES ASSUME (k + 1) + 1 <= n
                 PROVE  /\ f[(k + 1) + 1] \in Seq(S)
                        /\ \A a : Contains(f[(k + 1) + 1], a) <=>
                                    \E i \in 1..((k + 1) + 1) : Contains(ss[i], a)
      OBVIOUS
    <3> DEFINE j == (k + 1) + 1
               front == f[k + 1]
               back == ss[j]
    <3>1. j \in 1..n /\ j # 1 /\ j - 1 = k + 1 /\ k + 1 <= n
      BY <1>1
    <3>2. f[j] = front \o back
      BY <2>1, <3>1 DEF FlatBody
    <3>3. front \in Seq(S) /\ back \in Seq(S)
      BY <1>1, <2>4, <3>1
    <3>4. \A a : Contains(front, a) <=> \E i \in 1..(k + 1) : Contains(ss[i], a)
      BY <2>4, <3>1
    <3>5. \A i : i \in 1..j <=> i \in 1..(k + 1) \/ i = j
      OBVIOUS
    <3> HIDE DEF front, back, j
    <3>6. front \o back \in Seq(S)
          /\ \A a : Contains(front \o back, a) <=> Contains(front, a) \/ Contains(back, a)
      BY <3>3, JoinedHolds
    <3>7. ASSUME NEW a
          PROVE  Contains(f[j], a) <=> \E i \in 1..j : Contains(ss[i], a)
      BY <3>2, <3>4, <3>5, <3>6 DEF back
    <3>8. f[j] \in Seq(S)
      BY <3>2, <3>6
    <3> QED BY <3>7, <3>8 DEF j
  <2>5. n - 1 \in Nat /\ (n - 1) + 1 = n
    BY <1>1, <1>3
  <2>6. n - 1 \in P
    <3> HIDE DEF P
    <3>1. Nat \subseteq P
      BY <2>3, <2>4, NatInducts
    <3> QED BY <2>5, <3>1
  <2>7. /\ f[n] \in Seq(S)
        /\ \A a : Contains(f[n], a) <=> \E i \in 1..n : Contains(ss[i], a)
    BY <2>5, <2>6
  <2> QED BY <2>2, <2>7 DEF n
<1> QED BY <1>2, <1>3

--------------------------------------------------------------------------------
(* Sums over a finite set *)

(* The sum of what a function gives for the elements of a set. *)
Total(f, S) == MapThenSumSet(LAMBDA h : f[h], S)

AnyOf(t) == CHOOSE x \in t : TRUE

(* The body of the recursive function that adds them up, one by one. *)
SumBody(g, f, S) ==
  [t \in SUBSET S |-> IF t = {} THEN 0 ELSE f[AnyOf(t)] + g[t \ {AnyOf(t)}]]

(* A subset without one of its elements is smaller by one. *)
LEMMA OneLess ==
  ASSUME NEW S, IsFiniteSet(S), NEW t \in SUBSET S, NEW x \in t
  PROVE  /\ Cardinality(t) \in Nat /\ Cardinality(t \ {x}) \in Nat
         /\ Cardinality(t) = Cardinality(t \ {x}) + 1
         /\ t \ {x} \in SUBSET S
<1>1. IsFiniteSet(t)
  BY FS_Subset
<1>2. Cardinality(t) \in Nat
  BY <1>1, FS_CardinalityType
<1>3. IsFiniteSet(t \ {x}) /\ Cardinality(t \ {x}) = Cardinality(t) - 1
  BY <1>1, FS_RemoveElement
<1>4. Cardinality(t \ {x}) \in Nat
  BY <1>3, FS_CardinalityType
<1> QED BY <1>2, <1>3, <1>4

LEMMA EmptyIsNone ==
  ASSUME NEW S, IsFiniteSet(S), NEW t \in SUBSET S, Cardinality(t) <= 0
  PROVE  t = {}
<1> SUFFICES ASSUME t # {} PROVE FALSE
  OBVIOUS
<1>1. PICK x \in t : TRUE
  OBVIOUS
<1> DEFINE c == Cardinality(t)
           d == Cardinality(t \ {x})
<1>2. c \in Nat /\ d \in Nat /\ c = d + 1
  BY OneLess
<1>3. c <= 0
  OBVIOUS
<1> HIDE DEF c, d
<1> QED BY <1>2, <1>3

LEMMA SumExists ==
  ASSUME NEW f, NEW S, IsFiniteSet(S)
  PROVE  \E g : g = SumBody(g, f, S)
<1> DEFINE step(g, t) == IF t = {} THEN 0 ELSE f[AnyOf(t)] + g[t \ {AnyOf(t)}]
           Right(g, n) == \A t \in SUBSET S : Cardinality(t) <= n => g[t] = step(g, t)
           P == {n \in Nat : \E g : g = [t \in SUBSET S |-> g[t]] /\ Right(g, n)}
<1>0. \A t \in SUBSET S : t # {} => AnyOf(t) \in t
  BY DEF AnyOf
<1>1. 0 \in P
  <2> DEFINE g == [t \in SUBSET S |-> 0]
  <2>1. \A t \in SUBSET S : Cardinality(t) <= 0 => t = {}
    BY EmptyIsNone
  <2>2. Right(g, 0) /\ g = [t \in SUBSET S |-> g[t]]
    BY <2>1
  <2> QED BY <2>2
<1>2. ASSUME NEW n \in Nat, n \in P PROVE n + 1 \in P
  <2>1. PICK g : g = [t \in SUBSET S |-> g[t]] /\ Right(g, n)
    BY <1>2
  <2> DEFINE h == [t \in SUBSET S |-> step(g, t)]
  <2>2. ASSUME NEW t \in SUBSET S, Cardinality(t) <= n + 1
        PROVE  h[t] = step(h, t)
    <3>1. CASE t = {}
      BY <3>1
    <3>2. CASE t # {}
      <4> DEFINE r == t \ {AnyOf(t)}
      <4>1. r \in SUBSET S /\ Cardinality(r) <= n
        BY <1>0, <2>2, <3>2, OneLess
      <4> HIDE DEF r
      <4>2. h[r] = g[r]
        BY <2>1, <4>1
      <4>3. h[t] = f[AnyOf(t)] + g[r]
        BY <3>2 DEF r
      <4>4. step(h, t) = f[AnyOf(t)] + h[r]
        BY <3>2 DEF r
      <4> QED BY <4>2, <4>3, <4>4
    <3> QED BY <3>1, <3>2
  <2>3. h = [t \in SUBSET S |-> h[t]]
    OBVIOUS
  <2> HIDE DEF h
  <2>4. Right(h, n + 1)
    BY <2>2
  <2> HIDE DEF Right
  <2> QED BY <2>3, <2>4
<1>3. Cardinality(S) \in Nat
  BY FS_CardinalityType
<1>4. Cardinality(S) \in P
  <2> HIDE DEF P
  <2>1. Nat \subseteq P
    BY <1>1, <1>2, NatInducts
  <2> QED BY <1>3, <2>1
<1>5. PICK g : g = [t \in SUBSET S |-> g[t]] /\ Right(g, Cardinality(S))
  BY <1>4
<1>6. \A t \in SUBSET S : Cardinality(t) <= Cardinality(S)
  BY FS_Subset
<1>7. \A t \in SUBSET S : g[t] = step(g, t)
  BY <1>5, <1>6
<1> QED BY <1>5, <1>7 DEF SumBody

(* The sum is the value of such a function at the whole set. *)
LEMMA TotalIsBody ==
  ASSUME NEW f, NEW S, IsFiniteSet(S)
  PROVE  \E g : g = SumBody(g, f, S) /\ Total(f, S) = g[S]
<1> DEFINE g == CHOOSE k : k = SumBody(k, f, S)
<1>1. g = SumBody(g, f, S)
  BY SumExists
<1>2. Total(f, S) = g[S]
  BY DEF Total, MapThenSumSet, MapThenFoldSet, SumBody, AnyOf
<1> QED BY <1>1, <1>2

IsSum(g, f, S) ==
  /\ IsFiniteSet(S)
  /\ f \in [S -> Int]
  /\ g = SumBody(g, f, S)

SplitsAnywhere(g, f, S) ==
  \A t \in SUBSET S :
    /\ g[t] \in Int
    /\ \A x \in t : g[t] = f[x] + g[t \ {x}]

(* Any element may be added last: the order does not matter. *)
LEMMA BodySplits ==
  ASSUME NEW S, NEW f, NEW g, IsSum(g, f, S)
  PROVE  SplitsAnywhere(g, f, S)
<1>0. IsFiniteSet(S) /\ f \in [S -> Int] /\ g = SumBody(g, f, S)
  BY DEF IsSum
<1> DEFINE Splits(t) == g[t] \in Int /\ \A x \in t : g[t] = f[x] + g[t \ {x}]
           P == {n \in Nat : \A t \in SUBSET S : Cardinality(t) <= n => Splits(t)}
<1>1. \A t \in SUBSET S : t # {} => AnyOf(t) \in t /\ g[t] = f[AnyOf(t)] + g[t \ {AnyOf(t)}]
  BY <1>0 DEF SumBody, AnyOf
<1>2. g[{}] = 0
  <2>1. {} \in SUBSET S
    OBVIOUS
  <2> QED BY <1>0, <2>1 DEF SumBody
<1>3. Splits({})
  BY <1>2
<1>4. 0 \in P
  <2>1. \A t \in SUBSET S : Cardinality(t) <= 0 => t = {}
    BY <1>0, EmptyIsNone
  <2> HIDE DEF Splits
  <2> QED BY <1>3, <2>1
<1>5. ASSUME NEW n \in Nat, n \in P PROVE n + 1 \in P
  <2>1. ASSUME NEW t \in SUBSET S, Cardinality(t) <= n + 1, t # {}
        PROVE  Splits(t)
    <3> DEFINE c == AnyOf(t)
    <3>1. c \in t /\ c \in S
      BY <1>1, <2>1
    <3>2. g[t] = f[c] + g[t \ {c}]
      BY <1>1, <2>1
    <3>3. f[c] \in Int
      BY <1>0, <3>1
    <3> HIDE DEF c
    <3>4. ASSUME NEW y \in t PROVE Splits(t \ {y}) /\ t \ {y} \in SUBSET S
      <4>1. t \ {y} \in SUBSET S /\ Cardinality(t \ {y}) <= n
        BY <1>0, <2>1, OneLess
      <4> HIDE DEF Splits
      <4> QED BY <1>5, <4>1
    <3>5. g[t] \in Int
      <4>1. g[t \ {c}] \in Int
        BY <3>1, <3>4
      <4> QED BY <3>2, <3>3, <4>1
    <3>6. ASSUME NEW x \in t PROVE g[t] = f[x] + g[t \ {x}]
      <4>1. CASE x = c
        BY <3>2, <4>1
      <4>2. CASE x # c
        <5> DEFINE rest == (t \ {c}) \ {x}
        <5>1. x \in t \ {c} /\ c \in t \ {x} /\ (t \ {x}) \ {c} = rest
          BY <3>1, <4>2
        <5>2. g[t \ {c}] = f[x] + g[rest]
          BY <3>1, <3>4, <5>1
        <5>3. g[t \ {x}] = f[c] + g[rest]
          BY <3>4, <5>1
        <5>4. rest \in SUBSET S /\ f[x] \in Int
          BY <1>0
        <5>5. g[rest] \in Int
          <6>1. Cardinality(rest) <= n
            <7>1. Cardinality(t \ {c}) <= n /\ t \ {c} \in SUBSET S
              BY <1>0, <2>1, <3>1, OneLess
            <7>2. /\ Cardinality(rest) \in Nat /\ Cardinality(t \ {c}) \in Nat
                  /\ Cardinality(t \ {c}) = Cardinality(rest) + 1
              <8> DEFINE r == t \ {c}
              <8>1. r \in SUBSET S /\ x \in r /\ rest = r \ {x}
                BY <5>1, <7>1
              <8> HIDE DEF r, rest
              <8>2. /\ Cardinality(r) \in Nat /\ Cardinality(r \ {x}) \in Nat
                    /\ Cardinality(r) = Cardinality(r \ {x}) + 1
                BY <1>0, <8>1, OneLess
              <8> QED BY <8>1, <8>2 DEF r
            <7> QED BY <7>1, <7>2
          <6> HIDE DEF rest
          <6> QED BY <1>5, <5>4, <6>1
        <5> HIDE DEF rest
        <5> QED BY <3>2, <3>3, <5>2, <5>3, <5>4, <5>5
      <4> QED BY <4>1, <4>2
    <3> QED BY <3>5, <3>6
  <2> HIDE DEF Splits
  <2>2. \A t \in SUBSET S : Cardinality(t) <= n + 1 => Splits(t)
    BY <1>3, <2>1
  <2> QED BY <2>2
<1>6. Nat \subseteq P
  <2> HIDE DEF P
  <2> QED BY <1>4, <1>5, NatInducts
<1>7. ASSUME NEW t \in SUBSET S PROVE Splits(t)
  <2>1. IsFiniteSet(t)
    BY <1>0, FS_Subset
  <2>2. Cardinality(t) \in Nat
    BY <2>1, FS_CardinalityType
  <2>3. Cardinality(t) <= Cardinality(t)
    BY <2>2
  <2> HIDE DEF Splits
  <2> QED BY <1>6, <2>2, <2>3
<1> QED BY <1>7 DEF SplitsAnywhere

(* Two such functions agree where what they add up does. *)
LEMMA BodyAgrees ==
  ASSUME NEW S, IsFiniteSet(S), NEW f \in [S -> Int], NEW h \in [S -> Int],
         NEW g, g = SumBody(g, f, S), NEW k, k = SumBody(k, h, S),
         NEW T \in SUBSET S, \A x \in T : f[x] = h[x]
  PROVE  g[T] = k[T]
<1>0. IsSum(g, f, S) /\ IsSum(k, h, S)
  BY DEF IsSum
<1>a. SplitsAnywhere(g, f, S) /\ SplitsAnywhere(k, h, S)
  BY <1>0, BodySplits
<1> DEFINE P == {n \in Nat : \A t \in SUBSET T : Cardinality(t) <= n => g[t] = k[t]}
<1>1. g[{}] = 0 /\ k[{}] = 0
  <2>1. {} \in SUBSET S
    OBVIOUS
  <2> QED BY <2>1 DEF SumBody
<1>2. 0 \in P
  <2>1. \A t \in SUBSET T : Cardinality(t) <= 0 => t = {}
    BY EmptyIsNone
  <2> QED BY <1>1, <2>1
<1>3. ASSUME NEW n \in Nat, n \in P PROVE n + 1 \in P
  <2>1. ASSUME NEW t \in SUBSET T, Cardinality(t) <= n + 1, t # {}
        PROVE  g[t] = k[t]
    <3>1. PICK x \in t : TRUE
      BY <2>1
    <3>2. t \in SUBSET S
      OBVIOUS
    <3>3. g[t] = f[x] + g[t \ {x}]
      BY <1>a, <3>2 DEF SplitsAnywhere
    <3>4. k[t] = h[x] + k[t \ {x}]
      BY <1>a, <3>2 DEF SplitsAnywhere
    <3>5. t \ {x} \in SUBSET T /\ Cardinality(t \ {x}) <= n
      BY <2>1, <3>2, OneLess
    <3>6. g[t \ {x}] = k[t \ {x}]
      BY <1>3, <3>5
    <3> QED BY <3>3, <3>4, <3>6
  <2>2. \A t \in SUBSET T : Cardinality(t) <= n + 1 => g[t] = k[t]
    BY <1>1, <2>1
  <2> QED BY <2>2
<1>4. Nat \subseteq P
  <2> HIDE DEF P
  <2> QED BY <1>2, <1>3, NatInducts
<1>5. IsFiniteSet(T)
  BY FS_Subset
<1>6. Cardinality(T) \in Nat
  BY <1>5, FS_CardinalityType
<1>7. Cardinality(T) <= Cardinality(T) /\ T \in SUBSET T
  BY <1>6
<1> QED BY <1>4, <1>6, <1>7

--------------------------------------------------------------------------------
(* What is known of a sum *)

LEMMA TotalTyped ==
  ASSUME NEW S, IsFiniteSet(S), NEW f \in [S -> Int]
  PROVE  Total(f, S) \in Int
<1>1. PICK g : g = SumBody(g, f, S) /\ Total(f, S) = g[S]
  BY TotalIsBody
<1>2. S \in SUBSET S
  OBVIOUS
<1>3. IsSum(g, f, S)
  BY <1>1 DEF IsSum
<1> QED BY <1>1, <1>2, <1>3, BodySplits DEF SplitsAnywhere

(* One term changed changes the sum by as much. *)
LEMMA TotalUpdated ==
  ASSUME NEW S, IsFiniteSet(S), NEW f \in [S -> Int], NEW h \in [S -> Int],
         NEW x \in S, \A y \in S \ {x} : f[y] = h[y]
  PROVE  Total(h, S) = Total(f, S) - f[x] + h[x]
<1>1. PICK g : g = SumBody(g, f, S) /\ Total(f, S) = g[S]
  BY TotalIsBody
<1>2. PICK k : k = SumBody(k, h, S) /\ Total(h, S) = k[S]
  BY TotalIsBody
<1>3. S \in SUBSET S /\ S \ {x} \in SUBSET S
  OBVIOUS
<1>4. IsSum(g, f, S) /\ IsSum(k, h, S)
  BY <1>1, <1>2 DEF IsSum
<1>5. SplitsAnywhere(g, f, S) /\ SplitsAnywhere(k, h, S)
  BY <1>4, BodySplits
<1>6. g[S] = f[x] + g[S \ {x}] /\ g[S \ {x}] \in Int
  BY <1>3, <1>5 DEF SplitsAnywhere
<1>7. k[S] = h[x] + k[S \ {x}]
  BY <1>3, <1>5 DEF SplitsAnywhere
<1>8. g[S \ {x}] = k[S \ {x}]
  BY <1>1, <1>2, <1>3, BodyAgrees
<1>9. f[x] \in Int
  OBVIOUS
<1>10. h[x] \in Int
  OBVIOUS
<1> QED BY <1>1, <1>2, <1>6, <1>7, <1>8, <1>9, <1>10

(* A sum of zeroes. *)
LEMMA TotalOfZeroes ==
  ASSUME NEW S, IsFiniteSet(S)
  PROVE  Total([x \in S |-> 0], S) = 0
<1> DEFINE f == [x \in S |-> 0]
<1>1. f \in [S -> Int] /\ \A x \in S : f[x] = 0
  OBVIOUS
<1> HIDE DEF f
<1>2. PICK g : g = SumBody(g, f, S) /\ Total(f, S) = g[S]
  BY TotalIsBody
<1> DEFINE k == [t \in SUBSET S |-> 0]
<1>3. k = SumBody(k, f, S)
  BY <1>1 DEF SumBody, AnyOf
<1>4. S \in SUBSET S /\ k[S] = 0
  OBVIOUS
<1> HIDE DEF k
<1>5. g[S] = k[S]
  BY <1>1, <1>2, <1>3, <1>4, BodyAgrees
<1> QED BY <1>2, <1>4, <1>5 DEF f

(* A sum of what is never negative is at least any two of its terms. *)
LEMMA TotalAtLeast ==
  ASSUME NEW S, IsFiniteSet(S), NEW f \in [S -> Nat], NEW x \in S
  PROVE  /\ Total(f, S) >= f[x]
         /\ \A y \in S : y # x => Total(f, S) >= f[x] + f[y]
<1>1. f \in [S -> Int]
  OBVIOUS
<1>2. PICK g : g = SumBody(g, f, S) /\ Total(f, S) = g[S]
  BY TotalIsBody
<1>3. \A t \in SUBSET S : g[t] \in Int /\ \A z \in t : g[t] = f[z] + g[t \ {z}]
  <2>1. IsSum(g, f, S)
    BY <1>1, <1>2 DEF IsSum
  <2>2. SplitsAnywhere(g, f, S)
    BY <2>1, BodySplits
  <2> QED BY <2>2 DEF SplitsAnywhere
<1> DEFINE P == {n \in Nat : \A t \in SUBSET S : Cardinality(t) <= n => g[t] >= 0}
<1>4. 0 \in P
  <2>1. \A t \in SUBSET S : Cardinality(t) <= 0 => t = {}
    BY EmptyIsNone
  <2>2. g[{}] = 0
    <3>1. {} \in SUBSET S
      OBVIOUS
    <3> QED BY <1>2, <3>1 DEF SumBody
  <2> QED BY <2>1, <2>2
<1>5. ASSUME NEW n \in Nat, n \in P PROVE n + 1 \in P
  <2>1. ASSUME NEW t \in SUBSET S, Cardinality(t) <= n + 1 PROVE g[t] >= 0
    <3>1. CASE t = {}
      <4>1. g[{}] = 0
        BY <1>2 DEF SumBody
      <4> QED BY <3>1, <4>1
    <3>2. CASE t # {}
      <4>1. PICK z \in t : TRUE
        BY <3>2
      <4>2. t \ {z} \in SUBSET S /\ Cardinality(t \ {z}) <= n
        BY <2>1, OneLess
      <4>3. g[t \ {z}] >= 0 /\ g[t \ {z}] \in Int
        BY <1>3, <1>5, <4>2
      <4>4. f[z] \in Nat /\ g[t] = f[z] + g[t \ {z}]
        BY <1>3
      <4> QED BY <4>3, <4>4
    <3> QED BY <3>1, <3>2
  <2> QED BY <2>1
<1>6. Nat \subseteq P
  <2> HIDE DEF P
  <2> QED BY <1>4, <1>5, NatInducts
<1>7. ASSUME NEW t \in SUBSET S PROVE g[t] >= 0
  <2>1. IsFiniteSet(t)
    BY FS_Subset
  <2>2. Cardinality(t) \in Nat
    BY <2>1, FS_CardinalityType
  <2>3. Cardinality(t) <= Cardinality(t)
    BY <2>2
  <2> QED BY <1>6, <2>2, <2>3
<1>8. S \in SUBSET S /\ S \ {x} \in SUBSET S
  OBVIOUS
<1>9. g[S] = f[x] + g[S \ {x}] /\ g[S \ {x}] \in Int /\ g[S \ {x}] >= 0 /\ f[x] \in Nat
  BY <1>3, <1>7, <1>8
<1>10. ASSUME NEW y \in S, y # x PROVE Total(f, S) >= f[x] + f[y]
  <2>1. y \in S \ {x} /\ (S \ {x}) \ {y} \in SUBSET S /\ f[y] \in Nat
    BY <1>10
  <2>2. g[S \ {x}] = f[y] + g[(S \ {x}) \ {y}]
    BY <1>3, <1>8, <2>1
  <2>3. g[(S \ {x}) \ {y}] \in Int /\ g[(S \ {x}) \ {y}] >= 0
    BY <1>3, <1>7, <2>1
  <2> QED BY <1>2, <1>9, <2>1, <2>2, <2>3
<1>11. Total(f, S) >= f[x]
  BY <1>2, <1>9
<1> QED BY <1>10, <1>11
================================================================================
