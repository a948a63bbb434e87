---------------------------- MODULE AuthMatrixProofs ---------------------------
(***************************************************************************)
(* What the authorization matrix tells, for every table, every set of      *)
(* addresses and however much the cells share: the cells run in order and  *)
(* once each, the report of a judged matrix is exact where no cell can     *)
(* exhaust what it shares, and it accuses nobody falsely elsewhere.        *)
(***************************************************************************)
EXTENDS AuthMatrix, FiniteSetTheorems, SequenceTheorems, TLAPS

MergeFold == INSTANCE FoldLemmas WITH op <- Merged

USE MatrixAssumption

--------------------------------------------------------------------------------
(* Known: every address mentioned, and no other, once each *)

LEMMA KnownIsFold ==
  Known = MergeFold!Folded(<<>>, FlattenSeq([i \in DOMAIN table |-> table[i].allowed]))
BY DEF Known, FoldLeft, MapThenFoldSet, Max, MergeFold!Folded, MergeFold!FoldLeft,
   MergeFold!MapThenFoldSet, MergeFold!Max

(* Merging keeps what is known, and adds at most the address merged in. *)
LEMMA MergedHolds ==
  ASSUME NEW S, NEW known \in Seq(S), NEW addr \in S
  PROVE  /\ Merged(known, addr) \in Seq(S)
         /\ \A a : Contains(Merged(known, addr), a) <=> Contains(known, a) \/ a = addr
         /\ IsInjective(known) => IsInjective(Merged(known, addr))
<1>1. CASE Contains(known, addr)
  BY <1>1 DEF Merged
<1>2. CASE ~Contains(known, addr)
  <2> DEFINE r == Append(known, addr)
             n == Len(known)
  <2>1. /\ r \in Seq(S) /\ Len(r) = n + 1 /\ n \in Nat /\ r[n + 1] = addr
        /\ \A i \in 1..n : r[i] = known[i]
    OBVIOUS
  <2>2. \A i : i \in 1..(n + 1) <=> i \in 1..n \/ i = n + 1
    BY <2>1
  <2>3. Merged(known, addr) = r
    BY <1>2 DEF Merged
  <2> HIDE DEF r, n
  <2>4. \A a : (\E i \in 1..Len(r) : r[i] = a) <=> (\E i \in 1..n : known[i] = a) \/ a = addr
    BY <2>1, <2>2
  <2>5. ASSUME IsInjective(known)
        PROVE  IsInjective(r)
    <3>1. \A i, j \in 1..n : known[i] = known[j] => i = j
      BY <2>5 DEF IsInjective, n
    <3>2. \A i \in 1..n : known[i] # addr
      BY <1>2 DEF Contains, n
    <3>3. DOMAIN r = 1..(n + 1)
      BY <2>1
    <3> QED BY <2>1, <2>2, <3>1, <3>2, <3>3 DEF IsInjective
  <2> QED BY <2>1, <2>3, <2>4, <2>5 DEF Contains, n
<1> QED BY <1>1, <1>2

(* Merging all the elements of a sequence gives the same elements. *)
LEMMA FoldHolds ==
  ASSUME NEW S, NEW s \in Seq(S)
  PROVE  /\ MergeFold!Folded(<<>>, s) \in Seq(S)
         /\ \A a : Contains(MergeFold!Folded(<<>>, s), a) <=> Contains(s, a)
         /\ IsInjective(MergeFold!Folded(<<>>, s))
<1> DEFINE Right(r) == /\ MergeFold!Folded(<<>>, r) \in Seq(S)
                       /\ \A a : Contains(MergeFold!Folded(<<>>, r), a) <=> Contains(r, a)
                       /\ IsInjective(MergeFold!Folded(<<>>, r))
           P == {n \in Nat : \A r \in Seq(S) : Len(r) = n => Right(r)}
<1>1. 0 \in P
  <2>1. \A r \in Seq(S) : Len(r) = 0 => r = <<>>
    OBVIOUS
  <2>2. MergeFold!Folded(<<>>, <<>>) = <<>>
    BY MergeFold!FoldOfNone
  <2>3. <<>> \in Seq(S)
    OBVIOUS
  <2>4. IsInjective(<<>>)
    BY DEF IsInjective
  <2> QED BY <2>1, <2>2, <2>3, <2>4
<1>2. ASSUME NEW n \in Nat, n \in P PROVE n + 1 \in P
  <2>1. ASSUME NEW r \in Seq(S), Len(r) = n + 1
        PROVE  Right(r)
    <3> DEFINE q == SubSeq(r, 1, n)
               e == r[n + 1]
    <3>1. q \in Seq(S) /\ e \in S /\ Len(q) = n /\ r = Append(q, e)
      BY <2>1
    <3> HIDE DEF q, e
    <3>2. Right(q)
      BY <1>2, <3>1
    <3>3. MergeFold!Folded(<<>>, r) = Merged(MergeFold!Folded(<<>>, q), e)
      BY <3>1, MergeFold!FoldOfAppend
    <3>4. \A a : Contains(r, a) <=> Contains(q, a) \/ a = e
      <4>1. /\ Len(r) = n + 1 /\ r[n + 1] = e /\ \A i \in 1..n : r[i] = q[i]
        BY <3>1
      <4>2. \A i : i \in 1..(n + 1) <=> i \in 1..n \/ i = n + 1
        OBVIOUS
      <4> QED BY <3>1, <4>1, <4>2 DEF Contains
    <3> DEFINE fq == MergeFold!Folded(<<>>, q)
               fr == MergeFold!Folded(<<>>, r)
    <3>5. fr = Merged(fq, e)
      BY <3>3
    <3>6. /\ fq \in Seq(S)
          /\ \A a : Contains(fq, a) <=> Contains(q, a)
          /\ IsInjective(fq)
      BY <3>2
    <3>7. ASSUME /\ fr \in Seq(S) /\ IsInjective(fr)
                 /\ \A a : Contains(fr, a) <=> Contains(r, a)
          PROVE  Right(r)
      BY <3>7
    <3> HIDE DEF fq, fr, Right
    <3>8. /\ fr \in Seq(S) /\ IsInjective(fr)
          /\ \A a : Contains(fr, a) <=> Contains(fq, a) \/ a = e
      BY <3>1, <3>5, <3>6, MergedHolds
    <3>9. \A a : Contains(fr, a) <=> Contains(r, a)
      BY <3>4, <3>6, <3>8
    <3> QED BY <3>7, <3>8, <3>9
  <2> HIDE DEF Right
  <2> QED BY <2>1
<1>3. Nat \subseteq P
  <2> HIDE DEF P
  <2> QED BY <1>1, <1>2, MergeFold!NatInducts
<1>4. Len(s) \in Nat
  OBVIOUS
<1>5. Right(s)
  <2> HIDE DEF Right
  <2> QED BY <1>3, <1>4
<1> QED BY <1>5

TableOK == table \in SeqOf(EntryPoint, MaxEntryPoints)

LEMMA TableTyped ==
  ASSUME TableOK
  PROVE  /\ table \in Seq(EntryPoint) /\ Len(table) \in 0..MaxEntryPoints
         /\ DOMAIN table = 1..Len(table)
         /\ \A i \in DOMAIN table : /\ table[i].entry \in Entries
                                    /\ table[i].allowed \in Seq(Addresses)
<1>1. PICK m \in 0..MaxEntryPoints : table \in [1..m -> EntryPoint]
  BY DEF TableOK, SeqOf
<1>2. m \in Nat /\ DOMAIN table = 1..m /\ Len(table) = m /\ table \in Seq(EntryPoint)
  BY <1>1
<1>3. \A i \in DOMAIN table : table[i] \in EntryPoint
  BY <1>1
<1> QED BY <1>1, <1>2, <1>3 DEF EntryPoint

LEMMA KnownMentioned ==
  ASSUME TableOK
  PROVE  /\ Known \in Seq(Addresses)
         /\ \A a : Contains(Known, a) <=> \E i \in DOMAIN table : Contains(table[i].allowed, a)
         /\ IsInjective(Known)
<1> DEFINE ss == [i \in DOMAIN table |-> table[i].allowed]
<1>1. ss \in Seq(Seq(Addresses)) /\ Len(ss) = Len(table)
  BY TableTyped
<1>2. \A i \in 1..Len(ss) : ss[i] = table[i].allowed
  BY TableTyped, <1>1
<1>3. Known = MergeFold!Folded(<<>>, FlattenSeq(ss))
  BY KnownIsFold
<1> HIDE DEF ss
<1>4. /\ FlattenSeq(ss) \in Seq(Addresses)
      /\ \A a : Contains(FlattenSeq(ss), a) <=> \E i \in 1..Len(ss) : Contains(ss[i], a)
  <2>1. FlattenSeq(ss) = MergeFold!FlattenSeq(ss)
    BY DEF FlattenSeq, MergeFold!FlattenSeq
  <2>2. \A s, a : MergeFold!Contains(s, a) <=> Contains(s, a)
    BY DEF Contains, MergeFold!Contains
  <2>3. /\ MergeFold!FlattenSeq(ss) \in Seq(Addresses)
        /\ \A a : MergeFold!Contains(MergeFold!FlattenSeq(ss), a) <=>
                    \E i \in 1..Len(ss) : MergeFold!Contains(ss[i], a)
    BY <1>1, MergeFold!FlattenHolds
  <2> QED BY <2>1, <2>2, <2>3
<1>5. /\ Known \in Seq(Addresses)
      /\ \A a : Contains(Known, a) <=> Contains(FlattenSeq(ss), a)
      /\ IsInjective(Known)
  BY <1>3, <1>4, FoldHolds
<1> QED BY <1>1, <1>2, <1>4, <1>5, TableTyped

LEMMA KnownStays ==
  ASSUME table' = table
  PROVE  Known' = Known /\ Cells' = Cells
<1>1. Known' = MergeFold!Folded(<<>>, FlattenSeq([i \in DOMAIN table' |-> table'[i].allowed]))
  BY DEF Known, FoldLeft, MapThenFoldSet, Max, MergeFold!Folded, MergeFold!FoldLeft,
     MergeFold!MapThenFoldSet, MergeFold!Max
<1>2. Known' = Known
  BY <1>1, KnownIsFold
<1> QED BY <1>2 DEF Cells

--------------------------------------------------------------------------------
(* The order of the cells *)

(* Rows before the q-th are done, and of that one the first r addresses. *)
Done(i, j, c, k) == i - 1 < c \div k \/ (i - 1 = c \div k /\ j - 1 < c % k)

(* A cell's place in the table. *)
LEMMA CellPlace ==
  ASSUME NEW n \in Nat, NEW k \in Nat, NEW c \in Nat, k # 0
  PROVE  /\ c \div k \in Nat /\ c % k \in 0..(k - 1)
         /\ c < n * k => c \div k < n
         /\ c >= n * k => c \div k >= n
<1> DEFINE q == c \div k
           r == c % k
<1>1. q \in Int /\ r \in 0..(k - 1) /\ c = q * k + r
  OBVIOUS
<1> HIDE DEF q, r
<1>2. q >= 0
  <2> SUFFICES ASSUME q + 1 <= 0 PROVE FALSE
    BY <1>1
  <2>1. (q + 1) * k <= 0
    BY <1>1
  <2>2. (q + 1) * k = q * k + k
    BY <1>1
  <2> QED BY <1>1, <2>1, <2>2
<1>3. ASSUME c < n * k PROVE q < n
  <2> SUFFICES ASSUME q >= n PROVE FALSE
    BY <1>1
  <2>1. q * k >= n * k
    BY <1>1
  <2>2. q * k \in Int /\ n * k \in Int
    BY <1>1
  <2> QED BY <1>1, <1>3, <2>1, <2>2
<1>4. ASSUME c >= n * k PROVE q >= n
  <2> SUFFICES ASSUME q + 1 <= n PROVE FALSE
    BY <1>1
  <2>1. (q + 1) * k <= n * k
    BY <1>1
  <2>2. (q + 1) * k = q * k + k /\ q * k \in Int /\ n * k \in Int
    BY <1>1
  <2> QED BY <1>1, <1>4, <2>1, <2>2
<1> QED BY <1>1, <1>2, <1>3, <1>4 DEF q, r

(* The first cell is the first row's first. *)
LEMMA FirstPlace ==
  ASSUME NEW k \in Nat, k # 0
  PROVE  0 \div k = 0 /\ 0 % k = 0
<1> DEFINE q == 0 \div k
           r == 0 % k
<1>1. q \in Int /\ r \in 0..(k - 1) /\ 0 = q * k + r
  OBVIOUS
<1> HIDE DEF q, r
<1>2. q = 0
  <2>1. CASE q >= 1
    <3>1. q * k >= k
      BY <1>1, <2>1
    <3> QED BY <1>1, <3>1
  <2>2. CASE q <= -1
    <3>1. q * k <= -k
      BY <1>1, <2>2
    <3> QED BY <1>1, <3>1
  <2> QED BY <1>1, <2>1, <2>2
<1> QED BY <1>1, <1>2 DEF q, r

(* The place of the next one. *)
LEMMA NextPlace ==
  ASSUME NEW k \in Nat, NEW c \in Nat, k # 0
  PROVE  IF c % k = k - 1
           THEN (c + 1) \div k = (c \div k) + 1 /\ (c + 1) % k = 0
           ELSE (c + 1) \div k = c \div k /\ (c + 1) % k = (c % k) + 1
<1> DEFINE q == c \div k
           r == c % k
<1>1. q \in Int /\ r \in 0..(k - 1) /\ c = q * k + r
  OBVIOUS
<1>2. \A p \in Int, s \in 0..(k - 1) : c + 1 = p * k + s => (c + 1) \div k = p /\ (c + 1) % k = s
  <2> SUFFICES ASSUME NEW p \in Int, NEW s \in 0..(k - 1), c + 1 = p * k + s
               PROVE  (c + 1) \div k = p /\ (c + 1) % k = s
    OBVIOUS
  <2> DEFINE a == (c + 1) \div k
             b == (c + 1) % k
  <2>1. a \in Int /\ b \in 0..(k - 1) /\ c + 1 = a * k + b
    OBVIOUS
  <2> HIDE DEF a, b
  <2>2. (a - p) * k = s - b
    <3>1. (a - p) * k = a * k - p * k
      BY <2>1
    <3>2. a * k \in Int /\ p * k \in Int
      BY <2>1
    <3> QED BY <2>1, <3>1, <3>2
  <2>3. a = p
    <3>1. CASE a - p >= 1
      <4>1. (a - p) * k >= k
        BY <2>1, <3>1
      <4> QED BY <2>1, <2>2, <4>1
    <3>2. CASE a - p <= -1
      <4>1. (a - p) * k <= -k
        BY <2>1, <3>2
      <4> QED BY <2>1, <2>2, <4>1
    <3> QED BY <2>1, <3>1, <3>2
  <2>4. b = s
    BY <2>1, <2>2, <2>3
  <2> QED BY <2>3, <2>4 DEF a, b
<1> HIDE DEF q, r
<1>3. (q + 1) * k = q * k + k /\ q * k \in Int
  BY <1>1
<1>4. ASSUME r = k - 1 PROVE (c + 1) \div k = q + 1 /\ (c + 1) % k = 0
  <2>1. c + 1 = (q + 1) * k + 0 /\ q + 1 \in Int /\ 0 \in 0..(k - 1)
    BY <1>1, <1>3, <1>4
  <2> QED BY <1>2, <2>1
<1>5. ASSUME r # k - 1 PROVE (c + 1) \div k = q /\ (c + 1) % k = r + 1
  <2>1. c + 1 = q * k + (r + 1) /\ r + 1 \in 0..(k - 1)
    BY <1>1, <1>3, <1>5
  <2> QED BY <1>1, <1>2, <2>1
<1> QED BY <1>4, <1>5 DEF q, r

(* A step runs one cell, and no other. *)
LEMMA DoneStep ==
  ASSUME NEW k \in Nat, NEW c \in Nat, k # 0, NEW i \in Nat, NEW j \in 1..k
  PROVE  Done(i, j, c + 1, k) <=>
           Done(i, j, c, k) \/ (i = (c \div k) + 1 /\ j = (c % k) + 1)
<1>1. c \div k \in Nat /\ c % k \in 0..(k - 1)
  BY CellPlace
<1>2. CASE c % k = k - 1
  <2>1. (c + 1) \div k = (c \div k) + 1 /\ (c + 1) % k = 0
    BY <1>2, NextPlace
  <2> QED BY <1>1, <1>2, <2>1 DEF Done
<1>3. CASE c % k # k - 1
  <2>1. (c + 1) \div k = c \div k /\ (c + 1) % k = (c % k) + 1
    BY <1>3, NextPlace
  <2> QED BY <1>1, <1>3, <2>1 DEF Done
<1> QED BY <1>2, <1>3

(* None is done before the first step, and all when there are no more.     *)
LEMMA DoneAtEnds ==
  ASSUME NEW n \in Nat, NEW k \in Nat, k # 0, NEW i \in 1..n, NEW j \in 1..k
  PROVE  /\ ~Done(i, j, 0, k)
         /\ \A c \in Nat : c >= n * k => Done(i, j, c, k)
<1>1. ~Done(i, j, 0, k)
  BY FirstPlace DEF Done
<1>2. ASSUME NEW c \in Nat, c >= n * k PROVE Done(i, j, c, k)
  <2>1. c \div k \in Nat /\ c \div k >= n
    BY <1>2, CellPlace
  <2> QED BY <2>1 DEF Done
<1> QED BY <1>1, <1>2

(* How many cells of the rows W are left to run. *)
LeftOf(W, c, k) ==
  Cardinality(W \ (1..(c \div k))) * k - (IF (c \div k) + 1 \in W THEN c % k ELSE 0)

LEMMA LeftAtFirst ==
  ASSUME NEW k \in Nat, k # 0, NEW n \in Nat, NEW W \in SUBSET (1..n)
  PROVE  LeftOf(W, 0, k) = Cardinality(W) * k
<1>1. 0 \div k = 0 /\ 0 % k = 0
  BY FirstPlace
<1>2. W \ (1..0) = W
  OBVIOUS
<1>3. IsFiniteSet(W)
  <2>1. IsFiniteSet(1..n)
    BY FS_Interval
  <2> QED BY <2>1, FS_Subset
<1>4. Cardinality(W) \in Nat
  BY <1>3, FS_CardinalityType
<1>5. Cardinality(W) * k \in Int
  BY <1>4
<1> DEFINE q == 0 \div k
           r == 0 % k
<1>6. LeftOf(W, 0, k) = Cardinality(W \ (1..q)) * k - (IF q + 1 \in W THEN r ELSE 0)
  BY DEF LeftOf
<1>7. q = 0 /\ r = 0
  BY <1>1
<1> HIDE DEF q, r
<1>8. W \ (1..q) = W
  BY <1>2, <1>7
<1>9. LeftOf(W, 0, k) = Cardinality(W) * k - 0
  BY <1>6, <1>7, <1>8
<1> QED BY <1>5, <1>9

LEMMA LeftStep ==
  ASSUME NEW k \in Nat, k # 0, NEW n \in Nat, NEW W \in SUBSET (1..n), NEW c \in Nat
  PROVE  /\ LeftOf(W, c, k) \in Int
         /\ (c \div k) + 1 \in W =>
              LeftOf(W, c, k) >= 1 /\ LeftOf(W, c + 1, k) = LeftOf(W, c, k) - 1
         /\ (c \div k) + 1 \notin W => LeftOf(W, c + 1, k) = LeftOf(W, c, k)
<1> DEFINE q == c \div k
           r == c % k
           rest == W \ (1..q)
           later == W \ (1..(q + 1))
           a == Cardinality(rest)
           b == Cardinality(later)
<1>1. q \in Nat /\ r \in 0..(k - 1)
  BY CellPlace
<1>2. IsFiniteSet(rest) /\ IsFiniteSet(later)
  <2>1. IsFiniteSet(1..n)
    BY FS_Interval
  <2>2. rest \in SUBSET (1..n) /\ later \in SUBSET (1..n)
    OBVIOUS
  <2> HIDE DEF rest, later
  <2> QED BY <2>1, <2>2, FS_Subset
<1>3. a \in Nat /\ b \in Nat
  BY <1>2, FS_CardinalityType
<1>4. later = rest \ {q + 1}
  BY <1>1
<1>5. q + 1 \in W <=> q + 1 \in rest
  BY <1>1
<1>6. b = IF q + 1 \in W THEN a - 1 ELSE a
  <2> HIDE DEF rest, later
  <2>1. b = IF q + 1 \in rest THEN a - 1 ELSE a
    BY <1>2, <1>4, FS_RemoveElement
  <2> QED BY <1>5, <2>1
<1>7. LeftOf(W, c, k) = a * k - (IF q + 1 \in W THEN r ELSE 0)
  BY DEF LeftOf
<1>8. LeftOf(W, c + 1, k) = IF r = k - 1 THEN b * k
                            ELSE a * k - (IF q + 1 \in W THEN r + 1 ELSE 0)
  <2>1. CASE r = k - 1
    <3>1. (c + 1) \div k = q + 1 /\ (c + 1) % k = 0
      BY <2>1, NextPlace
    <3>2. LeftOf(W, c + 1, k) = b * k - (IF (q + 1) + 1 \in W THEN 0 ELSE 0)
      BY <3>1 DEF LeftOf
    <3>3. b * k \in Int
      BY <1>3
    <3> QED BY <2>1, <3>2, <3>3
  <2>2. CASE r # k - 1
    <3>1. (c + 1) \div k = q /\ (c + 1) % k = r + 1
      BY <2>2, NextPlace
    <3> QED BY <2>2, <3>1 DEF LeftOf
  <2> QED BY <2>1, <2>2
<1> HIDE DEF a, b, q, r, rest, later
<1>9. a * k \in Int /\ b * k \in Int
  BY <1>3
<1>10. CASE q + 1 \in W
  <2>1. b * k = a * k - k
    BY <1>3, <1>6, <1>10
  <2>2. a >= 1 /\ a * k >= k
    <3>1. a >= 1
      BY <1>3, <1>6, <1>10
    <3> QED BY <1>3, <3>1
  <2> QED BY <1>1, <1>7, <1>8, <1>9, <1>10, <2>1, <2>2 DEF q
<1>11. CASE q + 1 \notin W
  <2>1. a = b
    BY <1>6, <1>11
  <2> QED BY <1>1, <1>7, <1>8, <1>9, <1>11, <2>1 DEF q
<1> QED BY <1>10, <1>11

--------------------------------------------------------------------------------
(* The invariant *)

K == Len(Known)

Rows(entries) == {i \in DOMAIN table : table[i].entry \in entries}

Withdrawing == {"withdraw", "withdraw_checked"}

Owner == IF run.start = Uninitialized THEN Host ELSE run.start.owner

(* Whether table and guards differ in a cell. *)
Mismatch(i, a) ==
  Contains(table[i].allowed, a) # (a \in MayCall(table[i].entry, Owner))

(* The cells of row i that have run are reported if they mismatch, and     *)
(* only then.                                                              *)
Exact(i) ==
  /\ \A j \in 1..K : Done(i, j, run.cell, K) /\ Mismatch(i, Known[j])
                       => <<i, Known[j]>> \in run.violations
  /\ \A v \in run.violations : v[1] = i => Mismatch(i, v[2])

(* Ample, of the run under way. *)
AmpleRun ==
  LET cells(entries) == Cardinality(Rows(entries)) * K
  IN  /\ run.start # Uninitialized /\ cells({"initialize"}) = 0
      /\ run.start.balance >= cells(Withdrawing)
      /\ run.start.balance + cells({"deposit"}) <= MaxBalance

(* What the cells still to run may take from the vault, or put into it.    *)
Room ==
  /\ vault # Uninitialized
  /\ vault.balance >= LeftOf(Rows(Withdrawing), run.cell, K)
  /\ MaxBalance - vault.balance >= LeftOf(Rows({"deposit"}), run.cell, K)

(* The purse was funded for all escrow cells, and is for those still to run. *)
FundedRun == run.funds >= Cardinality(Rows(EscrowEntries)) * K

PurseLasts == purse >= LeftOf(Rows(EscrowEntries), run.cell, K)

(* Without a cell that initializes, the vault's owner is the one it had.   *)
OwnerStays ==
  IF run.start = Uninitialized THEN vault = Uninitialized
  ELSE vault # Uninitialized /\ vault.owner = run.start.owner

(* Whoever is reported as a forbidden caller may really call.              *)
Founded ==
  \A v \in run.violations :
    ~Contains(table[v[1]].allowed, v[2]) => v[2] \in MayCall(table[v[1]].entry, Owner)

RunType ==
  [cell : 0..Cells, violations : SUBSET ((DOMAIN table) \X Addresses), start : Vaults,
   funds : 0..MaxPurse]

RunInv ==
  /\ run \in RunType
  /\ verdict = NoVerdict
  /\ \A v \in run.violations : Contains(Known, v[2])
  /\ K # 0 => \A i \in DOMAIN table :
                 table[i].entry \in EscrowEntries \/ AmpleRun => Exact(i)
  /\ Rows({"initialize"}) = {} => OwnerStays /\ Founded
  /\ K # 0 /\ AmpleRun => Room
  /\ K # 0 /\ FundedRun => PurseLasts

Inv ==
  /\ vault \in Vaults /\ purse \in 0..MaxPurse /\ all_auths \in BOOLEAN
  /\ TableOK
  /\ run # Idle => RunInv
  /\ verdict # NoVerdict => verdict.result \in {"passed", "violated", "panics"}
  /\ ReportIsExact /\ NoFalseAccusation /\ FundedIsJudged

--------------------------------------------------------------------------------
(* The cells *)

LEMMA SizesTyped ==
  ASSUME TableOK
  PROVE  /\ K \in Nat /\ Len(table) \in Nat /\ DOMAIN table = 1..Len(table)
         /\ Cells = Len(table) * K /\ Cells \in Nat
         /\ \A j \in 1..K : Known[j] \in Addresses
BY TableTyped, KnownMentioned DEF K, Cells

(* A cell to run is a cell of the table. *)
LEMMA CellTyped ==
  ASSUME TableOK, run \in RunType, run.cell < Cells
  PROVE  /\ K # 0 /\ run.cell \in Nat
         /\ Row = (run.cell \div K) + 1 /\ Row \in DOMAIN table
         /\ (run.cell % K) + 1 \in 1..K
         /\ Addr = Known[(run.cell % K) + 1] /\ Addr \in Addresses
         /\ Contains(Known, Addr)
<1>1. /\ K \in Nat /\ Len(table) \in Nat /\ DOMAIN table = 1..Len(table)
      /\ Cells = Len(table) * K /\ \A j \in 1..K : Known[j] \in Addresses
  BY SizesTyped
<1>2. run.cell \in Nat /\ run.cell < Len(table) * K
  BY <1>1, SizesTyped DEF RunType
<1>3. K # 0
  <2> SUFFICES ASSUME K = 0 PROVE FALSE
    OBVIOUS
  <2>1. Len(table) * K = 0
    BY <1>1
  <2> QED BY <1>2, <2>1
<1>4. /\ run.cell \div K \in Nat /\ run.cell % K \in 0..(K - 1)
      /\ run.cell \div K < Len(table)
  BY <1>1, <1>2, <1>3, CellPlace
<1>5. Row = (run.cell \div K) + 1 /\ Addr = Known[(run.cell % K) + 1]
  BY DEF Row, Addr, K
<1>6. Row \in DOMAIN table /\ (run.cell % K) + 1 \in 1..K
  BY <1>1, <1>4, <1>5
<1>7. Addr \in Addresses /\ Contains(Known, Addr)
  BY <1>1, <1>5, <1>6 DEF Contains, K
<1> QED BY <1>2, <1>3, <1>5, <1>6, <1>7

(* What a cell adds to the report. *)
LEMMA RanStep ==
  ASSUME TableOK, run \in RunType, run.cell < Cells, NEW actual \in BOOLEAN, Ran(actual)
  PROVE  /\ table' = table /\ Known' = Known /\ K' = K /\ Cells' = Cells
         /\ verdict' = verdict
         /\ run' \in RunType' /\ run'.cell = run.cell + 1
         /\ run'.start = run.start /\ run'.funds = run.funds
         /\ run'.violations = IF Contains(Point.allowed, Addr) # actual
                                THEN run.violations \cup {<<Row, Addr>>}
                                ELSE run.violations
<1>1. table' = table /\ verdict' = verdict
  BY DEF Ran
<1>2. Known' = Known /\ Cells' = Cells /\ K' = K
  BY <1>1, KnownStays DEF K
<1>3. run' = [run EXCEPT !.cell = run.cell + 1,
                         !.violations = IF Contains(Point.allowed, Addr) # actual
                                        THEN run.violations \cup {<<Row, Addr>>}
                                        ELSE run.violations]
  BY DEF Ran, NextCell
<1>4. Row \in DOMAIN table /\ Addr \in Addresses /\ run.cell \in Nat /\ Cells \in Nat
  BY CellTyped, SizesTyped
<1>5. run.cell + 1 \in 0..Cells
  BY <1>4
<1>6. run' \in RunType
  <2> DEFINE reported == IF Contains(Point.allowed, Addr) # actual
                         THEN run.violations \cup {<<Row, Addr>>}
                         ELSE run.violations
  <2>1. run.violations \in SUBSET ((DOMAIN table) \X Addresses)
    BY DEF RunType
  <2>2. <<Row, Addr>> \in (DOMAIN table) \X Addresses
    BY <1>4
  <2>3. reported \in SUBSET ((DOMAIN table) \X Addresses)
    BY <2>1, <2>2
  <2>4. run' = [run EXCEPT !.cell = run.cell + 1, !.violations = reported]
    BY <1>3
  <2> HIDE DEF reported
  <2> QED BY <1>5, <2>3, <2>4 DEF RunType
<1>7. RunType' = RunType
  BY <1>1, <1>2 DEF RunType
<1> QED BY <1>1, <1>2, <1>3, <1>6, <1>7 DEF RunType

(* A row stays exact if the cell that ran was in another, or answered as   *)
(* its guards would.                                                       *)
LEMMA ExactStays ==
  ASSUME TableOK, run \in RunType, run.cell < Cells, NEW actual \in BOOLEAN, Ran(actual),
         NEW i \in DOMAIN table, Exact(i),
         i = Row => (actual <=> Addr \in MayCall(Point.entry, Owner))
  PROVE  Exact(i)'
<1>1. /\ table' = table /\ Known' = Known /\ K' = K
      /\ run'.cell = run.cell + 1 /\ run'.start = run.start
      /\ run'.violations = IF Contains(Point.allowed, Addr) # actual
                             THEN run.violations \cup {<<Row, Addr>>}
                             ELSE run.violations
  BY RanStep
<1>2. /\ K # 0 /\ run.cell \in Nat /\ K \in Nat /\ DOMAIN table \subseteq Nat
      /\ Row = (run.cell \div K) + 1 /\ Addr = Known[(run.cell % K) + 1]
  BY CellTyped, SizesTyped
<1>3. Owner' = Owner
  BY <1>1 DEF Owner
<1>4. \A a : Mismatch(i, a)' <=> Mismatch(i, a)
  BY <1>1, <1>3 DEF Mismatch
<1>5. i = Row => (Mismatch(i, Addr) <=> Contains(Point.allowed, Addr) # actual)
  BY DEF Mismatch, Point
<1>6. ASSUME NEW j \in 1..K, Done(i, j, run.cell + 1, K), Mismatch(i, Known[j])
      PROVE  <<i, Known[j]>> \in run'.violations
  <2>1. CASE Done(i, j, run.cell, K)
    BY <1>1, <1>6, <2>1 DEF Exact
  <2>2. CASE i = (run.cell \div K) + 1 /\ j = (run.cell % K) + 1
    BY <1>1, <1>2, <1>5, <1>6, <2>2
  <2>3. Done(i, j, run.cell, K) \/ (i = (run.cell \div K) + 1 /\ j = (run.cell % K) + 1)
    BY <1>2, <1>6, DoneStep
  <2> QED BY <2>1, <2>2, <2>3
<1>7. ASSUME NEW v \in run'.violations, v[1] = i
      PROVE  Mismatch(i, v[2])
  <2>1. CASE v \in run.violations
    BY <1>7, <2>1 DEF Exact
  <2>2. CASE v = <<Row, Addr>> /\ Contains(Point.allowed, Addr) # actual
    BY <1>5, <1>7, <2>2
  <2> QED BY <1>1, <2>1, <2>2
<1> QED BY <1>1, <1>4, <1>6, <1>7 DEF Exact

(* A cell keeps what holds of the run, if it answers as its guards would   *)
(* where that is promised, and leaves the vault its owner and its room.    *)
LEMMA CellKeeps ==
  ASSUME TableOK, RunInv, run.cell < Cells, NEW actual \in BOOLEAN, Ran(actual),
         Point.entry \in EscrowEntries \/ AmpleRun
           => (actual <=> Addr \in MayCall(Point.entry, Owner)),
         Rows({"initialize"}) = {} =>
           /\ IF run.start = Uninitialized THEN vault' = Uninitialized
              ELSE vault' # Uninitialized /\ vault'.owner = run.start.owner
           /\ actual => Addr \in MayCall(Point.entry, Owner),
         AmpleRun => Room',
         FundedRun => PurseLasts'
  PROVE  RunInv'
<1>1. run \in RunType
  BY DEF RunInv
<1>2. /\ table' = table /\ Known' = Known /\ K' = K /\ verdict' = verdict
      /\ run' \in RunType' /\ run'.start = run.start /\ run'.funds = run.funds
      /\ run'.violations = IF Contains(Point.allowed, Addr) # actual
                             THEN run.violations \cup {<<Row, Addr>>}
                             ELSE run.violations
  BY <1>1, RanStep
<1>3. K # 0 /\ Contains(Known, Addr) /\ Row \in DOMAIN table
  BY <1>1, CellTyped
<1>4. /\ Owner' = Owner /\ (AmpleRun' <=> AmpleRun) /\ (FundedRun' <=> FundedRun)
      /\ \A entries : Rows(entries)' = Rows(entries)
  BY <1>2 DEF Owner, AmpleRun, FundedRun, Rows
<1>5. \A v \in run'.violations : v \in run.violations \/ v = <<Row, Addr>>
  BY <1>2
<1>6. \A v \in run'.violations : Contains(Known, v[2])
  BY <1>3, <1>5 DEF RunInv
<1>7. ASSUME NEW i \in DOMAIN table, table[i].entry \in EscrowEntries \/ AmpleRun
      PROVE  Exact(i)'
  <2>1. Exact(i)
    BY <1>3, <1>7 DEF RunInv
  <2>2. i = Row => (actual <=> Addr \in MayCall(Point.entry, Owner))
    BY <1>7 DEF Point
  <2> QED BY <1>1, <2>1, <2>2, ExactStays
<1>8. ASSUME Rows({"initialize"}) = {}
      PROVE  OwnerStays' /\ Founded'
  <2>1. OwnerStays'
    BY <1>2, <1>8 DEF OwnerStays
  <2>2. ASSUME NEW v \in run'.violations, ~Contains(table[v[1]].allowed, v[2])
        PROVE  v[2] \in MayCall(table[v[1]].entry, Owner)
    <3>1. CASE v \in run.violations
      BY <1>8, <2>2, <3>1 DEF RunInv, Founded
    <3>2. CASE v = <<Row, Addr>> /\ v \notin run.violations
      <4>1. v[1] = Row /\ v[2] = Addr /\ table[Row] = Point
        BY <3>2 DEF Point
      <4>2. Contains(Point.allowed, Addr) # actual /\ ~Contains(Point.allowed, Addr)
        BY <1>2, <2>2, <3>2, <4>1
      <4>3. actual
        <5>1. Contains(Point.allowed, Addr) \in BOOLEAN
          BY DEF Contains
        <5>2. Contains(Point.allowed, Addr) = FALSE
          BY <4>2, <5>1
        <5> QED BY <4>2, <5>2
      <4> QED BY <1>8, <4>1, <4>3
    <3> QED BY <1>5, <3>1, <3>2
  <2>3. Founded'
    BY <1>2, <1>4, <2>2 DEF Founded
  <2> QED BY <2>1, <2>3
<1>9. (\A v \in run.violations : Contains(Known, v[2]))'
  BY <1>2, <1>6
<1>10. (K # 0 => \A i \in DOMAIN table :
          table[i].entry \in EscrowEntries \/ AmpleRun => Exact(i))'
  BY <1>2, <1>4, <1>7
<1>11. (Rows({"initialize"}) = {} => OwnerStays /\ Founded)'
  BY <1>4, <1>8
<1>12. (K # 0 /\ AmpleRun => Room)' /\ (K # 0 /\ FundedRun => PurseLasts)'
  BY <1>4
<1>13. (verdict = NoVerdict)'
  BY <1>2 DEF RunInv
<1> QED BY <1>2, <1>9, <1>10, <1>11, <1>12, <1>13 DEF RunInv

(* What a call of the vault does to it. *)
LEMMA CallEffect ==
  ASSUME vault \in Vaults, NEW e \in VaultEntries, NEW signer, NEW caller \in Addresses,
         CallVault(e, signer, caller)
  PROVE  /\ vault' \in Vaults
         /\ e # "initialize" /\ vault = Uninitialized => vault' = Uninitialized
         /\ e # "initialize" /\ vault # Uninitialized =>
              /\ vault' # Uninitialized /\ vault'.owner = vault.owner
              /\ vault'.balance = IF ~VaultAccepts(e, signer) THEN vault.balance
                                  ELSE IF e = "deposit" THEN vault.balance + 1
                                  ELSE vault.balance - 1
<1>1. CASE ~VaultAccepts(e, signer)
  BY <1>1 DEF CallVault
<1>2. CASE VaultAccepts(e, signer) /\ e = "initialize"
  <2>1. vault' = [owner |-> caller, balance |-> 0]
    BY <1>2 DEF CallVault, After
  <2>2. 0 \in 0..MaxBalance
    OBVIOUS
  <2> QED BY <1>2, <2>1, <2>2 DEF Vaults
<1>3. CASE VaultAccepts(e, signer) /\ e # "initialize"
  <2>1. vault # Uninitialized
    BY <1>3 DEF VaultAccepts, Accepts
  <2>2. vault \in [owner : Addresses, balance : 0..MaxBalance] /\ vault.balance \in 0..MaxBalance
    BY <2>1 DEF Vaults
  <2> DEFINE n == IF e = "deposit" THEN vault.balance + 1 ELSE vault.balance - 1
  <2>3. IF e = "deposit" THEN vault.balance + 1 <= MaxBalance ELSE vault.balance >= 1
    BY <1>3 DEF VaultAccepts, Accepts, Amount
  <2>4. n \in 0..MaxBalance
    BY <2>2, <2>3
  <2>5. vault' = [vault EXCEPT !.balance = n]
    BY <1>3 DEF CallVault, After, Amount
  <2> HIDE DEF n
  <2>6. /\ vault' \in [owner : Addresses, balance : 0..MaxBalance]
        /\ vault'.owner = vault.owner /\ vault'.balance = n
    BY <2>2, <2>4, <2>5
  <2>7. vault' # Uninitialized /\ vault' \in Vaults
    BY <2>6 DEF Vaults
  <2> QED BY <1>3, <2>1, <2>6, <2>7 DEF n
<1> QED BY <1>1, <1>2, <1>3

(* No row of a run with room initializes. *)
LEMMA AmpleRows ==
  ASSUME TableOK, AmpleRun, K # 0
  PROVE  Rows({"initialize"}) = {}
<1> DEFINE W == Rows({"initialize"})
           n == Cardinality(W)
<1>1. K \in Nat /\ Len(table) \in Nat /\ DOMAIN table = 1..Len(table)
  BY SizesTyped
<1>2. W \in SUBSET (1..Len(table))
  BY <1>1 DEF Rows
<1>3. n * K = 0
  BY DEF AmpleRun
<1> HIDE DEF W
<1>4. IsFiniteSet(W)
  <2>1. IsFiniteSet(1..Len(table))
    BY <1>1, FS_Interval
  <2> QED BY <1>2, <2>1, FS_Subset
<1>5. n \in Nat
  BY <1>4, FS_CardinalityType
<1> HIDE DEF n
<1>6. n = 0
  <2> SUFFICES ASSUME n >= 1 PROVE FALSE
    BY <1>5
  <2>1. n * K >= K
    BY <1>1, <1>5
  <2> QED BY <1>1, <1>3, <2>1
<1>7. W = {}
  BY <1>4, <1>6, FS_EmptySet DEF n
<1> QED BY <1>7 DEF W

(* Who gets through to the vault may call it, if no cell initializes it.   *)
LEMMA AcceptedMayCall ==
  ASSUME TableOK, run \in RunType, run.cell < Cells, OwnerStays,
         Point.entry \in VaultEntries \ {"initialize"}, VaultAccepts(Point.entry, Addr)
  PROVE  Addr \in MayCall(Point.entry, Owner)
<1>1. Addr \in Addresses /\ Addr # Host
  BY CellTyped
<1>2. CASE Point.entry = "withdraw_checked"
  <2>1. vault # Uninitialized /\ Addr = vault.owner
    BY <1>1, <1>2 DEF VaultAccepts, Accepts, Authorized
  <2>2. Owner = vault.owner
    BY <2>1 DEF OwnerStays, Owner
  <2> QED BY <1>2, <2>1, <2>2 DEF MayCall
<1>3. CASE Point.entry \in {"deposit", "withdraw"}
  BY <1>1, <1>3 DEF MayCall
<1> QED BY <1>2, <1>3 DEF VaultEntries

(* With room left, the guards alone decide. *)
LEMMA RoomyAccepts ==
  ASSUME TableOK, run \in RunType, run.cell < Cells, OwnerStays, Room, vault \in Vaults,
         run.start # Uninitialized, Point.entry \in VaultEntries \ {"initialize"}
  PROVE  VaultAccepts(Point.entry, Addr) <=> Addr \in MayCall(Point.entry, Owner)
<1>1. /\ Addr \in Addresses /\ Addr # Host /\ K # 0 /\ K \in Nat /\ run.cell \in Nat
      /\ Row = (run.cell \div K) + 1 /\ Row \in DOMAIN table
      /\ Len(table) \in Nat /\ DOMAIN table = 1..Len(table)
  BY CellTyped, SizesTyped
<1>2. vault # Uninitialized /\ vault.balance \in 0..MaxBalance /\ Owner = vault.owner
  BY DEF Room, OwnerStays, Owner, Vaults
<1>3. ASSUME NEW entries, Point.entry \in entries
      PROVE  LeftOf(Rows(entries), run.cell, K) \in Int /\ LeftOf(Rows(entries), run.cell, K) >= 1
  <2>1. Row \in Rows(entries) /\ Rows(entries) \in SUBSET (1..Len(table))
    BY <1>1, <1>3 DEF Rows, Point
  <2> QED BY <1>1, <2>1, LeftStep
<1>4. CASE Point.entry = "deposit"
  <2>1. MaxBalance - vault.balance >= 1
    BY <1>2, <1>3, <1>4 DEF Room
  <2>2. vault.balance + 1 <= MaxBalance
    BY <1>2, <2>1
  <2> QED BY <1>1, <1>2, <1>4, <2>2 DEF MayCall, VaultAccepts, Accepts, Amount
<1>5. CASE Point.entry \in Withdrawing
  <2>1. vault.balance >= 1
    BY <1>2, <1>3, <1>5 DEF Room
  <2>2. CASE Point.entry = "withdraw"
    BY <1>1, <1>2, <2>1, <2>2 DEF MayCall, VaultAccepts, Accepts, Amount
  <2>3. CASE Point.entry = "withdraw_checked"
    BY <1>1, <1>2, <2>1, <2>3 DEF MayCall, VaultAccepts, Accepts, Amount, Authorized
  <2> QED BY <1>5, <2>2, <2>3 DEF Withdrawing
<1> QED BY <1>4, <1>5 DEF VaultEntries, Withdrawing

(* A cell of the vault. *)
LEMMA VaultCellKeeps ==
  ASSUME Inv, RunInv, run.cell < Cells, VaultCell
  PROVE  RunInv' /\ vault' \in Vaults /\ table' = table
<1> DEFINE e == Point.entry
           actual == VaultAccepts(e, Addr)
<1>1. /\ TableOK /\ run \in RunType /\ vault \in Vaults
      /\ e \in VaultEntries /\ CallVault(e, Addr, Addr) /\ Ran(actual)
  BY DEF Inv, RunInv, VaultCell
<1>2. /\ Addr \in Addresses /\ K # 0 /\ K \in Nat /\ run.cell \in Nat
      /\ Row = (run.cell \div K) + 1 /\ Row \in DOMAIN table
      /\ Len(table) \in Nat /\ DOMAIN table = 1..Len(table)
  BY <1>1, CellTyped, SizesTyped
<1>3. actual \in BOOLEAN
  BY DEF VaultAccepts, Accepts
<1> HIDE DEF actual
<1>4. vault' \in Vaults
  BY <1>1, <1>2, CallEffect
<1>5. /\ table' = table /\ Known' = Known /\ K' = K
      /\ run'.cell = run.cell + 1 /\ run'.start = run.start
  BY <1>1, <1>3, RanStep
<1>6. ASSUME Rows({"initialize"}) = {}
      PROVE  /\ e # "initialize"
             /\ IF run.start = Uninitialized THEN vault' = Uninitialized
                ELSE vault' # Uninitialized /\ vault'.owner = run.start.owner
             /\ actual => Addr \in MayCall(e, Owner)
  <2>1. e # "initialize"
    BY <1>2, <1>6 DEF Rows, Point
  <2>2. OwnerStays
    BY <1>6 DEF RunInv
  <2>3. IF run.start = Uninitialized THEN vault' = Uninitialized
        ELSE vault' # Uninitialized /\ vault'.owner = run.start.owner
    BY <1>1, <1>2, <2>1, <2>2, CallEffect DEF OwnerStays
  <2>4. actual => Addr \in MayCall(e, Owner)
    BY <1>1, <2>1, <2>2, AcceptedMayCall DEF actual
  <2> QED BY <2>1, <2>3, <2>4
<1>7. e \notin EscrowEntries
  BY <1>1 DEF VaultEntries, EscrowEntries
<1>8. ASSUME AmpleRun
      PROVE  (actual <=> Addr \in MayCall(e, Owner)) /\ Room'
  <2>1. Rows({"initialize"}) = {}
    BY <1>1, <1>2, <1>8, AmpleRows
  <2>2. OwnerStays /\ Room /\ e # "initialize" /\ run.start # Uninitialized
    BY <1>2, <1>6, <1>8, <2>1 DEF RunInv, AmpleRun
  <2>3. actual <=> Addr \in MayCall(e, Owner)
    BY <1>1, <2>2, RoomyAccepts DEF actual
  <2>4. vault # Uninitialized /\ vault.balance \in 0..MaxBalance
    BY <1>1, <2>2 DEF Room, Vaults
  <2>5. /\ vault' # Uninitialized
        /\ vault'.balance = IF ~actual THEN vault.balance
                            ELSE IF e = "deposit" THEN vault.balance + 1
                            ELSE vault.balance - 1
    BY <1>1, <1>2, <2>2, <2>4, CallEffect DEF actual
  <2> DEFINE Left(es) == LeftOf(Rows(es), run.cell, K)
             Less(es) == LeftOf(Rows(es), run.cell + 1, K)
  <2>6. ASSUME NEW es
        PROVE  /\ Left(es) \in Int
               /\ e \in es => Left(es) >= 1 /\ Less(es) = Left(es) - 1
               /\ e \notin es => Less(es) = Left(es)
    <3>1. Rows(es) \in SUBSET (1..Len(table)) /\ (Row \in Rows(es) <=> e \in es)
      BY <1>2 DEF Rows, Point
    <3> QED BY <1>2, <3>1, LeftStep
  <2>7. Left(Withdrawing) <= vault.balance /\ Left({"deposit"}) <= MaxBalance - vault.balance
    BY <2>2, <2>4, <2>6 DEF Room
  <2>8. \A es : Left(es) \in Int /\ Less(es) \in Int
    BY <2>6
  <2>9. e \in Withdrawing <=> e # "deposit"
    BY <1>1, <2>2 DEF VaultEntries, Withdrawing
  <2>10. /\ Less(Withdrawing) = IF e = "deposit" THEN Left(Withdrawing)
                                 ELSE Left(Withdrawing) - 1
         /\ Less({"deposit"}) = IF e = "deposit" THEN Left({"deposit"}) - 1
                                 ELSE Left({"deposit"})
    BY <2>6, <2>9
  <2> DEFINE lw == Left(Withdrawing)
             ld == Left({"deposit"})
             mw == Less(Withdrawing)
             md == Less({"deposit"})
  <2>11. lw \in Int /\ ld \in Int
    BY <2>8
  <2> HIDE DEF Left, Less
  <2>12. mw <= vault'.balance /\ md <= MaxBalance - vault'.balance
    <3> HIDE DEF lw, ld, mw, md
    <3>1. /\ mw = IF e = "deposit" THEN lw ELSE lw - 1
          /\ md = IF e = "deposit" THEN ld - 1 ELSE ld
          /\ lw <= vault.balance /\ ld <= MaxBalance - vault.balance
      BY <2>7, <2>10 DEF lw, ld, mw, md
    <3> QED BY <2>4, <2>5, <2>11, <3>1
  <2>13. \A es : Rows(es)' = Rows(es)
    BY <1>5 DEF Rows
  <2>14. Room'
    BY <1>5, <2>4, <2>5, <2>8, <2>12, <2>13 DEF Room, mw, md, Less
  <2> QED BY <2>3, <2>14
<1>9. ASSUME FundedRun PROVE PurseLasts'
  <2>1. Rows(EscrowEntries) \in SUBSET (1..Len(table)) /\ Row \notin Rows(EscrowEntries)
    BY <1>2, <1>7 DEF Rows, Point
  <2>2. LeftOf(Rows(EscrowEntries), run.cell + 1, K) = LeftOf(Rows(EscrowEntries), run.cell, K)
    BY <1>2, <2>1, LeftStep
  <2>3. purse' = purse /\ Rows(EscrowEntries)' = Rows(EscrowEntries)
    BY <1>5 DEF VaultCell, Rows
  <2>4. PurseLasts
    BY <1>2, <1>9 DEF RunInv
  <2> QED BY <1>5, <2>2, <2>3, <2>4 DEF PurseLasts
<1>10. RunInv'
  BY <1>1, <1>3, <1>6, <1>7, <1>8, <1>9, CellKeeps
<1> QED BY <1>4, <1>5, <1>10

(* A cell of an escrow of its own. *)
LEMMA EscrowCellKeeps ==
  ASSUME Inv, RunInv, run.cell < Cells, EscrowCell
  PROVE  RunInv' /\ table' = table
<1> DEFINE e == Point.entry
<1>1. /\ TableOK /\ run \in RunType /\ vault \in Vaults /\ vault' = vault
      /\ e \in EscrowEntries /\ Ran(EscrowAdmits)
  BY DEF Inv, RunInv, EscrowCell
<1>2. /\ Addr \in Addresses /\ K # 0 /\ K \in Nat /\ run.cell \in Nat
      /\ Row = (run.cell \div K) + 1 /\ Row \in DOMAIN table
      /\ Len(table) \in Nat /\ DOMAIN table = 1..Len(table)
  BY <1>1, CellTyped, SizesTyped
<1>3. EscrowAdmits \in BOOLEAN
  BY DEF EscrowAdmits
<1>4. /\ table' = table /\ Known' = Known /\ K' = K
      /\ run'.cell = run.cell + 1 /\ run'.start = run.start
  BY <1>1, <1>3, RanStep
<1>5. EscrowAdmits <=> Addr \in MayCall(e, Owner)
  BY <1>1, <1>2 DEF EscrowAdmits, EscrowEntries, MayCall
<1>6. ASSUME Rows({"initialize"}) = {}
      PROVE  IF run.start = Uninitialized THEN vault' = Uninitialized
             ELSE vault' # Uninitialized /\ vault'.owner = run.start.owner
  BY <1>1, <1>6 DEF RunInv, OwnerStays
<1>7. ASSUME AmpleRun PROVE Room'
  <2>1. ASSUME NEW es, es \cap EscrowEntries = {}
        PROVE  LeftOf(Rows(es), run.cell + 1, K) = LeftOf(Rows(es), run.cell, K)
    <3>1. Rows(es) \in SUBSET (1..Len(table)) /\ Row \notin Rows(es)
      BY <1>1, <1>2, <2>1 DEF Rows, Point
    <3> QED BY <1>2, <3>1, LeftStep
  <2>2. Withdrawing \cap EscrowEntries = {} /\ {"deposit"} \cap EscrowEntries = {}
    BY DEF Withdrawing, EscrowEntries
  <2>3. /\ LeftOf(Rows(Withdrawing), run.cell + 1, K) = LeftOf(Rows(Withdrawing), run.cell, K)
        /\ LeftOf(Rows({"deposit"}), run.cell + 1, K) = LeftOf(Rows({"deposit"}), run.cell, K)
    BY <2>1, <2>2
  <2>4. \A es : Rows(es)' = Rows(es)
    BY <1>4 DEF Rows
  <2>5. Room
    BY <1>2, <1>7 DEF RunInv
  <2> QED BY <1>1, <1>4, <2>3, <2>4, <2>5 DEF Room
<1>8. ASSUME FundedRun PROVE PurseLasts'
  <2> DEFINE left == LeftOf(Rows(EscrowEntries), run.cell, K)
             less == LeftOf(Rows(EscrowEntries), run.cell + 1, K)
  <2>1. Rows(EscrowEntries) \in SUBSET (1..Len(table)) /\ Row \in Rows(EscrowEntries)
    BY <1>1, <1>2 DEF Rows, Point
  <2>2. left \in Int /\ less = left - 1
    BY <1>2, <2>1, LeftStep
  <2>3. Rows(EscrowEntries)' = Rows(EscrowEntries)
    BY <1>4 DEF Rows
  <2>4. purse \in Int /\ (purse' = purse \/ purse' = purse - 1)
    BY DEF Inv, EscrowCell, Amount
  <2>5. purse >= left
    BY <1>2, <1>8 DEF RunInv, PurseLasts
  <2>6. PurseLasts' <=> purse' >= less
    BY <1>4, <2>3 DEF PurseLasts
  <2> HIDE DEF left, less
  <2> QED BY <2>2, <2>4, <2>5, <2>6
<1>9. RunInv'
  BY <1>1, <1>3, <1>5, <1>6, <1>7, <1>8, CellKeeps
<1> QED BY <1>4, <1>9

(* The cells begin with nothing done and nothing reported. *)
LEMMA BeginKeeps ==
  ASSUME Inv, assert_enforced
  PROVE  RunInv'
<1>1. /\ run' = [cell |-> 0, violations |-> {}, start |-> vault, funds |-> purse]
      /\ verdict' = NoVerdict /\ purse' = purse /\ purse \in 0..MaxPurse
      /\ table' = table /\ vault' = vault /\ vault \in Vaults /\ TableOK
  BY DEF assert_enforced, host, Inv
<1>2. Known' = Known /\ Cells' = Cells /\ K' = K
  BY <1>1, KnownStays DEF K
<1>3. /\ run'.cell = 0 /\ run'.violations = {} /\ run'.start = vault /\ run'.funds = purse
  BY <1>1
<1>4. K \in Nat /\ Cells \in Nat /\ Len(table) \in Nat /\ DOMAIN table = 1..Len(table)
  BY <1>1, SizesTyped
<1>5. \A es : Rows(es)' = Rows(es)
  BY <1>1 DEF Rows
<1>6. (run \in RunType)'
  <2>1. 0 \in 0..Cells
    BY <1>4
  <2> QED BY <1>1, <1>2, <2>1 DEF RunType
<1>7. ASSUME K # 0, NEW i \in DOMAIN table PROVE Exact(i)'
  <2>1. \A j \in 1..K : ~Done(i, j, 0, K)
    BY <1>4, <1>7, DoneAtEnds
  <2> QED BY <1>2, <1>3, <2>1 DEF Exact
<1>8. OwnerStays' /\ Founded'
  BY <1>1, <1>3 DEF OwnerStays, Founded
<1>13. ASSUME K # 0, NEW es PROVE LeftOf(Rows(es), 0, K) = Cardinality(Rows(es)) * K
  <2>1. Rows(es) \in SUBSET (1..Len(table))
    BY <1>4 DEF Rows
  <2> QED BY <1>4, <1>13, <2>1, LeftAtFirst
<1>14. ASSUME K # 0, FundedRun' PROVE PurseLasts'
  BY <1>1, <1>2, <1>3, <1>5, <1>13, <1>14 DEF FundedRun, PurseLasts
<1>9. ASSUME K # 0, AmpleRun' PROVE Room'
  <2>1. \A es : LeftOf(Rows(es), 0, K) = Cardinality(Rows(es)) * K
    BY <1>9, <1>13
  <2>2. /\ vault # Uninitialized
        /\ vault.balance >= Cardinality(Rows(Withdrawing)) * K
        /\ vault.balance + Cardinality(Rows({"deposit"})) * K <= MaxBalance
    BY <1>2, <1>3, <1>5, <1>9 DEF AmpleRun
  <2>3. vault.balance \in Int
    BY <1>1, <2>2 DEF Vaults
  <2>4. Cardinality(Rows({"deposit"})) * K \in Int
    <3>1. Rows({"deposit"}) \in SUBSET (1..Len(table)) /\ IsFiniteSet(1..Len(table))
      BY <1>4, FS_Interval DEF Rows
    <3>2. IsFiniteSet(Rows({"deposit"}))
      BY <3>1, FS_Subset
    <3>3. Cardinality(Rows({"deposit"})) \in Nat
      BY <3>2, FS_CardinalityType
    <3> QED BY <1>4, <3>3
  <2>5. MaxBalance - vault.balance >= Cardinality(Rows({"deposit"})) * K
    BY <2>2, <2>3, <2>4
  <2> QED BY <1>1, <1>2, <1>3, <1>5, <2>1, <2>2, <2>5 DEF Room
<1>10. (\A v \in run.violations : Contains(Known, v[2]))'
  BY <1>3
<1>11. (K # 0 => \A i \in DOMAIN table :
          table[i].entry \in EscrowEntries \/ AmpleRun => Exact(i))'
  BY <1>1, <1>2, <1>7
<1>12. (K # 0 /\ AmpleRun => Room)' /\ (K # 0 /\ FundedRun => PurseLasts)'
  BY <1>2, <1>9, <1>14
<1> QED BY <1>1, <1>6, <1>8, <1>10, <1>11, <1>12 DEF RunInv

--------------------------------------------------------------------------------
(* The verdicts *)

LEMMA MentionedIsKnown ==
  ASSUME TableOK
  PROVE  \A a : a \in Mentioned(table) <=> Contains(Known, a)
<1>1. \A i \in DOMAIN table : \A a : a \in Range(table[i].allowed) <=> Contains(table[i].allowed, a)
  <2> SUFFICES ASSUME NEW i \in DOMAIN table, NEW a
               PROVE  a \in Range(table[i].allowed) <=> Contains(table[i].allowed, a)
    OBVIOUS
  <2>1. DOMAIN table[i].allowed = 1..Len(table[i].allowed)
    BY TableTyped
  <2> QED BY <2>1 DEF Range, Contains
<1>2. \A a : a \in Mentioned(table) <=> \E i \in DOMAIN table : a \in Range(table[i].allowed)
  BY DEF Mentioned, Range
<1> QED BY <1>1, <1>2, KnownMentioned

(* An address is known once. *)
LEMMA KnownCounts ==
  ASSUME TableOK
  PROVE  Cardinality(Mentioned(table)) = K
<1>1. /\ Known \in Seq(Addresses) /\ IsInjective(Known)
      /\ \A a : a \in Mentioned(table) <=> Contains(Known, a)
  BY KnownMentioned, MentionedIsKnown
<1>2. K \in Nat /\ DOMAIN Known = 1..K
  BY <1>1 DEF K
<1>3. Known \in [1..K -> Mentioned(table)]
  BY <1>1, <1>2 DEF Contains, K
<1>4. \A a \in Mentioned(table) : \E i \in 1..K : Known[i] = a
  BY <1>1 DEF Contains, K
<1>5. ExistsBijection(1..K, Mentioned(table))
  BY <1>1, <1>3, <1>4 DEF ExistsBijection, Bijection, Injection, Surjection
<1> QED BY <1>2, <1>5, FS_CountingElements

(* What the assertion reports of a run that has come to its end. *)
LEMMA JudgeTells ==
  ASSUME Inv, RunInv, run.cell >= Cells, NEW result, result # "panics", Ended(result)
  PROVE  ReportIsExact' /\ NoFalseAccusation' /\ FundedIsJudged'
<1>1. /\ verdict'.assertion = "enforced" /\ verdict'.result = result
      /\ verdict'.table = table /\ verdict'.known = Known
      /\ verdict'.start = run.start /\ verdict'.violations = run.violations
  BY DEF Ended
<1>2. /\ TableOK /\ run \in RunType
      /\ \A v \in run.violations : Contains(Known, v[2])
      /\ K # 0 => \A i \in DOMAIN table :
                    table[i].entry \in EscrowEntries \/ AmpleRun => Exact(i)
      /\ Rows({"initialize"}) = {} => Founded
  BY DEF Inv, RunInv
<1>3. /\ K \in Nat /\ Len(table) \in Nat /\ DOMAIN table = 1..Len(table)
      /\ Cells = Len(table) * K
  BY <1>2, SizesTyped
<1>4. \A v \in run.violations : v = <<v[1], v[2]>> /\ v[1] \in DOMAIN table
  BY <1>2 DEF RunType
<1>5. \A es : OfEntries(es)' = Rows(es)
  BY <1>1 DEF OfEntries, Rows
<1>6. Ample' <=> AmpleRun
  BY <1>1, <1>5 DEF Ample, AmpleRun, K, Withdrawing
<1>7. \A i : Wrong(i)' = {<<i, a>> : a \in {b \in Mentioned(table) : Mismatch(i, b)}}
  BY <1>1 DEF Wrong, Mismatch, Mentioned, Owner
<1>8. \A a : a \in Mentioned(table) <=> Contains(Known, a)
  BY <1>2, MentionedIsKnown
<1>9. ASSUME NEW i \in DOMAIN table, table[i].entry \in EscrowEntries \/ AmpleRun
      PROVE  {v \in run.violations : v[1] = i} =
               {<<i, a>> : a \in {b \in Mentioned(table) : Mismatch(i, b)}}
  <2>1. CASE K = 0
    <3>1. \A a : ~Contains(Known, a)
      BY <2>1 DEF Contains, K
    <3> QED BY <1>2, <1>8, <3>1
  <2>2. CASE K # 0
    <3>1. Exact(i)
      BY <1>2, <1>9, <2>2
    <3>2. \A j \in 1..K : Done(i, j, run.cell, K)
      <4>1. run.cell \in Nat /\ run.cell >= Len(table) * K
        BY <1>2, <1>3, SizesTyped DEF RunType
      <4> QED BY <1>3, <2>2, <4>1, DoneAtEnds
    <3>3. ASSUME NEW a, Contains(Known, a), Mismatch(i, a)
          PROVE  <<i, a>> \in run.violations
      <4>1. PICK j \in 1..K : Known[j] = a
        BY <3>3 DEF Contains, K
      <4> QED BY <3>1, <3>2, <3>3, <4>1 DEF Exact
    <3>4. \A v \in run.violations : v[1] = i => Contains(Known, v[2]) /\ Mismatch(i, v[2])
      BY <1>2, <3>1 DEF Exact
    <3> HIDE DEF Mismatch
    <3>5. ASSUME NEW v \in run.violations, v[1] = i
          PROVE  v \in {<<i, a>> : a \in {b \in Mentioned(table) : Mismatch(i, b)}}
      <4>1. v = <<i, v[2]>> /\ v[2] \in Mentioned(table) /\ Mismatch(i, v[2])
        BY <1>4, <1>8, <3>4, <3>5
      <4> QED BY <4>1
    <3>6. ASSUME NEW a \in Mentioned(table), Mismatch(i, a)
          PROVE  <<i, a>> \in run.violations /\ <<i, a>>[1] = i
      BY <1>8, <3>3, <3>6
    <3> QED BY <3>5, <3>6
  <2> QED BY <2>1, <2>2
<1>10. ReportIsExact'
  <2> SUFFICES ASSUME NEW i \in DOMAIN table, table[i].entry \in EscrowEntries \/ AmpleRun
               PROVE  {v \in run.violations : v[1] = i} = Wrong(i)'
    BY <1>1, <1>6 DEF ReportIsExact
  <2> QED BY <1>7, <1>9
<1>11. NoFalseAccusation'
  <2>1. ASSUME Rows({"initialize"}) = {}, NEW v \in run.violations,
               ~Contains(table[v[1]].allowed, v[2])
        PROVE  v \in Wrong(v[1])'
    <3>1. v[2] \in MayCall(table[v[1]].entry, Owner)
      BY <1>2, <2>1 DEF Founded
    <3>2. Mismatch(v[1], v[2])
      <4>1. Contains(table[v[1]].allowed, v[2]) = FALSE
        BY <2>1 DEF Contains
      <4> QED BY <3>1, <4>1 DEF Mismatch
    <3>3. v = <<v[1], v[2]>> /\ v[2] \in Mentioned(table)
      BY <1>2, <1>4, <1>8, <2>1
    <3> HIDE DEF Mismatch
    <3>4. v \in {<<v[1], a>> : a \in {b \in Mentioned(table) : Mismatch(v[1], b)}}
      BY <3>2, <3>3
    <3> QED BY <1>7, <3>4
  <2> QED BY <1>1, <1>5, <2>1 DEF NoFalseAccusation
<1>12. FundedIsJudged'
  BY <1>1 DEF FundedIsJudged
<1> QED BY <1>10, <1>11, <1>12

(* An assertion that reports nothing about cells, or no assertion. *)
LEMMA SilentTells ==
  ASSUME verdict' = NoVerdict
  PROVE  ReportIsExact' /\ NoFalseAccusation' /\ FundedIsJudged'
BY DEF NoVerdict, ReportIsExact, NoFalseAccusation, FundedIsJudged, Judged

(* A deposit that panics reports no cell, and had no unit left to take. *)
LEMMA PanicTells ==
  ASSUME Inv, RunInv, run.cell < Cells, EscrowCellPanics
  PROVE  ReportIsExact' /\ NoFalseAccusation' /\ FundedIsJudged'
<1>1. /\ verdict'.assertion = "enforced" /\ verdict'.result = "panics"
      /\ verdict'.table = table /\ verdict'.funds = run.funds
  BY DEF EscrowCellPanics, Ended
<1>2. ReportIsExact' /\ NoFalseAccusation'
  BY <1>1 DEF ReportIsExact, NoFalseAccusation, Judged
<1>3. /\ TableOK /\ run \in RunType /\ Point.entry \in EscrowEntries
      /\ purse \in 0..MaxPurse /\ purse < 1
  BY DEF Inv, RunInv, EscrowCellPanics, Amount
<1>4. /\ K # 0 /\ K \in Nat /\ run.cell \in Nat /\ Row = (run.cell \div K) + 1
      /\ Row \in DOMAIN table /\ Len(table) \in Nat /\ DOMAIN table = 1..Len(table)
  BY <1>3, CellTyped, SizesTyped
<1> DEFINE W == Rows(EscrowEntries)
<1>5. W \in SUBSET (1..Len(table)) /\ Row \in W
  BY <1>3, <1>4 DEF Rows, Point
<1>6. ~FundedRun
  <2>1. LeftOf(W, run.cell, K) \in Int /\ LeftOf(W, run.cell, K) >= 1
    BY <1>4, <1>5, LeftStep
  <2>2. FundedRun => purse >= LeftOf(W, run.cell, K)
    BY <1>4 DEF RunInv, PurseLasts
  <2> QED BY <1>3, <2>1, <2>2
<1>7. Cardinality(W) \in Nat
  <2> HIDE DEF W
  <2>1. IsFiniteSet(1..Len(table))
    BY <1>4, FS_Interval
  <2>2. IsFiniteSet(W)
    BY <1>5, <2>1, FS_Subset
  <2> QED BY <2>2, FS_CardinalityType
<1>8. OfEntries(EscrowEntries)' = W
  BY <1>1 DEF OfEntries, Rows
<1>9. run.funds \in Int
  BY <1>3 DEF RunType
<1>10. run.funds < Cardinality(W) * K
  <2>1. ~(run.funds >= Cardinality(W) * K)
    BY <1>6 DEF FundedRun
  <2> HIDE DEF W
  <2>2. Cardinality(W) * K \in Int
    BY <1>4, <1>7
  <2> QED BY <1>9, <2>1, <2>2
<1>11. Cardinality(Mentioned(table)) = K
  BY <1>3, KnownCounts
<1>12. FundedIsJudged'
  BY <1>1, <1>8, <1>10, <1>11 DEF FundedIsJudged, Mentioned
<1> QED BY <1>2, <1>12

(* The single call of assert_requires_auth. *)
LEMMA SingleCallTells ==
  ASSUME NEW e, NEW signer, NEW caller, assert_requires_auth(e, signer, caller)
  PROVE  ReportIsExact' /\ NoFalseAccusation' /\ FundedIsJudged'
<1>1. verdict'.assertion = "requires_auth"
  BY DEF assert_requires_auth
<1>2. ReportIsExact' /\ NoFalseAccusation'
  BY <1>1 DEF ReportIsExact, NoFalseAccusation, Judged
<1>3. FundedIsJudged'
  BY <1>1 DEF FundedIsJudged
<1> QED BY <1>2, <1>3

--------------------------------------------------------------------------------
(* Every step keeps the invariant *)

LEMMA NoTable == <<>> \in SeqOf(EntryPoint, MaxEntryPoints)
<1>1. 0 \in 0..MaxEntryPoints
  BY DEF MatrixAssumption
<1>2. <<>> \in [1..0 -> EntryPoint]
  OBVIOUS
<1> QED BY <1>1, <1>2 DEF SeqOf

LEMMA InitInv == Init => Inv
<1> SUFFICES ASSUME Init PROVE Inv
  OBVIOUS
<1>1. /\ vault \in Vaults /\ purse \in 0..MaxPurse /\ all_auths \in BOOLEAN
      /\ run = Idle /\ verdict = NoVerdict
  <2>1. purse \in 0..MaxPurse
    BY DEF Init
  <2>2. all_auths \in BOOLEAN
    BY DEF Init
  <2> QED BY <2>1, <2>2 DEF Init, Vaults
<1>2. TableOK
  BY NoTable DEF Init, TableOK
<1>3. ReportIsExact /\ NoFalseAccusation /\ FundedIsJudged
  BY <1>1 DEF NoVerdict, ReportIsExact, NoFalseAccusation, FundedIsJudged, Judged
<1> QED BY <1>1, <1>2, <1>3 DEF Inv

(* A step between two runs of the cells. *)
LEMMA IdleKeeps ==
  ASSUME Inv, run' = Idle, vault' \in Vaults, purse' \in 0..MaxPurse,
         all_auths' \in BOOLEAN, TableOK',
         verdict' # NoVerdict => verdict'.result \in {"passed", "violated", "panics"},
         ReportIsExact' /\ NoFalseAccusation' /\ FundedIsJudged'
  PROVE  Inv'
BY DEF Inv, Idle

LEMMA TableStays == TableOK /\ table' = table => TableOK'
BY DEF TableOK

LEMMA EndedTypes ==
  ASSUME NEW result \in {"passed", "violated", "panics"}, Ended(result)
  PROVE  run' = Idle /\ TableOK' /\ verdict'.result \in {"passed", "violated", "panics"}
<1>1. run' = Idle /\ table' = <<>> /\ verdict'.result = result
  BY DEF Ended
<1>2. TableOK'
  BY <1>1, NoTable DEF TableOK
<1> QED BY <1>1, <1>2

LEMMA NextInv == Inv /\ [Next]_vars => Inv'
<1> SUFFICES ASSUME Inv, [Next]_vars PROVE Inv'
  OBVIOUS
<1>1. /\ vault \in Vaults /\ purse \in 0..MaxPurse /\ all_auths \in BOOLEAN /\ TableOK
      /\ (run # Idle => RunInv)
  BY DEF Inv
<1>2. ASSUME NEW e \in Entries, NEW allowed \in Alloweds, entry_point(e, allowed)
      PROVE  Inv'
  <2>1. /\ run' = Idle /\ vault' = vault /\ purse' = purse /\ all_auths' = all_auths
        /\ verdict' = NoVerdict /\ Len(table) < MaxEntryPoints
        /\ table' = Append(table, [entry |-> e, allowed |-> allowed])
    BY <1>2 DEF entry_point, host
  <2>2. TableOK'
    <3>1. table \in Seq(EntryPoint) /\ Len(table) \in Nat
      BY <1>1, TableTyped
    <3>2. [entry |-> e, allowed |-> allowed] \in EntryPoint
      BY DEF EntryPoint
    <3>3. table' \in [1..(Len(table) + 1) -> EntryPoint]
      <4>1. /\ table' \in Seq(EntryPoint) /\ Len(table') = Len(table) + 1
        BY <2>1, <3>1, <3>2
      <4> QED BY <4>1, LenProperties
    <3>4. Len(table) + 1 \in 0..MaxEntryPoints
      BY <2>1, <3>1
    <3> QED BY <3>3, <3>4 DEF TableOK, SeqOf
  <2> QED BY <1>1, <2>1, <2>2, SilentTells, IdleKeeps
<1>3. ASSUME assert_enforced PROVE Inv'
  <2>1. /\ vault' = vault /\ purse' = purse /\ all_auths' = all_auths /\ table' = table
        /\ verdict' = NoVerdict
    BY <1>3 DEF assert_enforced, host
  <2> QED BY <1>1, <1>3, <2>1, BeginKeeps, TableStays, SilentTells DEF Inv
<1>4. ASSUME Cell PROVE Inv'
  <2>1. RunInv /\ run.cell < Cells
    BY <1>1, <1>4 DEF Cell
  <2>2. verdict = NoVerdict
    BY <2>1 DEF RunInv
  <2>3. CASE VaultCell
    <3>1. /\ RunInv' /\ vault' \in Vaults /\ table' = table
          /\ purse' = purse /\ all_auths' = all_auths
      BY <2>1, <2>3, VaultCellKeeps DEF VaultCell
    <3>2. verdict' = NoVerdict
      BY <3>1 DEF RunInv, NoVerdict
    <3> QED BY <1>1, <3>1, <3>2, TableStays, SilentTells DEF Inv
  <2>4. CASE EscrowCell
    <3>1. RunInv' /\ table' = table /\ vault' = vault /\ all_auths' = TRUE
      BY <2>1, <2>4, EscrowCellKeeps DEF EscrowCell
    <3>2. verdict' = NoVerdict
      BY <3>1 DEF RunInv, NoVerdict
    <3>3. purse' \in 0..MaxPurse
      <4>1. purse >= 1 /\ (purse' = purse \/ purse' = purse - 1)
        BY <2>4 DEF EscrowCell, Amount
      <4> QED BY <1>1, <4>1
    <3> QED BY <1>1, <3>1, <3>2, <3>3, TableStays, SilentTells DEF Inv
  <2>5. CASE EscrowCellPanics
    <3>1. Ended("panics") /\ vault' = vault /\ purse' = purse /\ all_auths' = TRUE
      BY <2>5 DEF EscrowCellPanics
    <3>2. run' = Idle /\ TableOK' /\ verdict'.result \in {"passed", "violated", "panics"}
      BY <3>1, EndedTypes
    <3> QED BY <1>1, <2>1, <2>5, <3>1, <3>2, PanicTells, IdleKeeps
  <2> QED BY <1>4, <2>3, <2>4, <2>5 DEF Cell
<1>5. ASSUME Judge PROVE Inv'
  <2>1. RunInv /\ run.cell >= Cells
    BY <1>1, <1>5 DEF Judge
  <2>2. PICK result \in {"passed", "violated"} : Ended(result)
    BY <1>5 DEF Judge
  <2>3. run' = Idle /\ TableOK' /\ verdict'.result \in {"passed", "violated", "panics"}
    BY <2>2, EndedTypes
  <2>4. vault' = vault /\ purse' = purse /\ all_auths' = all_auths
    BY <1>5 DEF Judge, host
  <2>5. ReportIsExact' /\ NoFalseAccusation' /\ FundedIsJudged'
    BY <2>1, <2>2, JudgeTells
  <2> QED BY <1>1, <2>3, <2>4, <2>5, IdleKeeps
<1>6. ASSUME NEW e \in Entries \cap VaultEntries, NEW signer \in Addresses \cup {Host},
             NEW caller \in Addresses, Call(e, signer, caller)
      PROVE  Inv'
  <2>1. /\ run' = Idle /\ purse' = purse /\ all_auths' = all_auths /\ table' = table
        /\ verdict' = NoVerdict /\ CallVault(e, signer, caller)
    BY <1>6 DEF Call, Free
  <2>2. vault' \in Vaults
    BY <1>1, <2>1, CallEffect
  <2> QED BY <1>1, <2>1, <2>2, TableStays, SilentTells, IdleKeeps
<1>7. ASSUME NEW e \in Entries \cap VaultEntries, NEW signer \in Addresses \cup {Host},
             NEW caller \in Addresses, assert_requires_auth(e, signer, caller)
      PROVE  Inv'
  <2>1. /\ run' = Idle /\ purse' = purse /\ all_auths' = all_auths /\ table' = table
        /\ CallVault(e, signer, caller) /\ verdict'.result \in {"passed", "violated"}
    BY <1>7 DEF assert_requires_auth, Free
  <2>2. vault' \in Vaults
    BY <1>1, <2>1, CallEffect
  <2>3. ReportIsExact' /\ NoFalseAccusation' /\ FundedIsJudged'
    BY <1>1, <1>7, SingleCallTells
  <2> QED BY <1>1, <2>1, <2>2, <2>3, TableStays, IdleKeeps
<1>8. ASSUME MockAllAuths PROVE Inv'
  <2>1. /\ run' = Idle /\ purse' = purse /\ all_auths' = TRUE /\ table' = table
        /\ vault' = vault /\ verdict' = NoVerdict
    BY <1>8 DEF MockAllAuths, Free
  <2> QED BY <1>1, <2>1, TableStays, SilentTells, IdleKeeps
<1>9. ASSUME NEW n \in 1..MaxPurse, Mint(n) PROVE Inv'
  <2>1. /\ run' = Idle /\ all_auths' = all_auths /\ table' = table
        /\ vault' = vault /\ verdict' = NoVerdict
        /\ purse' = purse + n /\ purse + n <= MaxPurse
    BY <1>9 DEF Mint, Free
  <2>2. purse' \in 0..MaxPurse
    BY <1>1, <2>1
  <2> QED BY <1>1, <2>1, <2>2, TableStays, SilentTells, IdleKeeps
<1>10. CASE UNCHANGED vars
  <2>1. /\ vault' = vault /\ purse' = purse /\ all_auths' = all_auths /\ table' = table
        /\ run' = run /\ verdict' = verdict
    BY <1>10 DEF vars, host
  <2>2. Known' = Known /\ Cells' = Cells /\ K' = K
    BY <2>1, KnownStays DEF K
  <2>3. \A es : Rows(es)' = Rows(es)
    BY <2>1 DEF Rows
  <2>4. \A i : Exact(i)' <=> Exact(i)
    BY <2>1, <2>2 DEF Exact, Mismatch, Owner
  <2>5. (AmpleRun' <=> AmpleRun) /\ (Room' <=> Room)
    BY <2>1, <2>2, <2>3 DEF AmpleRun, Room
  <2>13. (FundedRun' <=> FundedRun) /\ (PurseLasts' <=> PurseLasts)
    BY <2>1, <2>2, <2>3 DEF FundedRun, PurseLasts
  <2>6. (OwnerStays' <=> OwnerStays) /\ (Founded' <=> Founded)
    BY <2>1 DEF OwnerStays, Founded, Owner
  <2>7. RunType' = RunType
    BY <2>1, <2>2 DEF RunType
  <2>8. RunInv => RunInv'
    BY <2>1, <2>2, <2>3, <2>4, <2>5, <2>6, <2>7, <2>13 DEF RunInv
  <2>9. \A i : Wrong(i)' = Wrong(i)
    BY <2>1 DEF Wrong
  <2>10. (Ample' <=> Ample) /\ \A es : OfEntries(es)' = OfEntries(es)
    BY <2>1 DEF Ample, OfEntries
  <2>11. ReportIsExact /\ NoFalseAccusation => ReportIsExact' /\ NoFalseAccusation'
    BY <2>1, <2>9, <2>10 DEF ReportIsExact, NoFalseAccusation, Judged
  <2>12. FundedIsJudged => FundedIsJudged'
    BY <2>1, <2>10 DEF FundedIsJudged
  <2> QED BY <2>1, <2>8, <2>11, <2>12, TableStays DEF Inv
<1> QED BY <1>2, <1>3, <1>4, <1>5, <1>6, <1>7, <1>8, <1>9, <1>10 DEF Next

LEMMA AlwaysInv == Spec => []Inv
BY InitInv, NextInv, PTL DEF Spec

--------------------------------------------------------------------------------
(* The theorems *)

(* What the matrix keeps is always what its fields can hold, and a run is  *)
(* never past its last cell (matrix.rs, assert_enforced).                  *)
THEOREM TypeCorrect == Spec => []TypeOK
<1>1. ASSUME Inv PROVE TypeOK
  <2>1. run # Idle => /\ run.cell \in 0..Cells
                      /\ run.violations \subseteq (DOMAIN table) \X Addresses
                      /\ run.start \in Vaults /\ run.funds \in 0..MaxPurse
    BY <1>1 DEF Inv, RunInv, RunType
  <2> QED BY <1>1, <2>1 DEF Inv, TypeOK, TableOK
<1> QED BY <1>1, AlwaysInv, PTL

(* A judged matrix names exactly the cells where the table and the         *)
(* contracts' guards differ, wherever no cell can exhaust what the cells   *)
(* share (matrix.rs, assert_enforced).                                     *)
THEOREM ReportsExactly == Spec => []ReportIsExact
<1>1. Inv => ReportIsExact
  BY DEF Inv
<1> QED BY <1>1, AlwaysInv, PTL

(* However poor the shared vault, a forbidden caller the report names did  *)
(* meet a missing guard (matrix.rs, assert_enforced).                      *)
THEOREM AccusesNobodyFalsely == Spec => []NoFalseAccusation
<1>1. Inv => NoFalseAccusation
  BY DEF Inv
<1> QED BY <1>1, AlwaysInv, PTL

(* A buyer with a unit for every escrow cell of a table is never out of    *)
(* money before the matrix is judged (matrix.rs, assert_enforced).         *)
THEOREM FundedAreJudged == Spec => []FundedIsJudged
<1>1. Inv => FundedIsJudged
  BY DEF Inv
<1> QED BY <1>1, AlwaysInv, PTL

================================================================================
