------------------------------ MODULE MoneyProofs ------------------------------
(***************************************************************************)
(* The money helpers are right for every width of the integers: the proofs *)
(* speak of Half, and so of 2^127, where the runs take 8.                  *)
(***************************************************************************)
EXTENDS Money, TLAPS

USE MoneyAssumption DEF I128, U128, MAX, MIN

(* A lifecycle goes on only as long as it has been conserved. *)
Inv ==
  /\ TypeOK
  /\ check.kind = "over" /\ check.result = "running" =>
       ~check.leaked /\ check.step < check.steps
  /\ EveryStepConserved

LEMMA AdversarialFit == adversarial_amounts \subseteq I128
BY DEF adversarial_amounts

LEMMA FlowsFit == Flows \subseteq Conservation
BY AdversarialFit DEF Flows, Conservation

LEMMA SumsAreIntegers ==
  ASSUME NEW c \in Conservation
  PROVE  Accounted(c) \in Int /\ Delta(c) \in Int
BY DEF Conservation, Accounted, Delta

(* assert_within is right about any flows, whether or not its sums fit. *)
LEMMA WithinIsRight ==
  ASSUME NEW c \in Conservation, NEW t \in I128
  PROVE  /\ assert_within(c, t) \in {"passed", "violated", "overflowed"}
         /\ assert_within(c, t) = "passed" =>
              Delta(c) \in (-t)..t \/ Delta(c) \in t..(-t)
         /\ /\ \A f \in DOMAIN c : c[f] >= 0
            /\ Delta(c) \in 0..t \/ Delta(c) \in 0..(-t)
            => assert_within(c, t) = "passed"
<1>1. assert_within(c, t) \in {"passed", "violated", "overflowed"}
  BY DEF assert_within
<1>2. assert_within(c, t) = "passed" =>
        Delta(c) \in (-t)..t \/ Delta(c) \in t..(-t)
  BY SumsAreIntegers DEF assert_within, Within, unsigned_abs
<1>3. ASSUME \A f \in DOMAIN c : c[f] >= 0,
             Delta(c) \in 0..t \/ Delta(c) \in 0..(-t)
      PROVE  assert_within(c, t) = "passed"
  <2>1. /\ c.deposited \in 0..MAX /\ c.withdrawn \in 0..MAX
        /\ c.refunded \in 0..MAX /\ c.remaining \in 0..MAX
    BY <1>3 DEF Conservation
  <2>2. Representable(c)
    BY <1>3, <2>1 DEF Representable, Delta, Accounted
  <2>3. Within(c, t)
    BY <1>3, SumsAreIntegers DEF Within, unsigned_abs
  <2> QED BY <2>2, <2>3 DEF assert_within
<1> QED BY <1>1, <1>2, <1>3

(* The remainder of a draw is any number up to the span. *)
LEMMA OffsetSpans ==
  ASSUME NEW span \in U128, NEW draw \in U128
  PROVE  Offset(span, draw) \in 0..span /\ (draw <= span => Offset(span, draw) = draw)
<1>1. CASE span = 2 * Half - 1
  BY <1>1 DEF Offset
<1>2. CASE span # 2 * Half - 1
  <2>1. span + 1 \in Nat \ {0} /\ draw \in Nat
    OBVIOUS
  <2>2. \A n \in Nat \ {0}, d \in Nat : d % n \in 0..(n - 1) /\ (d < n => d % n = d)
    BY SMT
  <2> QED BY <1>2, <2>1, <2>2 DEF Offset
<1> QED BY <1>1, <1>2

(* Through the casts and the wrapping sums, min plus the offset comes out. *)
LEMMA AmountIsOffset ==
  ASSUME NEW min \in I128, NEW max \in I128, min <= max, NEW draw \in U128
  PROVE  /\ max - min \in U128
         /\ AmountFrom(min, max, draw) = min + Offset(max - min, draw)
<1>1. \A n \in Int : /\ n \in U128 => Wrapped(n) = n
                     /\ n + 2 * Half \in U128 => Wrapped(n) = n + 2 * Half
                     /\ n - 2 * Half \in U128 => Wrapped(n) = n - 2 * Half
  <2>1. \A m \in Nat \ {0}, n \in Int :
          /\ n \in 0..(m - 1) => n % m = n
          /\ n + m \in 0..(m - 1) => n % m = n + m
          /\ n - m \in 0..(m - 1) => n % m = n - m
    BY SMT
  <2>2. 2 * Half \in Nat \ {0}
    OBVIOUS
  <2> DEFINE m == 2 * Half
  <2>3. \A n \in Int : Wrapped(n) = n % m
    BY DEF Wrapped
  <2>4. m \in Nat \ {0} /\ U128 = 0..(m - 1) /\ m = 2 * Half
    BY <2>2
  <2> HIDE DEF m
  <2> TAKE n \in Int
  <2>5. Wrapped(n) = n % m /\ (n \in 0..(m - 1) => n % m = n)
        /\ (n + m \in 0..(m - 1) => n % m = n + m)
        /\ (n - m \in 0..(m - 1) => n % m = n - m)
    BY <2>1, <2>3, <2>4
  <2> QED BY <2>4, <2>5
<1>2. max - min \in U128
  OBVIOUS
<1>3. AsUnsigned(min) \in U128 /\ AsUnsigned(max) \in U128
  BY DEF AsUnsigned
<1>4. Wrapped(AsUnsigned(max) - AsUnsigned(min)) = max - min
  BY <1>1, <1>2 DEF AsUnsigned
<1>5. Offset(max - min, draw) \in 0..(max - min)
  BY <1>2, OffsetSpans
<1>6. ASSUME NEW o \in 0..(max - min)
      PROVE  AsSigned(Wrapped(AsUnsigned(min) + o)) = min + o
  BY <1>1 DEF AsUnsigned, AsSigned
<1> QED BY <1>2, <1>4, <1>5, <1>6 DEF AmountFrom

LEMMA AmountsAreRight ==
  ASSUME NEW min \in I128, NEW max \in I128, min <= max
  PROVE  {AmountFrom(min, max, draw) : draw \in U128} = min..max
<1>1. ASSUME NEW draw \in U128
      PROVE  AmountFrom(min, max, draw) \in min..max
  <2>1. Offset(max - min, draw) \in 0..(max - min)
    BY AmountIsOffset, OffsetSpans
  <2> QED BY <2>1, AmountIsOffset
<1>2. ASSUME NEW n \in min..max
      PROVE  \E draw \in U128 : AmountFrom(min, max, draw) = n
  <2>1. n - min \in U128 /\ n - min <= max - min
    OBVIOUS
  <2>2. Offset(max - min, n - min) = n - min
    BY <2>1, AmountIsOffset, OffsetSpans
  <2> QED BY <2>1, <2>2, AmountIsOffset
<1> QED BY <1>1, <1>2

--------------------------------------------------------------------------------

LEMMA InitInv == Init => Inv
BY DEF Init, Inv, TypeOK, NoCheck, EveryStepConserved

LEMMA WithinInv ==
  ASSUME NEW c \in Flows, NEW t \in adversarial_amounts, AssertWithin(c, t)
  PROVE  Inv' /\ PassMeansConserved' /\ NoFalseAlarm' /\ AmountsCoverRange'
<1>1. c \in Conservation /\ t \in I128
  BY FlowsFit, AdversarialFit
<1>2. /\ check'.kind = "within" /\ check'.flows = c /\ check'.tolerance = t
      /\ check'.result = assert_within(c, t)
  BY DEF AssertWithin
<1>3. Inv'
  BY <1>1, <1>2, WithinIsRight DEF Inv, TypeOK, EveryStepConserved
<1>4. PassMeansConserved' /\ NoFalseAlarm' /\ AmountsCoverRange'
  BY <1>1, <1>2, WithinIsRight DEF PassMeansConserved, NoFalseAlarm, AmountsCoverRange
<1> QED BY <1>3, <1>4

LEMMA OverInv ==
  ASSUME NEW n \in StepCounts, AssertConservedOver(n)
  PROVE  Inv' /\ PassMeansConserved' /\ NoFalseAlarm' /\ AmountsCoverRange'
BY DEF AssertConservedOver, Inv, TypeOK, EveryStepConserved, PassMeansConserved,
       NoFalseAlarm, AmountsCoverRange

LEMMA StepInv ==
  ASSUME Inv, Lifecycle
  PROVE  Inv' /\ PassMeansConserved' /\ NoFalseAlarm' /\ AmountsCoverRange'
<1> PICK c \in Flows : ConservedStep(c)
  BY DEF Lifecycle
<1>1. /\ check.kind = "over" /\ check.result = "running" /\ check.steps \in Nat
      /\ check.step \in 0..check.steps /\ ~check.leaked /\ check.step < check.steps
  BY DEF Lifecycle, Inv, TypeOK, NoCheck
<1> DEFINE last == check.step + 1 = check.steps
<1>2. /\ check'.kind = "over" /\ check'.steps = check.steps
      /\ check'.step = check.step + 1 /\ check'.leaked = (Delta(c) # 0)
      /\ check'.result = AfterStep(c, last)
  BY <1>1 DEF ConservedStep, Inv, TypeOK, NoCheck
<1>3. /\ assert_within(c, 0) \in {"passed", "violated", "overflowed"}
      /\ assert_within(c, 0) = "passed" => Delta(c) = 0
  <2>1. c \in Conservation /\ 0 \in I128
    BY FlowsFit
  <2> QED BY <2>1, WithinIsRight, SumsAreIntegers
<1>4. /\ AfterStep(c, last) \in {"running", "passed", "violated", "overflowed"}
      /\ AfterStep(c, last) = "running" => Delta(c) = 0 /\ ~last
      /\ AfterStep(c, last) = "passed" => Delta(c) = 0 /\ last
  BY <1>3 DEF AfterStep
<1>5. TypeOK'
  BY <1>1, <1>2, <1>4 DEF TypeOK
<1>6. Inv'
  <2>1. EveryStepConserved'
    BY <1>2, <1>4 DEF EveryStepConserved
  <2>2. check'.result = "running" => ~check'.leaked /\ check'.step < check'.steps
    <3> SUFFICES ASSUME check'.result = "running"
                 PROVE  ~check'.leaked /\ check'.step < check'.steps
      OBVIOUS
    <3>1. Delta(c) = 0 /\ check.step + 1 # check.steps
      BY <1>2, <1>4
    <3>2. ~check'.leaked
      BY <3>1, <1>2, Zenon
    <3>3. check'.step < check'.steps
      BY <3>1, <1>1, <1>2
    <3> QED BY <3>2, <3>3
  <2> QED BY <1>5, <2>1, <2>2 DEF Inv
<1>7. PassMeansConserved' /\ NoFalseAlarm' /\ AmountsCoverRange'
  BY <1>2 DEF PassMeansConserved, NoFalseAlarm, AmountsCoverRange
<1> QED BY <1>6, <1>7

LEMMA AmountsInv ==
  ASSUME NEW min \in I128, NEW max \in I128, NEW n \in BatchSizes,
         AmountsIn(min, max, n)
  PROVE  Inv' /\ PassMeansConserved' /\ NoFalseAlarm' /\ AmountsCoverRange'
<1>1. CASE min > max
  <2>1. /\ check'.kind = "amounts" /\ check'.min = min /\ check'.max = max
        /\ check'.amounts = <<>> /\ check'.result = "refused"
    BY <1>1 DEF AmountsIn
  <2> QED BY <2>1 DEF Inv, TypeOK, EveryStepConserved, PassMeansConserved,
                      NoFalseAlarm, AmountsCoverRange
<1>2. CASE min <= max
  <2> PICK draws \in [1..n -> U128] :
        check' = [kind |-> "amounts", min |-> min, max |-> max,
                  amounts |-> [i \in 1..n |-> AmountFrom(min, max, draws[i])],
                  result |-> "passed"]
    <3>1. ~(min > max)
      BY <1>2
    <3> QED BY <3>1, Zenon DEF AmountsIn
  <2> DEFINE amounts == [i \in 1..n |-> AmountFrom(min, max, draws[i])]
  <2>1. \A i \in 1..n : AmountFrom(min, max, draws[i]) \in min..max
    BY <1>2, AmountsAreRight
  <2>2. amounts \in Seq(I128) /\ DOMAIN amounts = 1..n
    BY <2>1
  <2>3. /\ check'.kind = "amounts" /\ check'.min = min /\ check'.max = max
        /\ check'.amounts = amounts /\ check'.result = "passed"
    OBVIOUS
  <2> HIDE DEF amounts
  <2>4. Inv'
    <3>1. TypeOK'
      BY <2>2, <2>3 DEF TypeOK
    <3> QED BY <2>3, <3>1 DEF Inv, EveryStepConserved
  <2>5. AmountsCoverRange'
    BY <1>2, <2>1, <2>2, <2>3, AmountsAreRight DEF AmountsCoverRange, amounts
  <2>6. PassMeansConserved' /\ NoFalseAlarm'
    BY <2>3 DEF PassMeansConserved, NoFalseAlarm
  <2> QED BY <2>4, <2>5, <2>6
<1> QED BY <1>1, <1>2

(* What every step establishes. *)
Right == Inv /\ PassMeansConserved /\ NoFalseAlarm /\ AmountsCoverRange

(* The money helpers are right, whatever the width of the integers.        *)
THEOREM AlwaysRight == Spec => []Right
<1>1. Init => Right
  BY InitInv DEF Init, NoCheck, Right, PassMeansConserved, NoFalseAlarm,
                 AmountsCoverRange
<1>2. Right /\ [Next]_check => Right'
  <2> SUFFICES ASSUME Right, [Next]_check PROVE Right'
    OBVIOUS
  <2>1. CASE Begin
    BY <2>1, WithinInv, OverInv, AmountsInv DEF Begin, Right
  <2>2. CASE Lifecycle
    BY <2>2, StepInv DEF Right
  <2>3. CASE Return
    <3>1. check' = NoCheck
      BY <2>3 DEF Return
    <3> QED BY <3>1 DEF Right, Inv, TypeOK, NoCheck, EveryStepConserved,
                        PassMeansConserved, NoFalseAlarm, AmountsCoverRange
  <2>4. CASE UNCHANGED check
    BY <2>4 DEF Right, Inv, TypeOK, EveryStepConserved, PassMeansConserved,
                NoFalseAlarm, AmountsCoverRange
  <2> QED BY <2>1, <2>2, <2>3, <2>4 DEF Next
<1> QED BY <1>1, <1>2, PTL DEF Spec

(* Types. *)
THEOREM TypeCorrect == Spec => []TypeOK
<1>1. Right => TypeOK
  BY DEF Right, Inv
<1> QED BY <1>1, AlwaysRight, PTL

(* assert_within passes no flows that miss the tolerance: no wrapped sum.  *)
THEOREM PassIsEvidence == Spec => []PassMeansConserved
<1>1. Right => PassMeansConserved
  BY DEF Right
<1> QED BY <1>1, AlwaysRight, PTL

(* assert_within fails no flows that keep their value, however large.      *)
THEOREM AlarmIsReal == Spec => []NoFalseAlarm
<1>1. Right => NoFalseAlarm
  BY DEF Right
<1> QED BY <1>1, AlwaysRight, PTL

(* assert_conserved_over notices a leak at any step of a lifecycle.        *)
THEOREM LeaksAreSeen == Spec => []EveryStepConserved
<1>1. Right => EveryStepConserved
  BY DEF Right, Inv
<1> QED BY <1>1, AlwaysRight, PTL

(* amounts_in reaches exactly the amounts asked for, at any width.         *)
THEOREM AmountsHold == Spec => []AmountsCoverRange
<1>1. Right => AmountsCoverRange
  BY DEF Right
<1> QED BY <1>1, AlwaysRight, PTL

================================================================================
