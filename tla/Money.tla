--------------------------------- MODULE Money ---------------------------------
(***************************************************************************)
(* The money helpers of crates/testkit/src/money: the conservation checks  *)
(* of invariants.rs and the random amounts of generators.rs.               *)
(*                                                                         *)
(* Both do arithmetic at the ends of the i128 range, which is scaled down  *)
(* to -Half .. Half - 1; the code's Half is 2^127.  A property compares    *)
(* the answer with the same question asked of unbounded integers.          *)
(***************************************************************************)
EXTENDS Integers, Sequences

CONSTANTS
  Half,        \* half the range of i128
  Stroop,      \* 10^7, a step of the generator's adversarial amounts
  StepCounts,  \* arguments of assert_conserved_over
  BatchSizes   \* arguments of amounts_in

ASSUME MoneyAssumption ==
  /\ Half \in Nat \ {0}
  /\ Stroop \in 1..(Half - 2)
  /\ StepCounts \subseteq Nat
  /\ BatchSizes \subseteq Nat

VARIABLE check   \* the check or generation under way, or the last one ended

I128 == (-Half)..(Half - 1)
U128 == 0..(2 * Half - 1)

MAX == Half - 1
MIN == -Half

--------------------------------------------------------------------------------
(* Conservation *)

Conservation == [deposited : I128, withdrawn : I128, refunded : I128,
                 remaining : I128]

Accounted(c) == c.withdrawn + c.refunded + c.remaining

Delta(c) == c.deposited - Accounted(c)

(* The two sums and the difference, each in checked arithmetic.            *)
Representable(c) ==
  /\ c.withdrawn + c.refunded \in I128
  /\ Accounted(c) \in I128
  /\ Delta(c) \in I128

unsigned_abs(n) == IF n < 0 THEN -n ELSE n

(* Mutant: dust of exactly the tolerance is refused. *)
WithinStrict(c, tolerance) ==
  \/ Delta(c) = 0
  \/ unsigned_abs(Delta(c)) < unsigned_abs(tolerance)

(* Mutant: the difference's abs wraps, which leaves MIN negative. *)
WithinWrapping(c, tolerance) ==
  Delta(c) = MIN \/ unsigned_abs(Delta(c)) <= unsigned_abs(tolerance)

(* A negative tolerance counts as its absolute value. *)
Within(c, tolerance) == unsigned_abs(Delta(c)) <= unsigned_abs(tolerance)

assert_within(c, tolerance) ==
  IF ~Representable(c) THEN "overflowed"
  ELSE IF Within(c, tolerance) THEN "passed" ELSE "violated"

AssertWithin(c, tolerance) ==
  check' = [kind |-> "within", flows |-> c, tolerance |-> tolerance,
            result |-> assert_within(c, tolerance)]

(* leaked is a ghost: a step so far returned flows that do not add up.     *)
AssertConservedOver(steps) ==
  check' = [kind |-> "over", steps |-> steps, step |-> 0, leaked |-> FALSE,
            result |-> IF steps = 0 THEN "passed" ELSE "running"]

(* Mutant: the flows are judged once, after the last step. *)
AfterStepLastOnly(c, last) ==
  IF ~last THEN "running" ELSE assert_within(c, 0)

(* assert_holds panics out of the loop; the last step ends it.             *)
AfterStep(c, last) ==
  IF assert_within(c, 0) = "passed" /\ ~last THEN "running"
                                             ELSE assert_within(c, 0)

(* The closure returns what it likes. *)
ConservedStep(c) ==
  check' = [check EXCEPT !.step = @ + 1,
                         !.leaked = @ \/ Delta(c) # 0,
                         !.result = AfterStep(c, check.step + 1 = check.steps)]

--------------------------------------------------------------------------------
(* Generators *)

adversarial_amounts ==
  {0, 1, -1, MAX, MIN, MAX - 1, MIN + 1, Stroop, Stroop - 1, Stroop + 1,
   MAX \div 2, MAX \div 2 + 1, -(Half \div 2)}

(* `as u128`, and `as i128` *)
AsUnsigned(n) == IF n < 0 THEN n + 2 * Half ELSE n

(* Mutant: the cast back is left out. *)
AsSignedLeftOut(u) == u

AsSigned(u) == IF u < Half THEN u ELSE u - 2 * Half

Wrapped(n) == n % (2 * Half)

(* Mutant: one short, so that max is never drawn. *)
OffsetShort(span, draw) == IF span = 0 THEN 0 ELSE draw % span

(* A draw of 128 bits, brought into 0 .. span. *)
Offset(span, draw) ==
  IF span = 2 * Half - 1 THEN draw ELSE draw % (span + 1)

AmountFrom(min, max, draw) ==
  LET span == Wrapped(AsUnsigned(max) - AsUnsigned(min))
  IN  AsSigned(Wrapped(AsUnsigned(min) + Offset(span, draw)))

(* splitmix64 draws anything. *)
AmountsIn(min, max, n) ==
  IF min > max
    THEN check' = [kind |-> "amounts", min |-> min, max |-> max,
                   amounts |-> <<>>, result |-> "refused"]
    ELSE \E draws \in [1..n -> U128] :
           check' = [kind |-> "amounts", min |-> min, max |-> max,
                     amounts |-> [i \in 1..n |-> AmountFrom(min, max, draws[i])],
                     result |-> "passed"]

NoCheck == [kind |-> "none", result |-> "none"]

Init == check = NoCheck

(* The amounts a test hands to the checks. *)
Flows == [deposited : adversarial_amounts, withdrawn : adversarial_amounts,
          refunded : adversarial_amounts, remaining : adversarial_amounts]

Begin ==
  /\ check = NoCheck
  /\ \/ \E c \in Flows, t \in adversarial_amounts : AssertWithin(c, t)
     \/ \E n \in StepCounts : AssertConservedOver(n)
     \/ \E min, max \in I128, n \in BatchSizes : AmountsIn(min, max, n)

(* The test goes on, or catches the panic. *)
Return ==
  /\ check.result \notin {"none", "running"}
  /\ check' = NoCheck

Lifecycle ==
  /\ check.kind = "over" /\ check.result = "running"
  /\ \E c \in Flows : ConservedStep(c)

Next == Begin \/ Lifecycle \/ Return

Spec == Init /\ [][Next]_check

--------------------------------------------------------------------------------
(* Properties *)

TypeOK ==
  \/ check = NoCheck
  \/ /\ check.kind = "within"
     /\ check.flows \in Conservation /\ check.tolerance \in I128
     /\ check.result \in {"passed", "violated", "overflowed"}
  \/ /\ check.kind = "over"
     /\ check.steps \in Nat /\ check.step \in 0..check.steps
     /\ check.leaked \in BOOLEAN
     /\ check.result \in {"running", "passed", "violated", "overflowed"}
  \/ /\ check.kind = "amounts"
     /\ check.min \in I128 /\ check.max \in I128
     /\ check.amounts \in Seq(I128)
     /\ check.result \in {"passed", "refused"}

(* A check that passes is evidence: counted with unbounded integers, what  *)
(* came in differs from what went out or is left by no more than the       *)
(* tolerance.  No sum wraps around to a small difference (invariants.rs,   *)
(* assert_within).                                                         *)
PassMeansConserved ==
  check.kind = "within" /\ check.result = "passed" =>
    LET d == Delta(check.flows)
        t == check.tolerance
    IN  d \in (-t)..t \/ d \in t..(-t)

(* Flows of which nothing is negative and nothing was minted, and which    *)
(* lost no more than the tolerance, are never failed, however large: not   *)
(* even by the overflow of a partial sum.                                  *)
NoFalseAlarm ==
  check.kind = "within" =>
    LET c == check.flows
        t == check.tolerance
    IN  /\ \A f \in DOMAIN c : c[f] >= 0
        /\ Delta(c) \in 0..t \/ Delta(c) \in 0..(-t)
        => check.result = "passed"

(* A lifecycle that passes was conserved at every one of its steps: value  *)
(* that leaks in one step and comes back in a later one is noticed         *)
(* (invariants.rs, assert_conserved_over).                                 *)
EveryStepConserved ==
  check.kind = "over" /\ check.result = "passed" =>
    check.step = check.steps /\ ~check.leaked

(* Random amounts lie within the bounds asked for, both included, though   *)
(* the arithmetic wraps (generators.rs, amounts_in); and no amount between *)
(* them is out of the generator's reach.                                   *)
AmountsCoverRange ==
  check.kind = "amounts" /\ check.result = "passed" =>
    /\ \A i \in DOMAIN check.amounts : check.amounts[i] \in check.min..check.max
    /\ {AmountFrom(check.min, check.max, draw) : draw \in U128}
         = check.min..check.max

================================================================================
