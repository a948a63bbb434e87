--------------------------- MODULE LedgerClockProofs ---------------------------
(* Proofs about LedgerClock, for every width of the counters, every         *)
(* interval and every argument.                                             *)
EXTENDS LedgerClock, SequenceTheorems, TLAPS

(* The effective close interval is never zero. *)
LEMMA IntervalPositive ==
  ASSUME override \in Nat
  PROVE  ledger_close_interval \in Nat \ {0}
  BY ClockAssumption DEF ledger_close_interval

(* Rust's div_ceil: the least count of intervals that covers the seconds. *)
LEMMA DivCeilBounds ==
  ASSUME NEW a \in Nat, NEW b \in Nat \ {0}
  PROVE  /\ DivCeil(a, b) \in Nat
         /\ a <= DivCeil(a, b) * b
         /\ DivCeil(a, b) * b <= a + (IF a % b = 0 THEN 0 ELSE b - 1)
         /\ DivCeil(a, b) > 0 => (DivCeil(a, b) - 1) * b < a
         /\ DivCeil(a, b) = 0 => a = 0
<1> DEFINE q == a \div b
           r == a % b
<1>1. q \in Nat /\ r \in 0..(b - 1) /\ a = q * b + r
  BY SMT
<1>2. CASE r = 0
  <2>1. DivCeil(a, b) = q
    BY <1>2, <1>1 DEF DivCeil
  <2>2. q > 0 => (q - 1) * b = q * b - b
    BY <1>1
  <2>. QED
    BY <1>1, <1>2, <2>1, <2>2
<1>3. CASE r # 0
  <2>1. DivCeil(a, b) = q + 1
    BY <1>3, <1>1 DEF DivCeil
  <2>2. (q + 1) * b = q * b + b
    BY <1>1
  <2>. QED
    BY <1>1, <1>3, <2>1, <2>2
<1>. QED
  BY <1>2, <1>3

(* Multiplication distributes; the prover is given this where it is needed. *)
LEMMA Distribute ==
  ASSUME NEW x \in Int, NEW y \in Int, NEW z \in Int
  PROVE  (x + y) * z = x * z + y * z
  BY SMT

(* No smaller count of intervals covers the seconds. *)
LEMMA DivCeilLeast ==
  ASSUME NEW a \in Nat, NEW b \in Nat \ {0}
  PROVE  /\ DivCeil(a, b) \in Nat
         /\ a <= DivCeil(a, b) * b
         /\ DivCeil(a, b) * b <= a + b - 1
<1> DEFINE d == DivCeil(a, b)
<1>1. /\ d \in Nat /\ a <= d * b
      /\ d * b <= a + (IF a % b = 0 THEN 0 ELSE b - 1)
  BY DivCeilBounds
<1>2. d * b \in Int
  BY <1>1
<1>. HIDE DEF d
<1>. QED
  BY <1>1, <1>2 DEF d

(* A position moved forward within the limits is a position. *)
LEMMA MovedInfo ==
  ASSUME NEW i \in Info, NEW secs \in Nat, NEW n \in Nat,
         i.timestamp + secs <= MaxTimestamp, i.sequence + n <= MaxSequence
  PROVE  /\ Moved(i, secs, n) \in Info
         /\ Moved(i, secs, n).timestamp = i.timestamp + secs
         /\ Moved(i, secs, n).sequence = i.sequence + n
  BY ClockAssumption DEF Info, Moved

(* A freshly anchored position is in proportion with its anchor. *)
LEMMA FreshInProportion ==
  ASSUME NEW i \in Info, NEW interval \in Nat \ {0}
  PROVE  Fresh(i, interval) \in Anchor /\ InProportion(i, Fresh(i, interval))
  BY ClockAssumption DEF Fresh, Anchor, InProportion, Info

(* Closing n ledgers in secs seconds keeps a position in proportion when   *)
(* the ledgers cover the seconds, exceeding them only in a rounded move.   *)
LEMMA MoveInProportion ==
  ASSUME NEW i \in Info, NEW a \in Anchor, InProportion(i, a),
         NEW j \in Info, NEW n \in Nat, NEW secs \in Nat, NEW up \in {0, 1},
         j.timestamp = i.timestamp + secs,
         j.sequence = i.sequence + n,
         secs <= n * a.interval,
         n * a.interval <= secs + up * (a.interval - 1)
  PROVE  InProportion(j, [a EXCEPT !.rounded = @ + up])
<1> DEFINE b == [a EXCEPT !.rounded = @ + up]
<1>1. /\ i.timestamp \in Int /\ i.sequence \in Int
      /\ a.timestamp \in Nat /\ a.sequence \in Nat
      /\ a.interval \in Nat \ {0} /\ a.rounded \in Nat
  BY ClockAssumption DEF Info, Anchor
<1>2. /\ b.timestamp = a.timestamp /\ b.sequence = a.sequence
      /\ b.interval = a.interval /\ b.rounded = a.rounded + up
  BY DEF Anchor
<1>3. (j.sequence - b.sequence) * b.interval
        = (i.sequence - a.sequence) * a.interval + n * a.interval
  BY <1>1, <1>2, Distribute
<1>4. b.rounded * (b.interval - 1)
        = a.rounded * (a.interval - 1) + up * (a.interval - 1)
  BY <1>1, <1>2, Distribute
<1>5. /\ 0 <= i.timestamp - a.timestamp
      /\ i.timestamp - a.timestamp <= (i.sequence - a.sequence) * a.interval
      /\ (i.sequence - a.sequence) * a.interval
           <= i.timestamp - a.timestamp + a.rounded * (a.interval - 1)
  BY DEF InProportion
<1>6. 0 <= j.timestamp - b.timestamp
  BY <1>1, <1>2, <1>5
<1>7. j.timestamp - b.timestamp <= (j.sequence - b.sequence) * b.interval
  BY <1>1, <1>2, <1>3, <1>5
<1>8. (j.sequence - b.sequence) * b.interval
        <= j.timestamp - b.timestamp + b.rounded * (b.interval - 1)
  BY <1>1, <1>2, <1>3, <1>4, <1>5
<1>. QED
  BY <1>6, <1>7, <1>8 DEF InProportion

--------------------------------------------------------------------------------
(* The inductive invariant: what `at` and restore_checkpoint put back must *)
(* have been in proportion when it was saved, and no interval changes      *)
(* while an `at` is open.                                                  *)
ProportionInv ==
  /\ TypeOK
  /\ Proportional
  /\ \A c \in checkpoints : InProportion(c.info, c.anchor)
  /\ \A k \in 1..Len(frames) :
       /\ InProportion(frames[k].original, frames[k].anchor)
       /\ frames[k].anchor.interval = ledger_close_interval

(* A new environment stands on its anchor. *)
LEMMA ProportionInit == Init => ProportionInv
<1> SUFFICES ASSUME Init PROVE ProportionInv
  OBVIOUS
<1>1. LEDGER_CLOSE_TIME_SECS \in Nat \ {0} /\ Origins \subseteq Info
        /\ ForeignInfos \subseteq Info
  BY ClockAssumption
<1>2. ledger_close_interval = LEDGER_CLOSE_TIME_SECS
  BY DEF Init, ledger_close_interval
<1>3. info \in Info /\ anchor \in Anchor /\ Proportional
  BY <1>1, <1>2, FreshInProportion DEF Init, Proportional, Fresh
<1>4. \A c \in checkpoints : c \in Saved /\ InProportion(c.info, c.anchor)
  BY <1>1, FreshInProportion DEF Init, Saved
<1>5. frames \in Seq(Frame) /\ Len(frames) = 0
  BY DEF Init
<1>6. \A k \in 1..Len(frames) : FALSE
  BY <1>5
<1>7. TypeOK
  BY <1>3, <1>4, <1>5 DEF Init, TypeOK
<1>. QED
  BY <1>3, <1>4, <1>6, <1>7 DEF ProportionInv

(* A step that leaves checkpoints, frames and the interval alone has only  *)
(* the clock itself to answer for.                                         *)
LEMMA MoveKeepsInv ==
  ASSUME ProportionInv, UNCHANGED <<override, checkpoints, frames>>,
         info' \in Info, anchor' \in Anchor, unwinding' \in BOOLEAN,
         anchor'.interval = anchor.interval, InProportion(info', anchor')
  PROVE  ProportionInv'
  BY DEF ProportionInv, TypeOK, Proportional, ledger_close_interval

(* A refused call changes nothing but the unwinding. *)
LEMMA RejectedKeepsInv ==
  ASSUME ProportionInv, NEW panics \in BOOLEAN, Rejected(panics)
  PROVE  ProportionInv'
  BY MoveKeepsInv DEF ProportionInv, TypeOK, Proportional, Rejected

(* The move every duration, calendar helper and warp comes down to. *)
LEMMA AdvanceSecsKeepsInv ==
  ASSUME ProportionInv, NEW secs \in Nat, NEW panics \in BOOLEAN,
         AdvanceSecs(secs, panics)
  PROVE  ProportionInv'
<1> DEFINE n  == LedgersIn(secs)
           up == IF secs % ledger_close_interval = 0 THEN 0 ELSE 1
<1>1. ledger_close_interval \in Nat \ {0}
  BY IntervalPositive DEF ProportionInv, TypeOK
<1>2. CASE SecsFit(info, secs) /\ AdvanceSecs(secs, panics) /\ info' = AfterSecs(info, secs)
             /\ anchor' = [anchor EXCEPT !.rounded = @ + up]
             /\ UNCHANGED <<override, checkpoints, frames, unwinding>>
  <2>1. /\ n \in Nat /\ secs <= n * ledger_close_interval
        /\ n * ledger_close_interval
             <= secs + (IF secs % ledger_close_interval = 0
                          THEN 0 ELSE ledger_close_interval - 1)
    BY <1>1, DivCeilBounds DEF LedgersIn
  <2>2. up \in {0, 1} /\ up * (ledger_close_interval - 1)
          = (IF secs % ledger_close_interval = 0 THEN 0 ELSE ledger_close_interval - 1)
    BY <1>1
  <2>3. info \in Info /\ anchor \in Anchor /\ InProportion(info, anchor)
          /\ anchor.interval = ledger_close_interval
    BY DEF ProportionInv, TypeOK, Proportional
  <2>4. info' \in Info /\ info'.timestamp = info.timestamp + secs
          /\ info'.sequence = info.sequence + n
    BY <1>2, <2>1, <2>3, MovedInfo DEF SecsFit, AfterSecs
  <2>5. InProportion(info', anchor')
    <3>1. n * anchor.interval <= secs + up * (anchor.interval - 1)
      BY <2>1, <2>2, <2>3
    <3>. HIDE DEF n, up
    <3>. QED
      BY <1>2, <2>1, <2>2, <2>3, <2>4, <3>1, MoveInProportion
  <2>6. anchor' \in Anchor /\ anchor'.interval = anchor.interval
    BY <1>2, <2>2, <2>3 DEF Anchor
  <2>. QED
    BY <1>2, <2>4, <2>5, <2>6, MoveKeepsInv DEF ProportionInv, TypeOK
<1>3. CASE Rejected(panics)
  BY <1>3, RejectedKeepsInv
<1>. QED
  BY <1>2, <1>3 DEF AdvanceSecs

(* A move of whole ledgers: nothing is rounded. *)
LEMMA WholeLedgersKeepInv ==
  ASSUME ProportionInv, NEW n \in Nat,
         info.sequence + n <= MaxSequence,
         info.timestamp + n * ledger_close_interval <= MaxTimestamp,
         info' = AfterLedgers(info, n),
         UNCHANGED <<override, checkpoints, frames, unwinding, anchor>>
  PROVE  ProportionInv'
<1>1. ledger_close_interval \in Nat \ {0}
  BY IntervalPositive DEF ProportionInv, TypeOK
<1> DEFINE secs == n * ledger_close_interval
<1>2. secs \in Nat
  BY <1>1
<1>3. info \in Info /\ anchor \in Anchor /\ InProportion(info, anchor)
        /\ anchor.interval = ledger_close_interval
  BY DEF ProportionInv, TypeOK, Proportional
<1>4. info' \in Info /\ info'.timestamp = info.timestamp + secs
        /\ info'.sequence = info.sequence + n
  BY <1>2, <1>3, MovedInfo DEF AfterLedgers
<1>5. [anchor EXCEPT !.rounded = @ + 0] = anchor
  BY <1>3 DEF Anchor
<1>6. InProportion(info', anchor)
  <2>1. secs <= n * anchor.interval /\ n * anchor.interval <= secs + 0 * (anchor.interval - 1)
    BY <1>1, <1>3
  <2>. HIDE DEF secs
  <2>. QED
    BY <1>2, <1>3, <1>4, <1>5, <2>1, MoveInProportion
<1>. QED
  BY <1>3, <1>4, <1>6, MoveKeepsInv DEF ProportionInv, TypeOK

(* Each of the five ways forward keeps the clock in proportion. *)
LEMMA ForwardKeepsInv == ProportionInv /\ Forward => ProportionInv'
<1> SUFFICES ASSUME ProportionInv, NEW panics \in BOOLEAN,
                    \/ \E d \in Durations : advance(d, panics)
                    \/ \E count \in CalendarCounts, unit \in CalendarUnits :
                         advance_calendar(count, unit, panics)
                    \/ \E t \in Timestamps : warp_to(t, panics)
                    \/ \E n \in LedgerCounts : advance_ledgers(n, panics)
                    \/ \E target \in 0..MaxSequence :
                         advance_to_sequence(target, panics)
             PROVE  ProportionInv'
  BY DEF Forward
<1>1. info.timestamp \in Nat /\ info.sequence \in Nat
  BY ClockAssumption DEF ProportionInv, TypeOK, Info
<1>2. ASSUME NEW d \in Durations, advance(d, panics) PROVE ProportionInv'
  <2>1. AsSecs(d) \in Nat
    BY ClockAssumption DEF AsSecs
  <2>. QED
    BY <1>2, <2>1, AdvanceSecsKeepsInv DEF advance
<1>3. ASSUME NEW count \in CalendarCounts, NEW unit \in CalendarUnits,
             advance_calendar(count, unit, panics)
      PROVE  ProportionInv'
  <2>1. count * unit \in Nat
    BY ClockAssumption
  <2>. QED
    BY <1>3, <2>1, AdvanceSecsKeepsInv, RejectedKeepsInv DEF advance_calendar
<1>4. ASSUME NEW t \in Timestamps, warp_to(t, panics) PROVE ProportionInv'
  <2>1. CASE t < info.timestamp /\ Rejected(panics)
    BY <2>1, RejectedKeepsInv
  <2>2. CASE t >= info.timestamp /\ AdvanceSecs(t - info.timestamp, panics)
    <3>1. t - info.timestamp \in Nat
      BY <1>1, <2>2, ClockAssumption
    <3>. QED
      BY <2>2, <3>1, AdvanceSecsKeepsInv
  <2>. QED
    BY <1>4, <2>1, <2>2 DEF warp_to
<1>5. ASSUME NEW n \in LedgerCounts, advance_ledgers(n, panics)
      PROVE  ProportionInv'
  <2>1. n \in Nat
    BY ClockAssumption
  <2>. QED
    BY <1>5, <2>1, WholeLedgersKeepInv, RejectedKeepsInv
    DEF advance_ledgers, LedgersFit
<1>6. ASSUME NEW target \in 0..MaxSequence, advance_to_sequence(target, panics)
      PROVE  ProportionInv'
  <2>1. CASE UNCHANGED vars
    BY <2>1 DEF vars, ProportionInv, TypeOK, Proportional, ledger_close_interval
  <2>2. CASE /\ target > info.sequence /\ TargetFits(info, target)
             /\ info' = AfterTarget(info, target)
             /\ UNCHANGED <<override, checkpoints, frames, unwinding, anchor>>
    <3> DEFINE n == target - info.sequence
    <3>1. n \in Nat /\ info.sequence + n <= MaxSequence
      BY <1>1, <2>2, ClockAssumption
    <3>2. info.timestamp + n * ledger_close_interval <= MaxTimestamp
            /\ info' = AfterLedgers(info, n)
      BY <2>2 DEF TargetFits, AfterTarget, AfterLedgers
    <3>. HIDE DEF n
    <3>. QED
      BY <2>2, <3>1, <3>2, WholeLedgersKeepInv
  <2>3. CASE Rejected(panics)
    BY <2>3, RejectedKeepsInv
  <2>. QED
    BY <1>6, <2>1, <2>2, <2>3 DEF advance_to_sequence
<1>. QED
  BY <1>2, <1>3, <1>4, <1>5, <1>6

(* A new interval anchors the clock afresh. *)
LEMMA ConfigureKeepsInv ==
  ASSUME ProportionInv, NEW secs \in CloseIntervals,
         with_ledger_close_interval(secs)
  PROVE  ProportionInv'
<1>1. secs \in Nat \ {0} /\ info \in Info /\ ledger_close_interval' = secs
  BY ClockAssumption DEF with_ledger_close_interval, ledger_close_interval,
     ProportionInv, TypeOK
<1>2. anchor' = Fresh(info, secs) /\ anchor'.interval = secs
        /\ UNCHANGED <<info, checkpoints, frames, unwinding>>
        /\ override' = secs /\ frames = <<>>
  BY DEF with_ledger_close_interval, Fresh
<1>3. TypeOK'
  BY <1>1, <1>2, FreshInProportion DEF ProportionInv, TypeOK
<1>4. Proportional'
  BY <1>1, <1>2, FreshInProportion DEF Proportional
<1>5. \A k \in 1..Len(frames') : FALSE
  BY <1>2
<1>6. \A c \in checkpoints' : InProportion(c.info, c.anchor)
  BY <1>2 DEF ProportionInv
<1>. QED
  BY <1>3, <1>4, <1>5, <1>6 DEF ProportionInv

(* A checkpoint is taken with the proportion the clock is in. *)
LEMMA CheckpointKeepsInv ==
  ASSUME ProportionInv, checkpoint PROVE ProportionInv'
  BY DEF ProportionInv, TypeOK, Proportional, checkpoint, Saved,
     ledger_close_interval

(* A restored ledger comes with its own anchor, or a fresh one. *)
LEMMA RestoreKeepsInv ==
  ASSUME ProportionInv, NEW c \in checkpoints, restore_checkpoint(c)
  PROVE  ProportionInv'
<1>1. c \in Saved /\ InProportion(c.info, c.anchor)
  BY DEF ProportionInv, TypeOK
<1>2. c.info \in Info /\ c.anchor \in Anchor
  BY <1>1 DEF Saved
<1>3. ledger_close_interval \in Nat \ {0}
  BY IntervalPositive DEF ProportionInv, TypeOK
<1>4. anchor' \in Anchor /\ InProportion(info', anchor')
        /\ anchor'.interval = ledger_close_interval
  <2>1. CASE c.anchor.interval = ledger_close_interval
    BY <1>1, <1>2, <2>1 DEF restore_checkpoint
  <2>2. CASE c.anchor.interval # ledger_close_interval
    BY <1>2, <1>3, <2>2, FreshInProportion DEF restore_checkpoint, Fresh
  <2>. QED
    BY <2>1, <2>2
<1>. QED
  BY <1>2, <1>4, MoveKeepsInv
  DEF restore_checkpoint, ProportionInv, TypeOK, Proportional

(* `at` sets the clock aside with its anchor, and anchors the closure's. *)
LEMMA AtEnterKeepsInv ==
  ASSUME ProportionInv, NEW t \in Timestamps, AtEnter(t)
  PROVE  ProportionInv'
<1> DEFINE f == [original |-> info, anchor |-> anchor]
<1>1. /\ info \in Info /\ anchor \in Anchor /\ InProportion(info, anchor)
      /\ anchor.interval = ledger_close_interval
      /\ frames \in Seq(Frame)
  BY DEF ProportionInv, TypeOK, Proportional
<1>2. f \in Frame
  BY <1>1 DEF Frame
<1>3. frames' = Append(frames, f) /\ frames' \in Seq(Frame)
  BY <1>1, <1>2 DEF AtEnter
<1>4. info' \in Info
  BY <1>1, ClockAssumption DEF AtEnter, Info
<1>5. ledger_close_interval \in Nat \ {0}
  BY IntervalPositive DEF ProportionInv, TypeOK
<1>6. /\ anchor' \in Anchor /\ InProportion(info', anchor')
      /\ anchor'.interval = ledger_close_interval
  BY <1>4, <1>5, FreshInProportion DEF AtEnter, Fresh
<1>7. UNCHANGED <<override, checkpoints, unwinding, ledger_close_interval>>
  BY DEF AtEnter, ledger_close_interval
<1>8. ASSUME NEW k \in 1..Len(frames')
      PROVE  /\ InProportion(frames'[k].original, frames'[k].anchor)
             /\ frames'[k].anchor.interval = ledger_close_interval'
  <2>1. CASE k = Len(frames) + 1
    <3>1. frames'[k] = f
      BY <1>1, <1>3, <2>1
    <3>. QED
      BY <1>1, <1>7, <3>1
  <2>2. CASE k # Len(frames) + 1
    <3>1. k \in 1..Len(frames) /\ frames'[k] = frames[k]
      BY <1>1, <1>2, <1>3, <2>2
    <3>. QED
      BY <1>7, <3>1 DEF ProportionInv
  <2>. QED
    BY <2>1, <2>2
<1>9. TypeOK'
  BY <1>3, <1>4, <1>6, <1>7 DEF ProportionInv, TypeOK
<1>. QED
  BY <1>6, <1>7, <1>8, <1>9 DEF ProportionInv, Proportional

(* A sequence without its last element. *)
LEMMA AllButLast ==
  ASSUME NEW S, NEW s \in Seq(S), s # <<>>
  PROVE  LET f == SubSeq(s, 1, Len(s) - 1)
         IN  /\ f \in Seq(S)
             /\ Len(f) = Len(s) - 1
             /\ \A k \in 1..Len(f) : k \in 1..Len(s) /\ f[k] = s[k]
<1>1. PICK n \in Nat : n = Len(s) - 1 /\ \A i \in 1..n : s[i] \in S
  BY Len(s) \in Nat \ {0}
<1>2. SubSeq(s, 1, n) \in Seq(S)
  BY <1>1, SubSeqProperties
<1>3. Len(SubSeq(s, 1, n)) = n
  BY <1>1, SubSeqProperties
<1>4. \A i \in 1..n : SubSeq(s, 1, n)[i] = s[i]
  BY <1>1, SubSeqProperties
<1>. QED
  BY <1>1, <1>2, <1>3, <1>4

(* What `at` puts back is in proportion as it was. *)
LEMMA AtExitKeepsInv ==
  ASSUME ProportionInv, AtExit PROVE ProportionInv'
<1>1. frames \in Seq(Frame) /\ frames # <<>>
  BY DEF ProportionInv, TypeOK, AtExit
<1>2. Len(frames) \in 1..Len(frames) /\ Innermost \in Frame
  BY <1>1 DEF Innermost
<1>3. /\ frames' \in Seq(Frame) /\ Len(frames') = Len(frames) - 1
      /\ \A k \in 1..Len(frames') : k \in 1..Len(frames) /\ frames'[k] = frames[k]
  BY <1>1, AllButLast DEF AtExit
<1>4. UNCHANGED <<override, checkpoints, unwinding, ledger_close_interval>>
  BY DEF AtExit, ledger_close_interval
<1>5. /\ info' \in Info /\ anchor' \in Anchor
      /\ InProportion(info', anchor')
      /\ anchor'.interval = ledger_close_interval
  BY <1>2 DEF AtExit, Innermost, Frame, ProportionInv
<1>6. TypeOK'
  BY <1>3, <1>4, <1>5 DEF ProportionInv, TypeOK
<1>. QED
  BY <1>3, <1>4, <1>5, <1>6 DEF ProportionInv, Proportional

(* ProportionInv is inductive: no action of the clock breaks it. *)
LEMMA ProportionStep == ProportionInv /\ [Next]_vars => ProportionInv'
<1> SUFFICES ASSUME ProportionInv, [Next]_vars PROVE ProportionInv'
  OBVIOUS
<1>1. CASE Forward
  BY <1>1, ForwardKeepsInv
<1>2. CASE \E secs \in CloseIntervals : with_ledger_close_interval(secs)
  BY <1>2, ConfigureKeepsInv
<1>3. CASE checkpoint
  BY <1>3, CheckpointKeepsInv
<1>4. CASE \E c \in checkpoints : restore_checkpoint(c)
  BY <1>4, RestoreKeepsInv
<1>5. CASE \E t \in Timestamps : AtEnter(t)
  BY <1>5, AtEnterKeepsInv
<1>6. CASE AtExit
  BY <1>6, AtExitKeepsInv
<1>7. CASE ClosurePanics
  BY <1>7, MoveKeepsInv DEF ClosurePanics, ProportionInv, TypeOK, Proportional
<1>8. CASE TestCatches
  BY <1>8, MoveKeepsInv DEF TestCatches, ProportionInv, TypeOK, Proportional
<1>9. CASE UNCHANGED vars
  BY <1>9 DEF vars, ProportionInv, TypeOK, Proportional, ledger_close_interval
<1>. QED
  BY <1>1, <1>2, <1>3, <1>4, <1>5, <1>6, <1>7, <1>8, <1>9 DEF Next

(* No sequence of clock calls, restores, nested `at` calls and panics      *)
(* leaves the limits of the counters, and the clock stays in proportion.   *)
THEOREM ProportionHolds == Spec => []ProportionInv
  BY ProportionInit, ProportionStep, PTL DEF Spec

(* No sequence of clock calls takes a counter past its width. *)
THEOREM TypeCorrect == Spec => []TypeOK
<1>1. ProportionInv => TypeOK
  BY DEF ProportionInv
<1>. QED
  BY <1>1, ProportionHolds, PTL

(* Timestamp and sequence never drift apart by more than rounding.         *)
THEOREM StaysProportional == Spec => []Proportional
<1>1. ProportionInv => Proportional
  BY DEF ProportionInv
<1>. QED
  BY <1>1, ProportionHolds, PTL

--------------------------------------------------------------------------------
(* The arithmetic of a split advance, and of the three ways to move *)

(* A multiple of m strictly between -m and 2m is 0 or m. *)
LEMMA MultipleBetween ==
  ASSUME NEW x \in Int, NEW m \in Nat \ {0}, -m < x * m, x * m < 2 * m
  PROVE  x \in {0, 1}
<1>1. x <= -1 => x * m <= -m
  BY SMT
<1>2. x >= 2 => x * m >= 2 * m
  BY SMT
<1>. QED
  BY <1>1, <1>2

(* Two waits close the ledgers of the whole wait, or one more. *)
LEMMA SplitDivCeil ==
  ASSUME NEW a \in Nat, NEW b \in Nat, NEW m \in Nat \ {0}
  PROVE  DivCeil(a, m) + DivCeil(b, m) - DivCeil(a + b, m) \in {0, 1}
<1> DEFINE p == DivCeil(a, m)
           q == DivCeil(b, m)
           r == DivCeil(a + b, m)
<1>1. /\ p \in Nat /\ a <= p * m /\ p * m <= a + m - 1
      /\ q \in Nat /\ b <= q * m /\ q * m <= b + m - 1
      /\ r \in Nat /\ a + b <= r * m /\ r * m <= a + b + m - 1
  <2>1. a + b \in Nat
    OBVIOUS
  <2>2. p \in Nat /\ a <= p * m /\ p * m <= a + m - 1
    BY DivCeilLeast
  <2>3. q \in Nat /\ b <= q * m /\ q * m <= b + m - 1
    BY DivCeilLeast
  <2>4. r \in Nat /\ a + b <= r * m /\ r * m <= a + b + m - 1
    BY <2>1, DivCeilLeast
  <2>. QED
    BY <2>2, <2>3, <2>4
<1>. HIDE DEF p, q, r
<1>2. (p + q - r) * m = p * m + q * m - r * m
  BY <1>1
<1>3. /\ p * m \in Int /\ q * m \in Int /\ r * m \in Int
  BY <1>1
<1>4. -m < (p + q - r) * m /\ (p + q - r) * m < 2 * m
  BY <1>1, <1>2, <1>3
<1>5. p + q - r \in {0, 1}
  BY <1>1, <1>4, MultipleBetween
<1>. QED
  BY <1>5 DEF p, q, r

(* A whole number of intervals closes that number of ledgers. *)
LEMMA WholeDivCeil ==
  ASSUME NEW n \in Nat, NEW m \in Nat \ {0}
  PROVE  DivCeil(n * m, m) = n
<1> DEFINE d == DivCeil(n * m, m)
<1>1. d \in Nat /\ n * m <= d * m /\ d * m <= n * m + m - 1
  BY n * m \in Nat, DivCeilLeast
<1>. HIDE DEF d
<1>2. (d - n) * m = d * m - n * m
  BY <1>1
<1>3. d - n \in {0, 1}
  BY <1>1, <1>2, MultipleBetween
<1>4. d - n # 1
  BY <1>1, <1>2
<1>. QED
  BY <1>1, <1>3, <1>4 DEF d

(* Splitting an advance costs at most one ledger and is never accepted     *)
(* where the whole is refused, from any position and for any durations.    *)
THEOREM SplitHolds == Spec => []SplitAdvance
<1>1. ASSUME TypeOK PROVE SplitAdvance
  <2>1. ledger_close_interval \in Nat \ {0} /\ info.timestamp \in Nat
          /\ info.sequence \in Nat
    BY <1>1, IntervalPositive, ClockAssumption DEF TypeOK, Info
  <2>2. SUFFICES ASSUME NEW a \in {AsSecs(d) : d \in Durations},
                        NEW b \in {AsSecs(d) : d \in Durations}
                 PROVE  LET whole == AfterSecs(info, a + b)
                            parts == AfterSecs(AfterSecs(info, a), b)
                        IN  /\ parts.timestamp = whole.timestamp
                            /\ parts.sequence - whole.sequence \in {0, 1}
                            /\ SecsFit(info, a) /\ SecsFit(AfterSecs(info, a), b)
                                 => SecsFit(info, a + b)
    BY DEF SplitAdvance
  <2>3. a \in Nat /\ b \in Nat
    BY ClockAssumption DEF AsSecs
  <2>4. /\ LedgersIn(a) \in Nat /\ LedgersIn(b) \in Nat
        /\ LedgersIn(a + b) \in Nat
        /\ LedgersIn(a) + LedgersIn(b) - LedgersIn(a + b) \in {0, 1}
    BY <2>1, <2>3, a + b \in Nat, DivCeilLeast, SplitDivCeil DEF LedgersIn
  <2>. QED
    BY <2>1, <2>3, <2>4, ClockAssumption DEF AfterSecs, Moved, SecsFit
<1>. QED
  BY <1>1, TypeCorrect, PTL

(* Ledgers, target sequence and seconds are one move. *)
THEOREM DirectionsHold == Spec => []DirectionsAgree
<1>1. ASSUME TypeOK PROVE DirectionsAgree
  <2>1. ledger_close_interval \in Nat \ {0} /\ info.timestamp \in Nat
          /\ info.sequence \in Nat
    BY <1>1, IntervalPositive, ClockAssumption DEF TypeOK, Info
  <2>2. ASSUME NEW n \in LedgerCounts
        PROVE  LET secs   == n * ledger_close_interval
                   target == info.sequence + n
               IN  /\ LedgersFit(info, n) <=> SecsFit(info, secs)
                   /\ AfterLedgers(info, n) = AfterSecs(info, secs)
                   /\ target <= MaxSequence =>
                        /\ TargetFits(info, target) <=> LedgersFit(info, n)
                        /\ AfterTarget(info, target) = AfterLedgers(info, n)
    <3>1. n \in Nat
      BY ClockAssumption
    <3> DEFINE secs == n * ledger_close_interval
    <3>2. secs \in Nat /\ LedgersIn(secs) = n
      BY <2>1, <3>1, WholeDivCeil DEF LedgersIn
    <3>4. MaxSequence \in Nat /\ MaxTimestamp \in Nat
      BY ClockAssumption
    <3>5. LedgersFit(info, n) <=> SecsFit(info, secs)
      <4>. HIDE DEF secs
      <4>1. LedgersFit(info, n) <=> /\ secs <= MaxTimestamp
                                    /\ info.sequence + n <= MaxSequence
                                    /\ info.timestamp + secs <= MaxTimestamp
        BY DEF LedgersFit, secs
      <4>. QED
        BY <2>1, <3>1, <3>2, <3>4, <4>1 DEF SecsFit
    <3>6. AfterLedgers(info, n) = AfterSecs(info, secs)
      BY <3>2 DEF AfterLedgers, AfterSecs
    <3>7. info.sequence + n <= MaxSequence =>
            /\ TargetFits(info, info.sequence + n) <=> LedgersFit(info, n)
            /\ AfterTarget(info, info.sequence + n) = AfterLedgers(info, n)
      <4> DEFINE target == info.sequence + n
      <4>1. target - info.sequence = n
        BY <2>1, <3>1
      <4>2. TargetFits(info, target) <=> /\ secs <= MaxTimestamp
                                         /\ info.timestamp + secs <= MaxTimestamp
        BY <4>1, Zenon DEF TargetFits
      <4>3. LedgersFit(info, n) <=> /\ secs <= MaxTimestamp
                                    /\ target <= MaxSequence
                                    /\ info.timestamp + secs <= MaxTimestamp
        BY DEF LedgersFit
      <4>4. AfterTarget(info, target) = AfterLedgers(info, n)
        BY <4>1, Zenon DEF AfterTarget, AfterLedgers
      <4>. HIDE DEF secs
      <4>. QED
        BY <4>2, <4>3, <4>4
    <3>. QED
      BY <3>5, <3>6, <3>7
  <2>. QED
    BY <2>2 DEF DirectionsAgree
<1>. QED
  BY <1>1, TypeCorrect, PTL

--------------------------------------------------------------------------------
(* Refinement: outside its `at` calls a test sees a proportional clock *)

(* A new environment starts the promised clock. *)
LEMMA PromiseInit == Init => Promise!Init
<1> SUFFICES ASSUME Init PROVE Promise!Init
  OBVIOUS
<1>1. Outside = info /\ info \in Info
  BY ClockAssumption DEF Init, Outside
<1>2. ledger_close_interval \in Nat \ {0}
  BY IntervalPositive DEF Init
<1>. QED
  BY <1>1, <1>2, ClockAssumption DEF Promise!Init, Info

(* Inside an `at` nothing is seen; outside, an accepted move that closes   *)
(* any ledger is one tick.                                                 *)
LEMMA MoveKeepsPromise ==
  ASSUME TypeOK, NEW secs \in Nat, NEW n \in Nat,
         UNCHANGED <<override, checkpoints, frames>>,
         info' = Moved(info, secs, n),
         secs <= n * ledger_close_interval,
         n > 0 => (n - 1) * ledger_close_interval < secs
  PROVE  [Promise!Next]_Promise!vars
<1>1. UNCHANGED <<ledger_close_interval, {c.info : c \in checkpoints}>>
  BY DEF ledger_close_interval
<1>2. info \in Info /\ ledger_close_interval \in Nat \ {0}
  BY IntervalPositive DEF TypeOK
<1>3. CASE frames # <<>>
  <2>1. UNCHANGED Outside
    BY <1>3 DEF Outside
  <2>. QED
    BY <1>1, <2>1 DEF Promise!vars
<1>4. CASE frames = <<>> /\ n = 0
  <2>1. secs = 0
    BY <1>2, <1>4
  <2>2. info' = info
    BY <1>2, <1>4, <2>1, ClockAssumption DEF Moved, Info
  <2>3. UNCHANGED Outside
    BY <1>4, <2>2 DEF Outside
  <2>. QED
    BY <1>1, <2>3 DEF Promise!vars
<1>5. CASE frames = <<>> /\ n > 0
  <2>1. Outside = info /\ Outside' = info'
    BY <1>5 DEF Outside
  <2>2. /\ info'.timestamp - info.timestamp = secs
        /\ info'.sequence - info.sequence = n
        /\ info'.settings = info.settings
    BY <1>2, ClockAssumption DEF Moved, Info
  <2>3. Promise!Tick
    BY <1>1, <1>5, <2>1, <2>2 DEF Promise!Tick
  <2>. QED
    BY <2>3 DEF Promise!Next
<1>. QED
  BY <1>3, <1>4, <1>5

(* A step that changes neither clock, interval, checkpoints nor frames. *)
LEMMA StillKeepsPromise ==
  ASSUME UNCHANGED <<info, override, checkpoints, frames>>
  PROVE  [Promise!Next]_Promise!vars
  BY DEF Promise!vars, Outside, ledger_close_interval

(* A duration moves the promised clock by a rounded wait. *)
LEMMA AdvanceSecsKeepsPromise ==
  ASSUME TypeOK, NEW secs \in Nat, NEW panics \in BOOLEAN,
         AdvanceSecs(secs, panics)
  PROVE  [Promise!Next]_Promise!vars
<1>1. ledger_close_interval \in Nat \ {0}
  BY IntervalPositive DEF TypeOK
<1>2. /\ LedgersIn(secs) \in Nat
      /\ secs <= LedgersIn(secs) * ledger_close_interval
      /\ LedgersIn(secs) > 0 => (LedgersIn(secs) - 1) * ledger_close_interval < secs
  BY <1>1, DivCeilBounds DEF LedgersIn
<1>3. CASE info' = AfterSecs(info, secs) /\ UNCHANGED <<override, checkpoints, frames>>
  BY <1>2, <1>3, MoveKeepsPromise DEF AfterSecs
<1>4. CASE Rejected(panics)
  BY <1>4, StillKeepsPromise DEF Rejected
<1>. QED
  BY <1>3, <1>4 DEF AdvanceSecs

(* Whole ledgers move it by the time they take. *)
LEMMA WholeLedgersKeepPromise ==
  ASSUME TypeOK, NEW n \in Nat, info' = AfterLedgers(info, n),
         UNCHANGED <<override, checkpoints, frames>>
  PROVE  [Promise!Next]_Promise!vars
<1>1. ledger_close_interval \in Nat \ {0}
  BY IntervalPositive DEF TypeOK
<1>2. n * ledger_close_interval \in Nat
        /\ (n - 1) * ledger_close_interval < n * ledger_close_interval
        /\ n * ledger_close_interval <= n * ledger_close_interval
  BY <1>1
<1> DEFINE secs == n * ledger_close_interval
<1>3. info' = Moved(info, secs, n)
  BY DEF AfterLedgers
<1>. HIDE DEF secs
<1>. QED
  BY <1>2, <1>3, MoveKeepsPromise DEF secs

(* Every way forward, inside an `at` or outside, is a promised move or none. *)
LEMMA ForwardKeepsPromise ==
  ASSUME TypeOK, Forward PROVE [Promise!Next]_Promise!vars
<1>1. PICK panics \in BOOLEAN :
        \/ \E d \in Durations : advance(d, panics)
        \/ \E count \in CalendarCounts, unit \in CalendarUnits :
             advance_calendar(count, unit, panics)
        \/ \E t \in Timestamps : warp_to(t, panics)
        \/ \E n \in LedgerCounts : advance_ledgers(n, panics)
        \/ \E target \in 0..MaxSequence : advance_to_sequence(target, panics)
  BY DEF Forward
<1>2. info.timestamp \in Nat /\ info.sequence \in Nat
  BY ClockAssumption DEF TypeOK, Info
<1>3. CASE Rejected(panics)
  BY <1>3, StillKeepsPromise DEF Rejected
<1>4. CASE \E secs \in Nat : AdvanceSecs(secs, panics)
  BY <1>4, AdvanceSecsKeepsPromise
<1>5. CASE /\ \E n \in Nat : info' = AfterLedgers(info, n)
           /\ UNCHANGED <<override, checkpoints, frames>>
  BY <1>5, WholeLedgersKeepPromise
<1>6. CASE UNCHANGED vars
  BY <1>6, StillKeepsPromise DEF vars
<1>7. ASSUME NEW d \in Durations, advance(d, panics)
      PROVE  \E secs \in Nat : AdvanceSecs(secs, panics)
  <2>1. AsSecs(d) \in Nat
    BY ClockAssumption DEF AsSecs
  <2>. QED
    BY <1>7, <2>1 DEF advance
<1>8. ASSUME NEW count \in CalendarCounts, NEW unit \in CalendarUnits,
             advance_calendar(count, unit, panics)
      PROVE  Rejected(panics) \/ \E secs \in Nat : AdvanceSecs(secs, panics)
  <2>1. count * unit \in Nat
    BY ClockAssumption
  <2>. QED
    BY <1>8, <2>1 DEF advance_calendar
<1>9. ASSUME NEW t \in Timestamps, warp_to(t, panics)
      PROVE  Rejected(panics) \/ \E secs \in Nat : AdvanceSecs(secs, panics)
  <2>1. t >= info.timestamp => t - info.timestamp \in Nat
    BY <1>2, ClockAssumption
  <2>. QED
    BY <1>9, <2>1 DEF warp_to
<1>10. ASSUME NEW n \in LedgerCounts, advance_ledgers(n, panics)
       PROVE  \/ Rejected(panics)
              \/ /\ \E k \in Nat : info' = AfterLedgers(info, k)
                 /\ UNCHANGED <<override, checkpoints, frames>>
  <2>1. n \in Nat
    BY ClockAssumption
  <2>. QED
    BY <1>10, <2>1 DEF advance_ledgers
<1>11. ASSUME NEW target \in 0..MaxSequence, advance_to_sequence(target, panics)
       PROVE  \/ Rejected(panics)
              \/ UNCHANGED vars
              \/ /\ \E k \in Nat : info' = AfterLedgers(info, k)
                 /\ UNCHANGED <<override, checkpoints, frames>>
  <2>1. target > info.sequence => target - info.sequence \in Nat
    BY <1>2, ClockAssumption
  <2>2. AfterTarget(info, target) = AfterLedgers(info, target - info.sequence)
    BY DEF AfterTarget, AfterLedgers
  <2>. QED
    BY <1>11, <2>1, <2>2 DEF advance_to_sequence
<1>. QED
  BY <1>1, <1>3, <1>4, <1>5, <1>6, <1>7, <1>8, <1>9, <1>10, <1>11

(* Every step of the clock is a step of the promised one, or none. *)
LEMMA PromiseStep ==
  ASSUME ProportionInv, [Next]_vars PROVE [Promise!Next]_Promise!vars
<1>1. TypeOK
  BY DEF ProportionInv
<1>2. CASE Forward
  BY <1>1, <1>2, ForwardKeepsPromise
<1>3. ASSUME NEW secs \in CloseIntervals, with_ledger_close_interval(secs)
      PROVE  Promise!Configure
  <2>1. ledger_close_interval' = secs /\ secs \in Nat \ {0}
    BY <1>3, ClockAssumption DEF with_ledger_close_interval, ledger_close_interval
  <2>2. UNCHANGED <<Outside, {c.info : c \in checkpoints}>>
    BY <1>3 DEF with_ledger_close_interval, Outside
  <2>. QED
    BY <2>1, <2>2 DEF Promise!Configure
<1>4. CASE checkpoint
  BY <1>4 DEF checkpoint, Outside, ledger_close_interval, Promise!Save, Promise!Next
<1>5. ASSUME NEW c \in checkpoints, restore_checkpoint(c)
      PROVE  [Promise!Next]_Promise!vars
  <2>1. UNCHANGED <<ledger_close_interval, checkpoints, frames>> /\ info' = c.info
    BY <1>5 DEF restore_checkpoint, ledger_close_interval
  <2>2. CASE frames = <<>>
    <3>1. Outside' = c.info
      BY <2>1, <2>2 DEF Outside
    <3>2. Promise!GoBack
      BY <2>1, <3>1 DEF Promise!GoBack
    <3>. QED
      BY <3>2 DEF Promise!Next
  <2>3. CASE frames # <<>>
    BY <2>1, <2>3 DEF Outside, Promise!vars
  <2>. QED
    BY <2>2, <2>3
<1>6. ASSUME NEW t \in Timestamps, AtEnter(t)
      PROVE  UNCHANGED Promise!vars
  <2> DEFINE f == [original |-> info, anchor |-> anchor]
  <2>1. frames \in Seq(Frame) /\ frames' = Append(frames, f)
          /\ UNCHANGED <<override, checkpoints>>
    BY <1>1, <1>6 DEF AtEnter, TypeOK
  <2>2. frames' # <<>> /\ frames'[1].original = Outside
    <3>1. CASE frames = <<>>
      <4>1. Len(frames') = 1 /\ frames'[1] = f
        BY <2>1, <3>1
      <4>. QED
        BY <3>1, <4>1 DEF Outside
    <3>2. CASE frames # <<>>
      <4>1. Len(frames) \in Nat \ {0}
        BY <2>1, <3>2
      <4>. HIDE DEF f
      <4>2. frames'[1] = frames[1] /\ Len(frames') = Len(frames) + 1
        BY <2>1, <4>1
      <4>. QED
        BY <3>2, <4>1, <4>2 DEF Outside
    <3>. QED
      BY <3>1, <3>2
  <2>3. Outside' = Outside
    BY <2>2 DEF Outside
  <2>4. ledger_close_interval' = ledger_close_interval /\ checkpoints' = checkpoints
    BY <2>1 DEF ledger_close_interval
  <2>. QED
    BY <2>3, <2>4 DEF Promise!vars
<1>7. ASSUME AtExit PROVE UNCHANGED Promise!vars
  <2>1. /\ frames \in Seq(Frame) /\ frames # <<>>
        /\ info' = frames[Len(frames)].original
        /\ UNCHANGED <<override, checkpoints>>
    BY <1>1, <1>7 DEF AtExit, Innermost, TypeOK
  <2>2. /\ frames' \in Seq(Frame) /\ Len(frames') = Len(frames) - 1
        /\ \A k \in 1..Len(frames') : frames'[k] = frames[k]
    BY <1>7, <2>1, AllButLast DEF AtExit
  <2>3. Len(frames) \in Nat \ {0}
    BY <2>1
  <2>4. Outside = frames[1].original
    BY <2>1 DEF Outside
  <2>5. CASE Len(frames) = 1
    <3>1. frames' = <<>>
      BY <2>2, <2>5
    <3>2. Outside' = Outside
      BY <2>1, <2>4, <2>5, <3>1 DEF Outside
    <3>. QED
      BY <2>1, <3>2 DEF Promise!vars, ledger_close_interval
  <2>6. CASE Len(frames) > 1
    <3>1. frames' # <<>> /\ frames'[1] = frames[1]
      BY <2>2, <2>3, <2>6
    <3>2. Outside' = Outside
      BY <2>4, <3>1 DEF Outside
    <3>. QED
      BY <2>1, <3>2 DEF Promise!vars, ledger_close_interval
  <2>7. Len(frames) = 1 \/ Len(frames) > 1
    BY <2>3
  <2>. QED
    BY <2>5, <2>6, <2>7
<1>8. CASE ClosurePanics
  BY <1>8, StillKeepsPromise DEF ClosurePanics
<1>9. CASE TestCatches
  BY <1>9, StillKeepsPromise DEF TestCatches
<1>10. CASE UNCHANGED vars
  BY <1>10, StillKeepsPromise DEF vars
<1>. QED
  BY <1>2, <1>3, <1>4, <1>5, <1>6, <1>7, <1>8, <1>9, <1>10
  DEF Next, Promise!Next

(* The clock a test sees outside its `at` calls is the proportional clock: *)
(* a closure's moves, restores and panics leave no trace on it.            *)
THEOREM ImplementsPromise == Spec => KeepsPromise
<1>1. ProportionInv /\ [Next]_vars => [Promise!Next]_Promise!vars
  BY PromiseStep
<1>. QED
  BY <1>1, PromiseInit, ProportionHolds, PTL
  DEF Spec, KeepsPromise, Promise!Spec
================================================================================
