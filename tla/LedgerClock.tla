------------------------------ MODULE LedgerClock ------------------------------
(***************************************************************************)
(* The ledger clock of one TestEnv (crates/testkit/src/ledger/clock.rs):   *)
(* the operations that move it forward, the checkpoints that take it back, *)
(* and the `at` calls that set it aside while a closure runs.              *)
(*                                                                         *)
(* A test is one thread, so each operation is one step.  What makes the    *)
(* clock hard is the order of the steps: an `at` runs a closure that may   *)
(* itself advance, restore a checkpoint, nest another `at` or panic, and   *)
(* the panic unwinds through every `at` that is open.                      *)
(***************************************************************************)
EXTENDS Integers, Sequences, FiniteSets

CONSTANTS
  MaxSequence,            \* u32::MAX, the largest ledger sequence
  MaxTimestamp,           \* u64::MAX, the largest ledger timestamp
  LEDGER_CLOSE_TIME_SECS, \* the close interval of an environment with no override
  CloseIntervals,         \* the overrides a fixture passes
  TicksPerSec,            \* sub-second resolution of a Duration
  Durations,              \* arguments of advance, in ticks
  CalendarUnits,          \* seconds per minute, hour and day
  CalendarCounts,         \* arguments of the calendar helpers
  LedgerCounts,           \* arguments of advance_ledgers
  Timestamps,             \* arguments of warp_to and at
  Settings,               \* the fields of LedgerInfo no clock operation reads
  Origins,                \* ledger infos a new environment may start from
  ForeignInfos,           \* ledger infos checkpointed in another environment
  MaxCheckpoints,         \* bound: checkpoints a test holds
  MaxDepth                \* bound: `at` calls open at once

Info == [timestamp : 0..MaxTimestamp, sequence : 0..MaxSequence, settings : Settings]

ASSUME ClockAssumption ==
  /\ MaxSequence \in Nat
  /\ MaxTimestamp \in Nat
  /\ LEDGER_CLOSE_TIME_SECS \in Nat \ {0}
  /\ CloseIntervals \subseteq Nat
  /\ TicksPerSec \in Nat \ {0}
  /\ Durations \subseteq Nat
  /\ CalendarUnits \subseteq Nat
  /\ CalendarCounts \subseteq Nat
  /\ LedgerCounts \subseteq 0..MaxSequence
  /\ Timestamps \subseteq 0..MaxTimestamp
  /\ Origins \subseteq Info
  /\ ForeignInfos \subseteq Info
  /\ MaxCheckpoints \in Nat
  /\ MaxDepth \in Nat

VARIABLES
  info,        \* the host's LedgerInfo
  override,    \* close_interval_secs; 0 is None, a value no override has
  checkpoints, \* the LedgerCheckpoint values the test holds
  frames,      \* the `at` calls that are open, the innermost last
  unwinding,   \* a panic is on its way up through the open `at` calls
  anchor       \* ghost: where the clock was last set outright, and how many
               \* moves have been rounded up to a whole ledger since

vars == <<info, override, checkpoints, frames, unwinding, anchor>>

--------------------------------------------------------------------------------
(* Arithmetic *)

ledger_close_interval == IF override = 0 THEN LEDGER_CLOSE_TIME_SECS ELSE override

DivCeil(a, b) == a \div b + (IF a % b = 0 THEN 0 ELSE 1)

(* Duration::as_secs drops what is less than a second. *)
AsSecs(duration) == duration \div TicksPerSec

(* Mutant: the started ledger is not counted. *)
LedgersInRoundedDown(secs) == secs \div ledger_close_interval

(* The ledgers that close while secs elapse. *)
LedgersIn(secs) == DivCeil(secs, ledger_close_interval)

(* Mutant: the sequence is added unchecked. *)
SecsFitUncheckedSequence(i, secs) ==
  /\ LedgersIn(secs) <= MaxSequence
  /\ i.timestamp + secs <= MaxTimestamp

(* try_advance_secs accepts when the ledgers fit a u32, the sequence a u32 *)
(* and the timestamp a u64.                                                *)
SecsFit(i, secs) ==
  /\ LedgersIn(secs) <= MaxSequence
  /\ i.sequence + LedgersIn(secs) <= MaxSequence
  /\ i.timestamp + secs <= MaxTimestamp

(* Mutant: the last sequence is taken for an overflow. *)
LedgersFitStrict(i, n) ==
  /\ n * ledger_close_interval <= MaxTimestamp
  /\ i.sequence + n < MaxSequence
  /\ i.timestamp + n * ledger_close_interval <= MaxTimestamp

(* try_advance_ledgers: the product is checked before the two sums. *)
LedgersFit(i, n) ==
  /\ n * ledger_close_interval <= MaxTimestamp
  /\ i.sequence + n <= MaxSequence
  /\ i.timestamp + n * ledger_close_interval <= MaxTimestamp

(* try_advance_to_sequence: the target is a u32 already. *)
TargetFits(i, target) ==
  /\ (target - i.sequence) * ledger_close_interval <= MaxTimestamp
  /\ i.timestamp + (target - i.sequence) * ledger_close_interval <= MaxTimestamp

(* The two setters of an accepted move; every other field stays. *)
Moved(i, secs, ledgers) ==
  [timestamp |-> i.timestamp + secs,
   sequence  |-> i.sequence + ledgers,
   settings  |-> i.settings]

AfterSecs(i, secs) == Moved(i, secs, LedgersIn(secs))

AfterLedgers(i, n) == Moved(i, n * ledger_close_interval, n)

AfterTarget(i, target) ==
  Moved(i, (target - i.sequence) * ledger_close_interval, target - i.sequence)

Fresh(i, interval) ==
  [timestamp |-> i.timestamp, sequence |-> i.sequence,
   interval |-> interval, rounded |-> 0]

--------------------------------------------------------------------------------
(* Moving forward.  A rejected call changes nothing; the panicking form of *)
(* an operation turns the rejection into a panic, its try_ form returns it.*)

Rejected(panics) ==
  /\ unwinding' = panics
  /\ UNCHANGED <<info, override, checkpoints, frames, anchor>>

AdvanceSecs(secs, panics) ==
  \/ /\ SecsFit(info, secs)
     /\ info' = AfterSecs(info, secs)
     /\ anchor' = [anchor EXCEPT !.rounded =
                     @ + (IF secs % ledger_close_interval = 0 THEN 0 ELSE 1)]
     /\ UNCHANGED <<override, checkpoints, frames, unwinding>>
  \/ /\ ~SecsFit(info, secs)
     /\ Rejected(panics)

advance(duration, panics) ==
  /\ ~unwinding
  /\ AdvanceSecs(AsSecs(duration), panics)

(* advance_minutes, advance_hours, advance_days: calendar_secs first. *)
advance_calendar(count, unit, panics) ==
  /\ ~unwinding
  /\ \/ /\ count * unit <= MaxTimestamp
        /\ AdvanceSecs(count * unit, panics)
     \/ /\ count * unit > MaxTimestamp
        /\ Rejected(panics)

warp_to(timestamp, panics) ==
  /\ ~unwinding
  /\ \/ /\ timestamp < info.timestamp
        /\ Rejected(panics)
     \/ /\ timestamp >= info.timestamp
        /\ AdvanceSecs(timestamp - info.timestamp, panics)

advance_ledgers(n, panics) ==
  /\ ~unwinding
  /\ \/ /\ LedgersFit(info, n)
        /\ info' = AfterLedgers(info, n)
        /\ UNCHANGED <<override, checkpoints, frames, unwinding, anchor>>
     \/ /\ ~LedgersFit(info, n)
        /\ Rejected(panics)

(* A target at or behind the current sequence is accepted and does nothing. *)
advance_to_sequence(target, panics) ==
  /\ ~unwinding
  /\ \/ /\ target <= info.sequence
        /\ UNCHANGED vars
     \/ /\ target > info.sequence
        /\ TargetFits(info, target)
        /\ info' = AfterTarget(info, target)
        /\ UNCHANGED <<override, checkpoints, frames, unwinding, anchor>>
     \/ /\ target > info.sequence
        /\ ~TargetFits(info, target)
        /\ Rejected(panics)

--------------------------------------------------------------------------------
(* Configuration, checkpoints and `at` *)

(* The builder takes the environment by value: it cannot run inside an     *)
(* `at`, which borrows it, and a zero, which panics, leaves none to use.   *)
with_ledger_close_interval(secs) ==
  /\ ~unwinding
  /\ frames = <<>>
  /\ secs # 0
  /\ override' = secs
  /\ anchor' = Fresh(info, secs)
  /\ UNCHANGED <<info, checkpoints, frames, unwinding>>

checkpoint ==
  /\ ~unwinding
  /\ Cardinality(checkpoints) < MaxCheckpoints
  /\ checkpoints' = checkpoints \cup {[info |-> info, anchor |-> anchor]}
  /\ UNCHANGED <<info, override, frames, unwinding, anchor>>

(* Every field of the ledger goes back; the close interval is not one.     *)
restore_checkpoint(c) ==
  /\ ~unwinding
  /\ info' = c.info
  /\ anchor' = IF c.anchor.interval = ledger_close_interval
                 THEN c.anchor
                 ELSE Fresh(c.info, ledger_close_interval)
  /\ UNCHANGED <<override, checkpoints, frames, unwinding>>

(* `at` saves the whole ledger and sets the timestamp alone. *)
AtEnter(timestamp) ==
  /\ ~unwinding
  /\ Len(frames) < MaxDepth
  /\ frames' = Append(frames, [original |-> info, anchor |-> anchor])
  /\ info' = [info EXCEPT !.timestamp = timestamp]
  /\ anchor' = Fresh(info', ledger_close_interval)
  /\ UNCHANGED <<override, checkpoints, unwinding>>

Innermost == frames[Len(frames)]

(* Mutant: only the field `at` set is put back. *)
AtExitTimestampOnly ==
  /\ frames # <<>>
  /\ info' = [info EXCEPT !.timestamp = Innermost.original.timestamp]
  /\ anchor' = Innermost.anchor
  /\ frames' = SubSeq(frames, 1, Len(frames) - 1)
  /\ UNCHANGED <<override, checkpoints, unwinding>>

(* The closure has returned, or its panic has been caught: either way the  *)
(* saved ledger is put back, and a panic goes on.                          *)
AtExit ==
  /\ frames # <<>>
  /\ info' = Innermost.original
  /\ anchor' = Innermost.anchor
  /\ frames' = SubSeq(frames, 1, Len(frames) - 1)
  /\ UNCHANGED <<override, checkpoints, unwinding>>

(* The test's own code: an assertion inside a closure fails, or a          *)
(* catch_unwind around one of its calls stops a panic.                     *)
ClosurePanics ==
  /\ ~unwinding
  /\ frames # <<>>
  /\ unwinding' = TRUE
  /\ UNCHANGED <<info, override, checkpoints, frames, anchor>>

TestCatches ==
  /\ unwinding
  /\ unwinding' = FALSE
  /\ UNCHANGED <<info, override, checkpoints, frames, anchor>>

--------------------------------------------------------------------------------
(* A new environment stands where its ledger defaults put it, at 0 without *)
(* any; the test may hold checkpoints of another environment.              *)
Init ==
  /\ info \in Origins
  /\ override = 0
  /\ anchor = Fresh(info, LEDGER_CLOSE_TIME_SECS)
  /\ checkpoints = {[info |-> i, anchor |-> Fresh(i, LEDGER_CLOSE_TIME_SECS)] :
                       i \in ForeignInfos}
  /\ frames = <<>>
  /\ unwinding = FALSE

Forward ==
  \E panics \in BOOLEAN :
    \/ \E d \in Durations : advance(d, panics)
    \/ \E count \in CalendarCounts, unit \in CalendarUnits :
         advance_calendar(count, unit, panics)
    \/ \E t \in Timestamps : warp_to(t, panics)
    \/ \E n \in LedgerCounts : advance_ledgers(n, panics)
    \/ \E target \in 0..MaxSequence : advance_to_sequence(target, panics)

Next ==
  \/ Forward
  \/ \E secs \in CloseIntervals : with_ledger_close_interval(secs)
  \/ checkpoint
  \/ \E c \in checkpoints : restore_checkpoint(c)
  \/ \E t \in Timestamps : AtEnter(t)
  \/ AtExit
  \/ ClosurePanics
  \/ TestCatches

Spec == Init /\ [][Next]_vars
--------------------------------------------------------------------------------
(* Properties *)

Anchor == [timestamp : Nat, sequence : Nat, interval : Nat \ {0}, rounded : Nat]

Saved == [info : Info, anchor : Anchor]

Frame == [original : Info, anchor : Anchor]

(* The state keeps its shape: no call takes the sequence past u32 or the   *)
(* timestamp past u64, and no environment has a zero close interval.       *)
TypeOK ==
  /\ info \in Info
  /\ override \in Nat
  /\ checkpoints \subseteq Saved
  /\ frames \in Seq(Frame)
  /\ unwinding \in BOOLEAN
  /\ anchor \in Anchor

(* The position i is in proportion with the anchor a: the ledgers closed   *)
(* since cover the time elapsed, and exceed it by less than one interval   *)
(* for every move that was rounded up.                                     *)
InProportion(i, a) ==
  LET elapsed == i.timestamp - a.timestamp
      covered == (i.sequence - a.sequence) * a.interval
  IN  /\ 0 <= elapsed
      /\ elapsed <= covered
      /\ covered <= elapsed + a.rounded * (a.interval - 1)

(* However a test mixes durations, ledger counts, targets, restores and    *)
(* nested `at` calls that return or panic, timestamp and sequence never    *)
(* drift apart by more than the rounding of its own moves.                 *)
Proportional ==
  /\ anchor.interval = ledger_close_interval
  /\ InProportion(info, anchor)

(* Advancing in two parts reaches the same time as advancing at once, at   *)
(* most one ledger later, and is refused whenever the whole is.            *)
SplitAdvance ==
  \A a, b \in {AsSecs(d) : d \in Durations} :
    LET whole == AfterSecs(info, a + b)
        parts == AfterSecs(AfterSecs(info, a), b)
    IN  /\ parts.timestamp = whole.timestamp
        /\ parts.sequence - whole.sequence \in {0, 1}
        /\ SecsFit(info, a) /\ SecsFit(AfterSecs(info, a), b)
             => SecsFit(info, a + b)

(* Ledgers, a target sequence and the seconds those ledgers take are three *)
(* ways to ask for one move: accepted together, with the same result.      *)
DirectionsAgree ==
  \A n \in LedgerCounts :
    LET secs   == n * ledger_close_interval
        target == info.sequence + n
    IN  /\ LedgersFit(info, n) <=> SecsFit(info, secs)
        /\ AfterLedgers(info, n) = AfterSecs(info, secs)
        /\ target <= MaxSequence =>
             /\ TargetFits(info, target) <=> LedgersFit(info, n)
             /\ AfterTarget(info, target) = AfterLedgers(info, n)

(* The ledger as the test sees it outside its `at` calls. *)
Outside == IF frames = <<>> THEN info ELSE frames[1].original

Promise == INSTANCE ProportionalClock WITH
             position <- Outside,
             interval <- ledger_close_interval,
             saved    <- {c.info : c \in checkpoints}

(* Seen from outside, an `at` never happened, whatever its closure did and *)
(* however deep a panic started; what is left is the proportional clock.   *)
KeepsPromise == Promise!Spec
================================================================================
