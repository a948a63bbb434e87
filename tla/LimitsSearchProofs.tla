--------------------------- MODULE LimitsSearchProofs --------------------------
(***************************************************************************)
(* What the limits command finds, for every contract, bound and timeout,   *)
(* and whatever becomes of its probes: the bracket its search keeps, the   *)
(* ceiling and the first failed value it reports, and what a job of runs   *)
(* does to its baseline.                                                   *)
(***************************************************************************)
EXTENDS LimitsSearch, WellFoundedInduction, TLAPS

USE LimitsAssumption

(* A value taken for a failed one. *)
TakenForFailed(v) == v \notin contract.ok \/ any_probe_timed_out = TRUE

(* The probe under way tries the value the search is at. *)
ChildInv ==
  child # None =>
    /\ phase \in Searching
    /\ ~Bracketed
    /\ child.value = Probed
    /\ child.status = "success" => child.value \in contract.ok
    /\ child.status = "failure" => child.value \notin contract.ok

(* Half the value tried is the last one that succeeded. *)
DoublingInv ==
  phase = "doubling" =>
    /\ low <= UPPER_BOUND
    /\ last_failed_probe = None
    /\ last_ok # None => last_ok \in contract.ok /\ low = 2 * last_ok

(* The bracket: the lower end succeeded, the upper one did not. *)
RefiningInv ==
  phase = "refining" =>
    /\ low \in contract.ok
    /\ high \in Values
    /\ low < high
    /\ TakenForFailed(high)

(* The search ends where the bracket closes, or past half the bound. *)
FoundInv ==
  phase \in {"measure", "compare", "save", "export"} =>
    /\ best \in contract.ok
    /\ last_failed_probe = None => 2 * best > UPPER_BOUND
    /\ last_failed_probe # None =>
         last_failed_probe = best + 1 /\ TakenForFailed(last_failed_probe)

(* What is saved was not found to be a regression. *)
ComparedInv ==
  phase = "save" /\ options.baseline => baseline \notin {None, Damaged} /\ ~Regressed(baseline)

Inv == TypeOK /\ ChildInv /\ DoublingInv /\ RefiningInv /\ FoundInv /\ ComparedInv

(* All of these speak of the phase they are about. *)
USE DEF Searching, Phases, Maybe

--------------------------------------------------------------------------------

(* The values a contract handles are values. *)
LEMMA ContractTyped ==
  ASSUME NEW c \in Contracts
  PROVE  c.ok \subseteq Values /\ c.cost \in [Metrics -> Nat]
OBVIOUS

(* A child that tries the middle of an open bracket tries a value inside.  *)
LEMMA MiddleInside ==
  ASSUME low \in Nat, high \in Nat, low + 1 < high
  PROVE  /\ Middle \in Nat
         /\ low < Middle
         /\ Middle < high
BY DEF Middle

(* What the search tries is a value, within its bracket. *)
LEMMA ProbedTyped ==
  ASSUME TypeOK, DoublingInv, RefiningInv, phase \in Searching, ~Bracketed
  PROVE  /\ Probed \in Values
         /\ phase = "doubling" => Probed = low
         /\ phase = "refining" => low < Probed /\ Probed < high
<1>1. CASE phase = "doubling"
  BY <1>1 DEF Probed, DoublingInv, TypeOK, Values
<1>2. CASE phase = "refining"
  <2>1. low \in Nat /\ low > 0 /\ high \in Nat /\ high <= UPPER_BOUND /\ low + 1 < high
    BY <1>2 DEF TypeOK, RefiningInv, Values, Bracketed
  <2>2. Middle \in Nat /\ low < Middle /\ Middle < high
    BY <2>1, MiddleInside
  <2> QED BY <1>2, <2>1, <2>2 DEF Probed, Values
<1> QED BY <1>1, <1>2

(* Nothing is asked of a run that has ended but its types. *)
LEMMA EndedInv ==
  ASSUME TypeOK', phase' = "ended", child' = None
  PROVE  Inv'
BY DEF Inv, ChildInv, DoublingInv, RefiningInv, FoundInv, ComparedInv

--------------------------------------------------------------------------------
(* The actions *)

(* A run begins at the value 1. *)
LEMMA StartInv ==
  ASSUME Inv, NEW c \in Contracts, NEW o \in Options, Start(c, o)
  PROVE  Inv'
<1>1. child = None /\ child' = None
  BY DEF Inv, ChildInv, Start, process
<1>2. TypeOK'
  <2>1. 1 \in 1..(2 * UPPER_BOUND)
    OBVIOUS
  <2>2. phase' \in Phases /\ exit' \in Maybe({"ok", "error", "regression"})
    BY DEF Start, End
  <2>3. /\ contract' = c /\ options' = o /\ low' = 1 /\ exported' = FALSE
        /\ high' = None /\ last_ok' = None /\ best' = None /\ last_failed_probe' = None
        /\ any_probe_timed_out' = FALSE
        /\ UNCHANGED <<child, waited, baseline>>
    BY DEF Start, process
  <2> QED BY <2>1, <2>2, <2>3 DEF Inv, TypeOK
<1>3. low' = 1 /\ last_ok' = None /\ last_failed_probe' = None
      /\ phase' \in {"doubling", "ended"}
  BY DEF Start, End
<1> QED BY <1>1, <1>2, <1>3 DEF Inv, ChildInv, DoublingInv, RefiningInv, FoundInv,
           ComparedInv

(* A probe is spawned for the value the search is at. *)
LEMMA SpawnInv ==
  ASSUME Inv, Spawn
  PROVE  Inv'
<1>1. /\ phase \in Searching /\ ~Bracketed /\ child = None
      /\ UNCHANGED <<contract, options, search, files>>
  BY DEF Spawn
<1>2. CASE End("error") /\ UNCHANGED process
  <2>1. TypeOK' /\ phase' = "ended" /\ child' = None
    BY <1>1, <1>2 DEF Inv, TypeOK, End, process, search, files
  <2> QED BY <2>1, EndedInv
<1>3. CASE /\ child' = [value |-> Probed, status |-> "running", polled |-> FALSE]
           /\ waited' = 0
           /\ UNCHANGED <<phase, exit>>
  <2>1. Probed \in Values
    BY <1>1, ProbedTyped DEF Inv
  <2>2. child' \in [value : Values, status : Statuses, polled : BOOLEAN]
    BY <1>3, <2>1 DEF Statuses
  <2>3. TypeOK'
    BY <1>1, <1>3, <2>2 DEF Inv, TypeOK, search, files
  <2>4. ChildInv'
    BY <1>1, <1>3 DEF ChildInv, Probed, Middle, Bracketed, search
  <2>5. DoublingInv' /\ RefiningInv' /\ FoundInv' /\ ComparedInv'
    BY <1>1, <1>3 DEF Inv, DoublingInv, RefiningInv, FoundInv, ComparedInv,
       TakenForFailed, search
  <2> QED BY <2>3, <2>4, <2>5 DEF Inv
<1> QED BY <1>2, <1>3 DEF Spawn

(* It exits as the contract does. *)
LEMMA ChildExitsInv ==
  ASSUME Inv, ChildExits
  PROVE  Inv'
<1>1. /\ child # None
      /\ child' = [child EXCEPT !.status =
                     IF child.value \in contract.ok THEN "success" ELSE "failure"]
      /\ UNCHANGED <<contract, options, phase, search, waited, exit, files>>
  BY DEF ChildExits
<1>2. child \in [value : Values, status : Statuses, polled : BOOLEAN]
  BY <1>1 DEF Inv, TypeOK
<1>3. /\ child' \in [value : Values, status : Statuses, polled : BOOLEAN]
      /\ child'.value = child.value
      /\ child'.status = IF child.value \in contract.ok THEN "success" ELSE "failure"
  BY <1>1, <1>2 DEF Statuses
<1>4. TypeOK'
  BY <1>1, <1>3 DEF Inv, TypeOK, search, files
<1>5. ChildInv'
  BY <1>1, <1>3 DEF Inv, ChildInv, Probed, Middle, Bracketed, search
<1>6. DoublingInv' /\ RefiningInv' /\ FoundInv' /\ ComparedInv'
  BY <1>1 DEF Inv, DoublingInv, RefiningInv, FoundInv, ComparedInv, TakenForFailed,
     search, files, Regressed, check_metric_regression
<1> QED BY <1>4, <1>5, <1>6 DEF Inv

(* A poll or a sleep that changes only how the child was last seen. *)
LEMMA PolledInv ==
  ASSUME Inv, child # None, NEW polled \in BOOLEAN,
         child' = [child EXCEPT !.polled = polled], waited' \in 0..PROBE_TIMEOUT,
         UNCHANGED <<contract, options, phase, search, exit, files>>
  PROVE  Inv'
<1>1. child \in [value : Values, status : Statuses, polled : BOOLEAN]
  BY DEF Inv, TypeOK
<1>2. /\ child' \in [value : Values, status : Statuses, polled : BOOLEAN]
      /\ child'.value = child.value /\ child'.status = child.status
  BY <1>1
<1>3. TypeOK'
  BY <1>2 DEF Inv, TypeOK, search, files
<1>4. ChildInv'
  BY <1>2 DEF Inv, ChildInv, Probed, Middle, Bracketed, search
<1>5. DoublingInv' /\ RefiningInv' /\ FoundInv' /\ ComparedInv'
  BY DEF Inv, DoublingInv, RefiningInv, FoundInv, ComparedInv, TakenForFailed,
     search, files, Regressed, check_metric_regression
<1> QED BY <1>3, <1>4, <1>5 DEF Inv

(* What the search learns from a probe that succeeded or is taken for one  *)
(* that failed.                                                            *)
LEMMA DoublingHearsInv ==
  ASSUME Inv, child # None, phase = "doubling", NEW success \in BOOLEAN, Hears(success),
         success = TRUE => child.value \in contract.ok,
         success = FALSE => child.value \notin contract.ok \/ any_probe_timed_out' = TRUE,
         any_probe_timed_out' \in {any_probe_timed_out, TRUE}
  PROVE  Inv'
<1>1. /\ child' = None /\ DoublingHears(success)
      /\ UNCHANGED <<contract, options, waited, files>>
  BY DEF Hears, RefiningHears
<1>2. /\ child.value = low /\ low \in Nat /\ low > 0 /\ low <= UPPER_BOUND
      /\ last_failed_probe = None
      /\ last_ok # None => last_ok \in contract.ok /\ low = 2 * last_ok
  BY DEF Inv, TypeOK, ChildInv, DoublingInv, Probed
<1>3. low \in Values /\ 2 * low \in 1..(2 * UPPER_BOUND)
  BY <1>2 DEF Values
<1>4. contract.ok \subseteq Values
  BY ContractTyped DEF Inv, TypeOK
<1>5. ASSUME success = TRUE, PastBound(2 * low)
      PROVE  Inv'
  <2>1. /\ last_ok' = low /\ low' = 2 * low /\ best' = low /\ phase' = "measure"
        /\ UNCHANGED <<high, last_failed_probe, exit>>
    BY <1>1, <1>5 DEF DoublingHears
  <2>2. TypeOK'
    BY <1>1, <1>3, <2>1 DEF Inv, TypeOK, files
  <2>3. best' \in contract'.ok /\ 2 * best' > UPPER_BOUND
    BY <1>1, <1>2, <1>5, <2>1 DEF PastBound
  <2> QED BY <1>1, <1>2, <2>1, <2>2, <2>3 DEF Inv, ChildInv, DoublingInv, RefiningInv,
             FoundInv, ComparedInv
<1>6. ASSUME success = TRUE, ~PastBound(2 * low)
      PROVE  Inv'
  <2>1. /\ last_ok' = low /\ low' = 2 * low
        /\ UNCHANGED <<best, phase, high, last_failed_probe, exit>>
    BY <1>1, <1>6 DEF DoublingHears
  <2>2. TypeOK'
    BY <1>1, <1>3, <2>1 DEF Inv, TypeOK, files
  <2>3. low' <= UPPER_BOUND
    BY <1>2, <1>6, <2>1 DEF PastBound
  <2>4. DoublingInv'
    BY <1>1, <1>2, <1>6, <2>1, <2>3 DEF DoublingInv
  <2> QED BY <1>1, <2>1, <2>2, <2>4 DEF Inv, ChildInv, RefiningInv, FoundInv, ComparedInv
<1>7. ASSUME success = FALSE, last_ok = None
      PROVE  Inv'
  <2>1. /\ last_failed_probe' = low /\ high' = low /\ End("error")
        /\ UNCHANGED <<low, last_ok, best>>
    BY <1>1, <1>7 DEF DoublingHears
  <2>2. TypeOK' /\ phase' = "ended"
    BY <1>1, <1>3, <2>1 DEF Inv, TypeOK, End, files
  <2> QED BY <1>1, <2>2, EndedInv
<1>8. ASSUME success = FALSE, last_ok # None
      PROVE  Inv'
  <2>1. /\ last_failed_probe' = low /\ high' = low
        /\ low' = last_ok /\ phase' = "refining"
        /\ UNCHANGED <<last_ok, best, exit>>
    BY <1>1, <1>8 DEF DoublingHears
  <2>2. last_ok \in contract.ok /\ low = 2 * last_ok /\ last_ok \in Values
    BY <1>2, <1>4, <1>8
  <2>3. last_ok \in 1..(2 * UPPER_BOUND) /\ last_ok < low
    BY <1>2, <2>2 DEF Values
  <2>4. TypeOK'
    BY <1>1, <1>3, <2>1, <2>3 DEF Inv, TypeOK, files
  <2>5. RefiningInv'
    BY <1>1, <1>2, <1>3, <1>8, <2>1, <2>2, <2>3 DEF RefiningInv, TakenForFailed
  <2> QED BY <1>1, <2>1, <2>4, <2>5 DEF Inv, ChildInv, DoublingInv, FoundInv, ComparedInv
<1> QED BY <1>5, <1>6, <1>7, <1>8

LEMMA RefiningHearsInv ==
  ASSUME Inv, child # None, phase = "refining", NEW success \in BOOLEAN, Hears(success),
         success = TRUE => child.value \in contract.ok,
         success = FALSE => child.value \notin contract.ok \/ any_probe_timed_out' = TRUE,
         any_probe_timed_out' \in {any_probe_timed_out, TRUE}
  PROVE  Inv'
<1>1. /\ child' = None
      /\ IF success THEN low' = child.value /\ UNCHANGED high
                    ELSE high' = child.value /\ UNCHANGED low
      /\ UNCHANGED <<phase, last_ok, last_failed_probe, best, exit>>
      /\ UNCHANGED <<contract, options, waited, files>>
  BY DEF Hears, RefiningHears, DoublingHears
<1>2. /\ child.value \in Values /\ low < child.value /\ child.value < high
  BY ProbedTyped DEF Inv, ChildInv
<1>3. child.value \in 1..(2 * UPPER_BOUND)
  BY <1>2 DEF Values
<1>4. TypeOK'
  BY <1>1, <1>2, <1>3 DEF Inv, TypeOK, files
<1>5. RefiningInv'
  BY <1>1, <1>2 DEF Inv, RefiningInv, TakenForFailed
<1> QED BY <1>1, <1>4, <1>5 DEF Inv, ChildInv, DoublingInv, FoundInv, ComparedInv

(* A probe is reaped, found running, or lost. *)
LEMMA PollInv ==
  ASSUME Inv, Poll
  PROVE  Inv'
<1>1. child # None /\ phase \in Searching
  BY DEF Poll
<1>2. child \in [value : Values, status : Statuses, polled : BOOLEAN]
      /\ waited \in 0..PROBE_TIMEOUT
  BY <1>1 DEF Inv, TypeOK
<1>3. CASE /\ child.status # "running"
           /\ Hears(child.status = "success")
           /\ UNCHANGED any_probe_timed_out
  <2>1. \/ child.status = "success" /\ child.value \in contract.ok
        \/ child.status = "failure" /\ child.value \notin contract.ok
    BY <1>1, <1>2, <1>3 DEF Inv, ChildInv, Statuses
  <2>2. CASE child.status = "success"
    <3>1. Hears(TRUE) /\ child.value \in contract.ok
      BY <1>3, <2>1, <2>2
    <3> QED BY <1>1, <1>3, <3>1, DoublingHearsInv, RefiningHearsInv
  <2>3. CASE child.status = "failure"
    <3>1. Hears(FALSE) /\ child.value \notin contract.ok
      BY <1>3, <2>1, <2>3
    <3> QED BY <1>1, <1>3, <3>1, DoublingHearsInv, RefiningHearsInv
  <2> QED BY <2>1, <2>2, <2>3
<1>4. CASE /\ child' = [child EXCEPT !.polled = TRUE]
           /\ UNCHANGED <<contract, options, phase, search, waited, exit, files>>
  BY <1>1, <1>2, <1>4, PolledInv
<1>5. CASE /\ End("error")
           /\ child' = None
           /\ UNCHANGED <<contract, options, search, waited, files>>
  <2>1. TypeOK' /\ phase' = "ended"
    BY <1>5 DEF Inv, TypeOK, End, search, files
  <2> QED BY <1>5, <2>1, EndedInv
<1> QED BY <1>3, <1>4, <1>5 DEF Poll

(* One that takes too long is taken for one that failed, and noted. *)
LEMMA DeadlineInv ==
  ASSUME Inv, Deadline
  PROVE  Inv'
<1>1. child # None /\ phase \in Searching
  BY DEF Deadline
<1>2. CASE Hears(FALSE) /\ any_probe_timed_out' = TRUE
  BY <1>1, <1>2, DoublingHearsInv, RefiningHearsInv
<1>3. CASE /\ waited < PROBE_TIMEOUT
           /\ waited' = waited + 1
           /\ child' = [child EXCEPT !.polled = FALSE]
           /\ UNCHANGED <<contract, options, phase, search, exit, files>>
  <2>1. waited' \in 0..PROBE_TIMEOUT
    BY <1>3 DEF Inv, TypeOK
  <2> QED BY <1>1, <1>3, <2>1, PolledInv
<1> QED BY <1>2, <1>3 DEF Deadline

(* The bracket closes on two neighbours. *)
LEMMA RefinedInv ==
  ASSUME Inv, Refined
  PROVE  Inv'
<1>1. /\ phase = "refining" /\ low + 1 >= high /\ child = None
      /\ best' = low /\ last_failed_probe' = high /\ phase' = "measure"
      /\ UNCHANGED <<contract, options, low, high, last_ok, any_probe_timed_out,
                     process, exit, files>>
  BY DEF Refined, Bracketed
<1>2. /\ low \in contract.ok /\ high \in Values /\ low < high /\ TakenForFailed(high)
  BY <1>1 DEF Inv, RefiningInv
<1>3. low \in Values
  BY <1>2, ContractTyped DEF Inv, TypeOK
<1>4. high = low + 1 /\ high # None
  BY <1>1, <1>2, <1>3 DEF Values
<1>5. TypeOK'
  BY <1>1, <1>2, <1>3 DEF Inv, TypeOK, process, files
<1>6. FoundInv'
  BY <1>1, <1>2, <1>4 DEF FoundInv, TakenForFailed
<1> QED BY <1>1, <1>5, <1>6 DEF Inv, ChildInv, DoublingInv, RefiningInv, ComparedInv,
           process

(* What was found stays found until the run ends. *)
LEMMA FoundStays ==
  ASSUME Inv, phase \in {"measure", "compare", "save", "export"},
         phase' \in {"measure", "compare", "save", "export", "ended"},
         UNCHANGED <<contract, options, search, process>>,
         exit' \in {exit, "ok", "error", "regression"},
         baseline' \in Maybe([best : Values, cost : [Metrics -> Nat]]) \cup {Damaged},
         exported' \in BOOLEAN,
         ComparedInv'
  PROVE  Inv'
<1>1. child = None /\ child' = None
  BY DEF Inv, ChildInv, process
<1>2. TypeOK'
  BY DEF Inv, TypeOK, search, process
<1>3. FoundInv'
  BY DEF Inv, FoundInv, TakenForFailed, search
<1> QED BY <1>1, <1>2, <1>3 DEF Inv, ChildInv, DoublingInv, RefiningInv

(* The result of a run that has one is a baseline. *)
LEMMA ResultTyped ==
  ASSUME Inv, phase \in {"measure", "compare", "save", "export"}
  PROVE  /\ best \in Values
         /\ Result \in [best : Values, cost : [Metrics -> Nat]]
BY ContractTyped DEF Inv, TypeOK, FoundInv, Result

(* Nothing past the search changes what was found. *)
LEMMA ReportInv ==
  ASSUME Inv, Measure \/ compare_to_baseline \/ write_baseline \/ export_results
  PROVE  Inv'
<1>1. /\ baseline \in Maybe([best : Values, cost : [Metrics -> Nat]]) \cup {Damaged}
      /\ exported \in BOOLEAN /\ options \in Options
  BY DEF Inv, TypeOK
<1>2. CASE Measure
  BY <1>1, <1>2, FoundStays DEF Measure, End, ComparedInv, files
<1>3. CASE compare_to_baseline
  <2>1. ComparedInv'
    BY <1>3 DEF compare_to_baseline, End, ComparedInv, files, search, Regressed,
                check_metric_regression
  <2> QED BY <1>1, <1>3, <2>1, FoundStays DEF compare_to_baseline, End, files
<1>4. CASE write_baseline
  <2>1. Result \in [best : Values, cost : [Metrics -> Nat]]
    BY <1>4, ResultTyped DEF write_baseline
  <2>2. baseline' \in Maybe([best : Values, cost : [Metrics -> Nat]]) \cup {Damaged}
    BY <1>1, <1>4, <2>1 DEF write_baseline
  <2> QED BY <1>1, <1>4, <2>2, FoundStays DEF write_baseline, End, ComparedInv
<1>5. CASE export_results
  <2>1. exported' \in BOOLEAN
    BY <1>1, <1>5 DEF export_results
  <2> QED BY <1>1, <1>5, <2>1, FoundStays DEF export_results, End, ComparedInv
<1> QED BY <1>2, <1>3, <1>4, <1>5

--------------------------------------------------------------------------------

(* Before the first run there is nothing to speak of. *)
LEMMA InitInv == Init => Inv
<1> SUFFICES ASSUME Init PROVE Inv
  OBVIOUS
<1>1. 1 \in 1..(2 * UPPER_BOUND) /\ 0 \in 0..PROBE_TIMEOUT
  OBVIOUS
<1>2. TypeOK
  BY <1>1 DEF Init, TypeOK
<1> QED BY <1>2 DEF Init, Inv, ChildInv, DoublingInv, RefiningInv, FoundInv, ComparedInv

(* The invariant is inductive. *)
LEMMA NextInv ==
  ASSUME Inv, [Next]_vars
  PROVE  Inv'
<1>1. CASE UNCHANGED vars
  BY <1>1 DEF vars, search, process, files, Inv, TypeOK, ChildInv, DoublingInv,
     RefiningInv, FoundInv, ComparedInv, Probed, Middle, Bracketed, TakenForFailed,
     Regressed, check_metric_regression
<1> QED BY <1>1, StartInv, SpawnInv, ChildExitsInv, PollInv, DeadlineInv, RefinedInv,
           ReportInv DEF Next, Command

(* It therefore holds throughout, whether or not the command goes on. *)
LEMMA AlwaysInv == Spec => []Inv
<1>1. Inv /\ [Next]_vars => Inv'
  BY NextInv
<1> QED BY <1>1, InitInv, PTL DEF Spec

(* The types hold; in particular no value past the bound is ever probed,   *)
(* and the middle of the bracket is no overflow.                           *)
THEOREM TypeCorrect == Spec => []TypeOK
<1>1. Inv => TypeOK
  BY DEF Inv
<1> QED BY <1>1, AlwaysInv, PTL

(* The value measured in-process is one a probe succeeded on, for every    *)
(* contract, monotone or not.                                              *)
THEOREM MeasuredKnownGood == Spec => []MeasuresKnownGood
<1>1. Inv => MeasuresKnownGood
  BY DEF Inv, FoundInv, MeasuresKnownGood
<1> QED BY <1>1, AlwaysInv, PTL

(* The first failed value reported is the one after the ceiling, and it    *)
(* failed or took too long.                                                *)
THEOREM FirstFailureNext == Spec => []FirstFailureIsNext
<1>1. Inv => FirstFailureIsNext
  BY DEF Inv, FoundInv, TakenForFailed, FirstFailureIsNext
<1> QED BY <1>1, AlwaysInv, PTL

(* Over the runs of a job the ceiling on file only rises, whatever the     *)
(* versions of the contract and the flags of each run.                     *)
THEOREM BaselineRises == Spec => BaselineNeverDrops
<1>1. ASSUME Inv, [Next]_vars, options.baseline, baseline' # baseline
      PROVE  /\ baseline \notin {None, Damaged}
             /\ baseline' = Damaged \/ baseline'.best >= baseline.best
  <2>1. write_baseline
    BY <1>1 DEF Next, Command, Start, ChildExits, Spawn, Poll, Hears, Deadline, Refined,
       Measure, compare_to_baseline, export_results, vars, files
  <2>2. baseline \notin {None, Damaged} /\ ~Regressed(baseline)
    BY <1>1, <2>1 DEF write_baseline, Inv, ComparedInv
  <2>3. baseline.best \in Values /\ best \in Values
    BY <1>1, <2>1, <2>2, ResultTyped DEF Inv, TypeOK, write_baseline
  <2>4. best >= baseline.best
    BY <2>2, <2>3 DEF Regressed, Values
  <2>5. baseline' = Result \/ baseline' = Damaged
    BY <1>1, <2>1 DEF write_baseline
  <2> QED BY <2>2, <2>4, <2>5 DEF Result
<1>2. Inv /\ [Next]_vars =>
        [options.baseline =>
           /\ baseline \notin {None, Damaged}
           /\ baseline' = Damaged \/ baseline'.best >= baseline.best]_baseline
  BY <1>1
<1> QED BY <1>2, AlwaysInv, PTL DEF Spec, BaselineNeverDrops

--------------------------------------------------------------------------------
(* The ceiling *)

(* The least-number principle. *)
LEMMA LeastNumber ==
  ASSUME NEW S \in SUBSET Nat, S # {}
  PROVE  \E m \in S : \A n \in S : m <= n
<1>1. IsWellFoundedOn(OpToRel(<, Nat), Nat)
  BY NatLessThanWellFounded, Zenon
<1>2. PICK m \in S : \A n \in S : ~(<<n, m>> \in OpToRel(<, Nat))
  BY <1>1, WFMin, Zenon
<1>3. \A n \in S : ~(n < m)
  BY <1>2 DEF OpToRel
<1> QED BY <1>3

(* The values a contract handles up to v, and above it none. *)
IsCeiling(c, v) == \A w \in Values : w \in c.ok <=> w <= v

(* A contract that handles all values below any it handles has a ceiling:  *)
(* the least bound on what it handles.                                     *)
LEMMA CeilingExists ==
  ASSUME NEW c \in Contracts, Monotone(c)
  PROVE  \E v \in {0} \cup Values : IsCeiling(c, v)
<1> DEFINE Bounds == {v \in Nat : \A w \in c.ok : w <= v}
<1>1. c.ok \subseteq Values
  BY ContractTyped
<1>2. UPPER_BOUND \in Bounds
  BY <1>1 DEF Values
<1>3. PICK v \in Bounds : \A n \in Bounds : v <= n
  <2>1. Bounds \in SUBSET Nat /\ Bounds # {}
    BY <1>2
  <2> HIDE DEF Bounds
  <2> QED BY <2>1, LeastNumber
<1>4. v \in Nat /\ v <= UPPER_BOUND
  BY <1>2, <1>3
<1>5. v \in {0} \cup Values
  BY <1>4 DEF Values
<1>6. CASE v = 0
  BY <1>1, <1>3, <1>5, <1>6 DEF IsCeiling, Values
<1>7. CASE v # 0
  <2>1. v - 1 \in Nat /\ ~(v <= v - 1)
    BY <1>4, <1>7
  <2>2. v - 1 \notin Bounds
    BY <1>3, <2>1
  <2>3. PICK w \in c.ok : ~(w <= v - 1)
    BY <2>1, <2>2
  <2>4. w \in Nat /\ w <= v
    BY <1>1, <1>3 DEF Values
  <2>5. v \in c.ok
    BY <1>4, <2>3, <2>4
  <2>6. 1..v \subseteq c.ok
    BY <2>5 DEF Monotone
  <2>7. ASSUME NEW u \in Values
        PROVE  u \in c.ok <=> u <= v
    <3>1. u <= v => u \in 1..v
      BY <1>4 DEF Values
    <3> QED BY <1>3, <2>6, <3>1
  <2> QED BY <1>5, <2>7 DEF IsCeiling
<1> QED BY <1>6, <1>7

(* It has just one. *)
LEMMA CeilingUnique ==
  ASSUME NEW c, NEW u \in {0} \cup Values, NEW v \in {0} \cup Values,
         IsCeiling(c, u), IsCeiling(c, v)
  PROVE  u = v
<1>1. u \in Nat /\ v \in Nat
  BY DEF Values
<1>2. ASSUME NEW x \in {0} \cup Values, NEW y \in {0} \cup Values,
             IsCeiling(c, x), IsCeiling(c, y)
      PROVE  x <= y
  <2>1. x \in Nat /\ y \in Nat
    BY DEF Values
  <2>2. CASE x = 0
    BY <2>1, <2>2
  <2>3. CASE x \in Values
    <3>1. x <= x
      BY <2>1
    <3> QED BY <1>2, <2>3, <3>1 DEF IsCeiling
  <2> QED BY <2>2, <2>3
<1> QED BY <1>1, <1>2

LEMMA CeilingIs ==
  ASSUME NEW c \in Contracts, Monotone(c)
  PROVE  /\ Ceiling(c) \in {0} \cup Values
         /\ IsCeiling(c, Ceiling(c))
         /\ \A v \in {0} \cup Values : IsCeiling(c, v) => v = Ceiling(c)
<1>1. Ceiling(c) = CHOOSE v \in {0} \cup Values : IsCeiling(c, v)
  BY DEF Ceiling, IsCeiling
<1>2. Ceiling(c) \in {0} \cup Values /\ IsCeiling(c, Ceiling(c))
  BY <1>1, CeilingExists
<1> QED BY <1>2, CeilingUnique

(* What doubling 1 comes to, up to the bound: the bound is a power of 2,   *)
(* as 1 << 24 is.                                                          *)
IsDoublings(D) ==
  /\ D \subseteq Values
  /\ 1 \in D
  /\ \A d \in D : d = UPPER_BOUND \/ 2 * d \in D

BoundIsDoubled == \E D \in SUBSET Values : IsDoublings(D)

(* The search doubles up to the bound itself. *)
Doubles(D) ==
  /\ phase = "doubling" => low \in D
  /\ phase \in {"measure", "compare", "save", "export"} /\ last_failed_probe = None =>
       best \in D

LEMMA HearsDoubles ==
  ASSUME NEW D, IsDoublings(D), Inv, Doubles(D), phase \in Searching, NEW success,
         Hears(success)
  PROVE  Doubles(D)'
<1>1. CASE RefiningHears(success)
  BY <1>1 DEF RefiningHears, Doubles
<1>2. CASE DoublingHears(success)
  <2>1. phase = "doubling" /\ low \in D /\ low \in Nat /\ last_failed_probe = None
    BY <1>2 DEF DoublingHears, Doubles, Inv, DoublingInv, TypeOK
  <2>2. low # UPPER_BOUND => 2 * low \in D
    BY <2>1 DEF IsDoublings
  <2>3. CASE success
    <3>1. CASE PastBound(2 * low)
      BY <1>2, <2>1, <2>3, <3>1 DEF DoublingHears, Doubles
    <3>2. CASE ~PastBound(2 * low)
      <4>1. low # UPPER_BOUND
        BY <2>1, <3>2 DEF PastBound
      <4> QED BY <1>2, <2>1, <2>2, <2>3, <3>2, <4>1 DEF DoublingHears, Doubles
    <3> QED BY <3>1, <3>2
  <2>4. CASE ~success
    BY <1>2, <2>1, <2>4 DEF DoublingHears, Doubles, End
  <2> QED BY <2>3, <2>4
<1> QED BY <1>1, <1>2 DEF Hears

LEMMA AlwaysDoubles ==
  ASSUME NEW D, IsDoublings(D)
  PROVE  Spec => []Doubles(D)
<1>1. Init => Doubles(D)
  BY DEF Init, Doubles
<1>2. ASSUME Inv, Doubles(D), [Next]_vars
      PROVE  Doubles(D)'
  <2>1. CASE UNCHANGED vars
    BY <1>2, <2>1 DEF vars, search, Doubles
  <2>2. ASSUME NEW c \in Contracts, NEW o \in Options, Start(c, o)
        PROVE  Doubles(D)'
    BY <2>2 DEF Start, End, Doubles, IsDoublings
  <2>3. CASE ChildExits \/ Spawn
    BY <1>2, <2>3 DEF ChildExits, Spawn, End, Doubles, search
  <2>4. CASE Poll
    BY <1>2, <2>4, HearsDoubles DEF Poll, End, Doubles, search
  <2>5. CASE Deadline
    BY <1>2, <2>5, HearsDoubles DEF Deadline, Doubles, search
  <2>6. CASE Refined
    <3>1. high \in Values /\ last_failed_probe' = high /\ phase' = "measure"
      BY <1>2, <2>6 DEF Refined, Bracketed, Inv, RefiningInv
    <3>2. last_failed_probe' # None
      BY <3>1 DEF Values
    <3> QED BY <3>1, <3>2 DEF Doubles
  <2>7. CASE Measure \/ compare_to_baseline \/ write_baseline \/ export_results
    BY <1>2, <2>7 DEF Measure, compare_to_baseline, write_baseline, export_results, End,
       Doubles, search
  <2> QED BY <1>2, <2>1, <2>2, <2>3, <2>4, <2>5, <2>6, <2>7 DEF Next, Command
<1>3. Inv /\ Doubles(D) /\ [Next]_vars => Doubles(D)'
  BY <1>2
<1> QED BY <1>1, <1>3, AlwaysInv, PTL DEF Spec

(* What the bracket says of the ceiling of a contract that has one. *)
LEMMA CeilingFound ==
  ASSUME Inv, NEW D, IsDoublings(D), Doubles(D)
  PROVE  CeilingIsTrue
<1>1. SUFFICES ASSUME phase \in {"measure", "compare", "save", "export"},
                      Monotone(contract)
               PROVE  /\ best <= Ceiling(contract)
                      /\ best = Ceiling(contract) \/ any_probe_timed_out = TRUE
  BY DEF CeilingIsTrue
<1>2. /\ contract \in Contracts /\ contract.ok \subseteq Values
      /\ best \in contract.ok /\ best \in Values
  BY <1>1, ContractTyped DEF Inv, TypeOK, FoundInv
<1>3. /\ Ceiling(contract) \in {0} \cup Values
      /\ IsCeiling(contract, Ceiling(contract))
      /\ \A v \in {0} \cup Values : IsCeiling(contract, v) => v = Ceiling(contract)
  BY <1>1, <1>2, CeilingIs
<1>4. best <= Ceiling(contract)
  BY <1>2, <1>3 DEF IsCeiling
<1>5. 1..best \subseteq contract.ok
  BY <1>1, <1>2 DEF Monotone
<1>6. ASSUME NEW w \in Values, w <= best
      PROVE  w \in contract.ok
  <2>1. w \in 1..best
    BY <1>2, <1>6 DEF Values
  <2> QED BY <1>5, <2>1
<1>7. CASE last_failed_probe = None
  <2>1. best \in D /\ 2 * best > UPPER_BOUND
    BY <1>1, <1>7 DEF Doubles, Inv, FoundInv
  <2>2. 2 * best \notin D
    BY <1>2, <2>1 DEF IsDoublings, Values
  <2>3. best = UPPER_BOUND
    BY <2>1, <2>2 DEF IsDoublings
  <2>4. \A w \in Values : w <= best
    BY <2>3 DEF Values
  <2>5. IsCeiling(contract, best)
    BY <1>6, <2>4 DEF IsCeiling
  <2> QED BY <1>2, <1>3, <1>4, <2>5
<1>8. CASE last_failed_probe # None /\ any_probe_timed_out # TRUE
  <2>1. best + 1 \notin contract.ok
    BY <1>1, <1>8 DEF Inv, FoundInv, TakenForFailed
  <2>2. ASSUME NEW w \in Values, w \in contract.ok, ~(w <= best)
        PROVE  FALSE
    <3>1. best + 1 \in 1..w
      BY <1>2, <2>2 DEF Values
    <3>2. 1..w \subseteq contract.ok
      BY <1>1, <2>2 DEF Monotone
    <3> QED BY <2>1, <3>1, <3>2
  <2>3. IsCeiling(contract, best)
    BY <1>6, <2>2 DEF IsCeiling
  <2> QED BY <1>2, <1>3, <1>4, <2>3
<1> QED BY <1>4, <1>7, <1>8

(* The ceiling reported of a monotone contract is its true one, whatever   *)
(* the bound that is a power of 2; it falls short only if a probe was      *)
(* killed, and then the run says so.                                       *)
THEOREM CeilingTrue ==
  ASSUME BoundIsDoubled
  PROVE  Spec => []CeilingIsTrue
<1>1. PICK D \in SUBSET Values : IsDoublings(D)
  BY DEF BoundIsDoubled
<1>2. Spec => []Doubles(D)
  BY <1>1, AlwaysDoubles
<1>3. Inv /\ Doubles(D) => CeilingIsTrue
  BY <1>1, CeilingFound
<1> QED BY <1>2, <1>3, AlwaysInv, PTL
================================================================================
