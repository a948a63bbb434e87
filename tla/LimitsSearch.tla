------------------------------ MODULE LimitsSearch -----------------------------
(***************************************************************************)
(* `soroban-testkit limits`: crates/cli/src/commands/limits.rs.            *)
(*                                                                         *)
(* The command looks for the largest ramp value a contract handles.  Each  *)
(* value is tried in a child process, which is polled and killed when it   *)
(* takes too long; the values double until one fails, and a binary search  *)
(* closes in.  The ceiling found is measured in-process, compared with the *)
(* baseline file of an earlier run, and saved.  The runs of a CI job share *)
(* that file, and the contract changes from one to the next.               *)
(***************************************************************************)
EXTENDS Integers

CONSTANTS
  Contracts,      \* versions of the contract: [ok, hangs, cost], see below
  Options,        \* [baseline, save_baseline, export: BOOLEAN, tolerance]
  UPPER_BOUND,    \* where doubling stops
  PROBE_TIMEOUT,  \* --probe-timeout, in sleeps between two polls
  None,
  Damaged         \* what a write that failed half-way leaves of a file

Values == 1..UPPER_BOUND

Metrics == {"instructions", "memory_bytes"}

(* ok: the values the contract handles.  hangs: those on which it never    *)
(* returns.  cost: what its highest successful call takes.                 *)
ASSUME LimitsAssumption ==
  /\ UPPER_BOUND \in Nat \ {0}
  /\ PROBE_TIMEOUT \in Nat
  /\ Contracts \subseteq [ok : SUBSET Values, hangs : SUBSET Values,
                          cost : [Metrics -> Nat]]
  /\ Options \subseteq [baseline : BOOLEAN, save_baseline : BOOLEAN,
                        export : BOOLEAN, tolerance : Nat]
  /\ None \notin Int

VARIABLES
  contract,             \* the version under test
  options,              \* the flags of this run
  phase,                \* where run() is
  low, high,            \* the doubling value, then the bracket of the search
  last_ok,              \* the last value that succeeded while doubling
  last_failed_probe,
  any_probe_timed_out,
  child,                \* the probe process: the value it tries, its status
  waited,               \* sleeps since it was spawned
  best,                 \* the ceiling found
  exit,                 \* how the last run ended
  baseline,             \* the baseline file: what it holds, None or Damaged
  exported              \* this run has exported its result

search == <<low, high, last_ok, last_failed_probe, any_probe_timed_out, best>>
process == <<child, waited>>
files == <<baseline, exported>>
vars == <<contract, options, phase, search, process, exit, files>>

Statuses == {"running", "success", "failure"}

Result == [best |-> best, cost |-> contract.cost]

End(how) ==
  /\ phase' = "ended"
  /\ exit' = how

--------------------------------------------------------------------------------
(* A run begins *)

(* A configuration error is found before any probe is spawned. *)
Start(c, o) ==
  /\ phase = "ended"
  /\ contract' = c
  /\ options' = o
  /\ \/ phase' = "doubling" /\ exit' = None
     \/ End("error")
  /\ low' = 1 /\ high' = None /\ last_ok' = None /\ best' = None
  /\ last_failed_probe' = None /\ any_probe_timed_out' = FALSE
  /\ exported' = FALSE
  /\ UNCHANGED <<process, baseline>>

--------------------------------------------------------------------------------
(* A probe *)

Searching == {"doubling", "refining"}

Middle == low + (high - low) \div 2

Probed == IF phase = "doubling" THEN low ELSE Middle

(* Mutant: it stops with a value left between the two. *)
BracketedEarly == phase = "refining" /\ low + 2 >= high

(* while low + 1 < high, of refine_upper_bound. *)
Bracketed == phase = "refining" /\ low + 1 >= high

Spawn ==
  /\ phase \in Searching
  /\ child = None
  /\ ~Bracketed
  /\ \/ /\ child' = [value |-> Probed, status |-> "running", polled |-> FALSE]
        /\ waited' = 0
        /\ UNCHANGED <<phase, exit>>
     \/ End("error") /\ UNCHANGED process
  /\ UNCHANGED <<contract, options, search, files>>

(* The contract handles the value, or the child panics or aborts.  On a    *)
(* value it hangs on it never exits; on any other it may be late.          *)
ChildExits ==
  /\ child # None
  /\ child.status = "running"
  /\ child.value \notin contract.hangs
  /\ child' = [child EXCEPT !.status =
                 IF child.value \in contract.ok THEN "success" ELSE "failure"]
  /\ UNCHANGED <<contract, options, phase, search, waited, exit, files>>

(* Mutant: one doubling too many. *)
PastBoundLate(v) == v > 2 * UPPER_BOUND

PastBound(v) == v > UPPER_BOUND

(* Doubling: the value succeeded, and the next is tried unless it is past  *)
(* the bound; or it failed, and is the upper end of the search.            *)
DoublingHears(success) ==
  /\ phase = "doubling"
  /\ IF success
       THEN /\ last_ok' = low
            /\ low' = 2 * low
            /\ IF PastBound(2 * low)
                 THEN best' = low /\ phase' = "measure"
                 ELSE UNCHANGED <<best, phase>>
            /\ UNCHANGED <<high, last_failed_probe, exit>>
       ELSE /\ last_failed_probe' = low
            /\ high' = low
            /\ IF last_ok = None
                 THEN End("error") /\ UNCHANGED low
                 ELSE low' = last_ok /\ phase' = "refining" /\ UNCHANGED exit
            /\ UNCHANGED <<last_ok, best>>

RefiningHears(success) ==
  /\ phase = "refining"
  /\ IF success THEN low' = child.value /\ UNCHANGED high
                ELSE high' = child.value /\ UNCHANGED low
  /\ UNCHANGED <<phase, last_ok, last_failed_probe, best, exit>>

Hears(success) ==
  /\ child' = None
  /\ DoublingHears(success) \/ RefiningHears(success)
  /\ UNCHANGED <<contract, options, waited, files>>

(* try_wait: the child is reaped, or found running, or the poll fails, and *)
(* the run with it; nobody waits for that child any more.                  *)
Poll ==
  /\ child # None
  /\ phase \in Searching
  /\ ~child.polled
  /\ \/ /\ child.status # "running"
        /\ Hears(child.status = "success")
        /\ UNCHANGED any_probe_timed_out
     \/ /\ child.status = "running"
        /\ child' = [child EXCEPT !.polled = TRUE]
        /\ UNCHANGED <<contract, options, phase, search, waited, exit, files>>
     \/ /\ End("error")
        /\ child' = None
        /\ UNCHANGED <<contract, options, search, waited, files>>

(* Mutant: it never gives up. *)
DeadlineNeverKills ==
  /\ child # None
  /\ phase \in Searching
  /\ child.polled
  /\ child' = [child EXCEPT !.polled = FALSE]
  /\ UNCHANGED <<contract, options, phase, search, waited, exit, files>>

(* Mutant: nobody is told. *)
DeadlineUnflagged ==
  /\ child # None
  /\ phase \in Searching
  /\ child.polled
  /\ \/ /\ waited >= PROBE_TIMEOUT
        /\ Hears(FALSE)
        /\ UNCHANGED any_probe_timed_out
     \/ /\ waited < PROBE_TIMEOUT
        /\ waited' = waited + 1
        /\ child' = [child EXCEPT !.polled = FALSE]
        /\ UNCHANGED <<contract, options, phase, search, exit, files>>

(* Past the deadline the child is killed, also one that has exited since   *)
(* the poll: either way it counts as a failure.                            *)
Deadline ==
  /\ child # None
  /\ phase \in Searching
  /\ child.polled
  /\ \/ /\ waited >= PROBE_TIMEOUT
        /\ Hears(FALSE)
        /\ any_probe_timed_out' = TRUE
     \/ /\ waited < PROBE_TIMEOUT
        /\ waited' = waited + 1
        /\ child' = [child EXCEPT !.polled = FALSE]
        /\ UNCHANGED <<contract, options, phase, search, exit, files>>

(* Mutant: the ends of the bracket swapped. *)
RefinedSwapped ==
  /\ Bracketed
  /\ child = None
  /\ best' = high
  /\ last_failed_probe' = low
  /\ phase' = "measure"
  /\ UNCHANGED <<contract, options, low, high, last_ok, any_probe_timed_out,
                 process, exit, files>>

(* refine_upper_bound returns. *)
Refined ==
  /\ Bracketed
  /\ child = None
  /\ best' = low
  /\ last_failed_probe' = high
  /\ phase' = "measure"
  /\ UNCHANGED <<contract, options, low, high, last_ok, any_probe_timed_out,
                 process, exit, files>>

--------------------------------------------------------------------------------
(* The result *)

(* The call is made in-process, where a failure may abort the command. *)
Measure ==
  /\ phase = "measure"
  /\ IF best \in contract.ok
       THEN phase' = "compare" /\ UNCHANGED exit
       ELSE End("error")
  /\ UNCHANGED <<contract, options, search, process, files>>

(* check_metric_regression: growth beyond the tolerance, in percent. *)
check_metric_regression(old, new) ==
  /\ new > old
  /\ 100 * (new - old) > options.tolerance * (IF old = 0 THEN 1 ELSE old)

Regressed(old) ==
  \/ best < old.best
  \/ \E m \in Metrics : check_metric_regression(old.cost[m], contract.cost[m])

(* Mutant: the new baseline is saved before it is compared. *)
compare_to_baseline_saved_first ==
  LET old == IF options.save_baseline THEN Result ELSE baseline
  IN  /\ phase = "compare"
      /\ baseline' = old
      /\ IF ~options.baseline
           THEN phase' = "save" /\ UNCHANGED exit
         ELSE IF old \in {None, Damaged}
           THEN End("error")
         ELSE IF Regressed(old)
           THEN End("regression")
           ELSE phase' = "save" /\ UNCHANGED exit
      /\ UNCHANGED <<contract, options, search, process, exported>>

(* A file that is missing or cannot be parsed is an error, and so is a     *)
(* regression: either ends the run at once.                                *)
compare_to_baseline ==
  /\ phase = "compare"
  /\ IF ~options.baseline
       THEN phase' = "save" /\ UNCHANGED exit
     ELSE IF baseline \in {None, Damaged}
       THEN End("error")
     ELSE IF Regressed(baseline)
       THEN End("regression")
       ELSE phase' = "save" /\ UNCHANGED exit
  /\ UNCHANGED <<contract, options, search, process, files>>

(* fs::write empties the file before it writes: an error may come before   *)
(* or after that.                                                          *)
write_baseline ==
  /\ phase = "save"
  /\ \/ /\ options.save_baseline
        /\ baseline' = Result
        /\ phase' = "export" /\ UNCHANGED exit
     \/ /\ ~options.save_baseline
        /\ phase' = "export" /\ UNCHANGED <<exit, baseline>>
     \/ /\ options.save_baseline
        /\ baseline' \in {baseline, Damaged}
        /\ End("error")
  /\ UNCHANGED <<contract, options, search, process, exported>>

export_results ==
  /\ phase = "export"
  /\ \/ exported' = options.export /\ End("ok")
     \/ options.export /\ End("error") /\ UNCHANGED exported
  /\ UNCHANGED <<contract, options, search, process, baseline>>

--------------------------------------------------------------------------------

Init ==
  /\ contract \in Contracts
  /\ options \in Options
  /\ phase = "ended"
  /\ low = 1 /\ high = None /\ last_ok = None /\ best = None
  /\ last_failed_probe = None /\ any_probe_timed_out = FALSE
  /\ child = None /\ waited = 0
  /\ exit = None
  /\ baseline = None /\ exported = FALSE

(* What the command itself does once it has been started. *)
Command == Spawn \/ Poll \/ Deadline \/ Refined \/ Measure
           \/ compare_to_baseline \/ write_baseline \/ export_results

Next ==
  \/ \E c \in Contracts, o \in Options : Start(c, o)
  \/ ChildExits
  \/ Command

(* The command goes on as long as it can; nothing makes a child exit, and  *)
(* nobody has to start another run.                                        *)
Spec == Init /\ [][Next]_vars /\ WF_vars(Command)

--------------------------------------------------------------------------------
(* Properties *)

Maybe(set) == set \cup {None}

Phases == {"doubling", "refining", "measure", "compare", "save", "export", "ended"}

(* Types; in particular no value past the bound is ever probed. *)
TypeOK ==
  /\ contract \in Contracts /\ options \in Options /\ phase \in Phases
  /\ low \in 1..(2 * UPPER_BOUND)
  /\ high \in Maybe(Values) /\ last_ok \in Maybe(Values)
  /\ last_failed_probe \in Maybe(Values) /\ any_probe_timed_out \in BOOLEAN
  /\ child \in Maybe([value : Values, status : Statuses, polled : BOOLEAN])
  /\ waited \in 0..PROBE_TIMEOUT
  /\ best \in Maybe(Values)
  /\ exit \in Maybe({"ok", "error", "regression"})
  /\ baseline \in Maybe([best : Values, cost : [Metrics -> Nat]]) \cup {Damaged}
  /\ exported \in BOOLEAN

(* The value measured in-process, where nothing would contain an abort, is *)
(* one the contract handles, even if it fails below a value that succeeds. *)
MeasuresKnownGood ==
  phase = "measure" => best \in contract.ok

(* The contract handles every value up to some ceiling and none above. *)
Monotone(c) == \A v \in c.ok : 1..v \subseteq c.ok

Ceiling(c) == CHOOSE v \in {0} \cup Values : \A w \in Values : w \in c.ok <=> w <= v

(* The ceiling reported is the true one (or the bound of the search, if it *)
(* is a power of two the doubling stops on); it falls short only in a run  *)
(* that says that a probe was killed.                                      *)
CeilingIsTrue ==
  phase \in {"measure", "compare", "save", "export"} /\ Monotone(contract) =>
    /\ best <= Ceiling(contract)
    /\ best = Ceiling(contract) \/ any_probe_timed_out

(* What it gives as the first failed value is the next one, and did fail.  *)
FirstFailureIsNext ==
  phase \in {"compare", "save", "export"} /\ last_failed_probe # None =>
    /\ last_failed_probe = best + 1
    /\ last_failed_probe \notin contract.ok \/ any_probe_timed_out

(* Whatever the contract does, and whatever becomes of the probes, a run   *)
(* that was started ends: a contract that hangs does not hang the command. *)
RunEnds == phase # "ended" ~> phase = "ended"

(* A baseline that a run was compared with is not replaced by a lower one: *)
(* over the runs of a CI job the ceiling on file only rises, or the file   *)
(* is lost to a failed write, which no later comparison takes for a pass.  *)
BaselineNeverDrops ==
  [][options.baseline =>
       /\ baseline \notin {None, Damaged}
       /\ baseline' = Damaged \/ baseline'.best >= baseline.best]_baseline
================================================================================
