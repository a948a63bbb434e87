------------------------------ MODULE TtlRecipes -------------------------------
(***************************************************************************)
(* The TTL recipes of crates/testkit/src/ttl/expiry.rs.                    *)
(*                                                                         *)
(* A recipe reads an entry's TTL, moves the ledger to a point it computes  *)
(* from that number, runs the test's closure there, and judges what it     *)
(* finds afterwards by the number it read before.  In between the closure  *)
(* calls contracts, which write, extend, remove or restore entries, and    *)
(* may move the ledger itself.                                             *)
(***************************************************************************)
EXTENDS ContractStorage, FiniteSets

CONSTANTS
  LedgerCounts,  \* arguments of advance_ledgers in the test and its closures
  ExtendTos,     \* arguments of a contract's extend_ttl
  Expectations,  \* the delta, or the least TTL, a test may expect of an entry
  Rewinds        \* checkpoints restore_checkpoint may bring back: [sequence,
                 \* max_entry_ttl] pairs; empty in a test that uses none

ASSUME RecipeAssumption ==
  /\ LedgerCounts \subseteq Nat
  /\ ExtendTos \subseteq Nat
  /\ Expectations \subseteq Int
  /\ Rewinds \subseteq [sequence : 0..MaxSequence, max_entry_ttl : MaxTtls]

VARIABLES
  run,      \* the recipe whose closure is running, or NoRun
  verdict   \* how the recipe that has just ended did so, and its run

vars == <<sequence, max_entry_ttl, store, run, verdict>>

Measuring == {"assert_bumps_ttl", "assert_no_ttl_bump"}

(* The recipes that catch a panic of their closure and report it as their  *)
(* own; from the others it unwinds as it is.                               *)
Catching == {"assert_survives_expiry", "assert_runs_before_expiry",
             "assert_runs_after_expiry", "assert_temporary_expires",
             "assert_temporary_expiry_boundary",
             "assert_temporary_extension_defers_expiry"}

Recipes == Measuring \cup
           {"assert_survives_expiry", "assert_runs_before_expiry",
            "assert_runs_after_expiry", "assert_recovers_after_expiry",
            "assert_temporary_expires", "assert_temporary_expiry_boundary",
            "assert_temporary_extension_defers_expiry",
            "assert_ttl_delta", "assert_ttl_at_least"}

(* keys: the entries judged.  current, before, value: the timeline taken   *)
(* when the recipe began, with what was stored.  second: the boundary      *)
(* recipe is past the boundary.  expected: the TTL, or the change of it,   *)
(* the entry was judged by, 0 until then.  calls, moved: ghosts, what the  *)
(* closure has done so far: called nothing, only read, or changed an       *)
(* entry; moved the ledger.                                                *)
Run == [recipe : Recipes, keys : SUBSET Keys, current : 0..MaxSequence,
        before : [Keys -> Nat], value : [Keys -> Values \cup {NoValue}],
        second : BOOLEAN, expected : Expectations \cup {0},
        calls : {"none", "reads", "writes"}, moved : BOOLEAN]

NoRun == [recipe |-> "none"]

Running == run # NoRun

(* Mutant: the first ledger the entry is gone on. *)
ExpiresAtFirstGone(r, k) == r.current + r.before[k] + 1

(* TtlTimeline::expires_at_sequence; the sum fits, so it never saturates.  *)
ExpiresAt(r, k) == r.current + r.before[k]

(* TtlTimeline::expired_at *)
expired_at(r, k, s) == s >= ExpiresAt(r, k)

Began(recipe, keys) ==
  [recipe |-> recipe, keys |-> keys, current |-> sequence,
   before |-> [k \in Keys |-> IF k \in keys THEN ttl_of(k) ELSE 0],
   value  |-> [k \in Keys |-> IF k \in keys THEN store[k].value ELSE NoValue],
   second |-> FALSE, expected |-> 0, calls |-> "none", moved |-> FALSE]

None == [result |-> "none", run |-> NoRun, honest |-> TRUE]

End(result, r, honest) ==
  /\ run' = NoRun
  /\ verdict' = [result |-> result, run |-> r, honest |-> honest]

--------------------------------------------------------------------------------
(* Starting a recipe: everything it does before the closure runs *)

(* Mutant: no check for an overflow. *)
CanAdvanceUnchecked(n) == n \in Nat

(* advance_ledgers: an overflow of the sequence is a panic. *)
CanAdvance(n) == sequence + n <= MaxSequence

SaturatingAdd(a, b) == IF a + b <= MaxSequence THEN a + b ELSE MaxSequence

(* Advance by n; then the recipe's own check, and only then the closure.   *)
AdvanceThenRun(n, check, r) ==
  /\ IF ~CanAdvance(n)
       THEN End("panics", r, TRUE) /\ UNCHANGED sequence
       ELSE /\ sequence' = sequence + n
            /\ IF check THEN run' = r /\ verdict' = None
                        ELSE End("failed", r, TRUE)
  /\ UNCHANGED <<max_entry_ttl, store>>

(* Each recipe but assert_survives_expiry reads the TTL of its entries     *)
(* first, which panics in the SDK for an entry that is not live.           *)
Begin(recipe, keys, n, check) ==
  /\ ~Running
  /\ IF \A k \in keys : Live(k)
       THEN AdvanceThenRun(n, check, Began(recipe, keys))
       ELSE End("panics", NoRun, TRUE) /\ UNCHANGED storageVars

(* Mutants: the boundary missed by a ledger on either side. *)
PastExpiryAtLastLive(k) == ttl_of(k)

PastExpiryLate(k) == SaturatingAdd(ttl_of(k), 2)

(* One ledger past the last live one, which is the TTL plus one away. *)
PastExpiry(k) == SaturatingAdd(ttl_of(k), 1)

(* has(key), asked by a temporary recipe at a later ledger. *)
PresentAt(k, s) == Stored(k) /\ s <= store[k].live_until

(* assert_bumps_ttl_multi judges several entries of a kind, the others one. *)
StartMeasuring(recipe, keys) ==
  /\ \/ \E k \in Keys : keys = {k}
     \/ recipe = "assert_bumps_ttl" /\ \A j, k \in keys : KindOf[j] = KindOf[k]
  /\ Begin(recipe, keys, 0, TRUE)

StartExtensionDefersExpiry(k) ==
  /\ Temporary(k)
  /\ Begin("assert_temporary_extension_defers_expiry", {k}, 0, TRUE)

StartTtlDelta(k) == Begin("assert_ttl_delta", {k}, 0, TRUE)

(* No closure: the TTL is read and judged at once. *)
AssertTtlAtLeast(k, min_ttl) ==
  /\ ~Running
  /\ IF Live(k)
       THEN End(IF ttl_of(k) < min_ttl THEN "failed" ELSE "passed",
                [Began("assert_ttl_at_least", {k}) EXCEPT !.expected = min_ttl], TRUE)
       ELSE End("panics", NoRun, TRUE)
  /\ UNCHANGED storageVars

(* A TTL of 0 is refused as expired. *)
StartRunsBeforeExpiry(k) ==
  LET recipe == "assert_runs_before_expiry"
  IN  \/ /\ ~(Live(k) /\ ttl_of(k) = 0)
         /\ Begin(recipe, {k}, ttl_of(k) - 1, TRUE)
      \/ /\ ~Running
         /\ Live(k)
         /\ ttl_of(k) = 0
         /\ End("refused", Began(recipe, {k}), TRUE)
         /\ UNCHANGED storageVars

StartRunsAfterExpiry(k) ==
  Begin("assert_runs_after_expiry", {k}, PastExpiry(k), TRUE)

(* The recipe checks its own timeline once it has advanced. *)
StartRecoversAfterExpiry(k) ==
  LET recipe == "assert_recovers_after_expiry"
  IN  /\ KindOf[k] = "Persistent"
      /\ Begin(recipe, {k}, PastExpiry(k),
               expired_at(Began(recipe, {k}), k, sequence + PastExpiry(k)))

StartTemporaryExpires(k) ==
  /\ Temporary(k)
  /\ Begin("assert_temporary_expires", {k}, PastExpiry(k),
           ~PresentAt(k, sequence + PastExpiry(k)))

(* Mutant: the first of the two ledgers is the one after the last live one. *)
StartExpiryBoundaryLate(k) ==
  /\ Temporary(k)
  /\ Begin("assert_temporary_expiry_boundary", {k}, PastExpiry(k), TRUE)

StartExpiryBoundary(k) ==
  /\ Temporary(k)
  /\ Begin("assert_temporary_expiry_boundary", {k}, ttl_of(k),
           PresentAt(k, sequence + ttl_of(k)))

(* Mutant: the TTL a persistent entry begins with, not the longest one. *)
ExpireLedgersOfNewEntry == SaturatingAdd(MinPersistentTtl, 1)

(* expire, whatever the kind: one ledger past the cap on every TTL. *)
ExpireLedgers == SaturatingAdd(max_entry_ttl, 1)

(* assert_survives_expiry is expire and then the closure. *)
StartSurvivesExpiry ==
  Begin("assert_survives_expiry", {}, ExpireLedgers, TRUE)

--------------------------------------------------------------------------------
(* The test's own code, in a closure or between recipes *)

(* The ghosts of the run whose closure takes this step; "none" adds no call. *)
Noting(calls, moved) ==
  /\ run' = IF Running
              THEN [run EXCEPT
                      !.calls = IF calls = "none" \/ @ = "writes" THEN @ ELSE calls,
                      !.moved = @ \/ moved]
              ELSE NoRun
  /\ verdict' = None

CallGet(k) ==
  /\ Get(k)
  /\ Noting("reads", FALSE)
  /\ UNCHANGED <<sequence, max_entry_ttl>>

CallSet(k, v) ==
  /\ Set(k, v)
  /\ Noting("writes", FALSE)
  /\ UNCHANGED <<sequence, max_entry_ttl>>

CallExtend(k, extend_to) ==
  /\ Extend(k, extend_to)
  /\ Noting("writes", FALSE)
  /\ UNCHANGED <<sequence, max_entry_ttl>>

CallRemove(k) ==
  /\ Remove(k)
  /\ Noting("writes", FALSE)
  /\ UNCHANGED <<sequence, max_entry_ttl>>

AdvanceLedgers(n) ==
  /\ CanAdvance(n)
  /\ sequence' = sequence + n
  /\ Noting("none", TRUE)
  /\ UNCHANGED <<max_entry_ttl, store>>

(* restore_checkpoint takes the ledger back; the entries stay as they are. *)
RestoreCheckpoint(c) ==
  /\ sequence' = c.sequence
  /\ max_entry_ttl' = c.max_entry_ttl
  /\ Noting("none", TRUE)
  /\ UNCHANGED store

--------------------------------------------------------------------------------
(* The closure ends, and the recipe judges *)

ClosurePanics ==
  /\ Running
  /\ End(IF run.recipe \in Catching THEN "failed" ELSE "panics", run, FALSE)
  /\ UNCHANGED storageVars

(* Mutant: one entry that rose is enough. *)
JudgeMeasuringAny ==
  /\ Running
  /\ run.recipe \in Measuring
  /\ LET rose(k) == ttl_of(k) > run.before[k]
         good    == IF run.recipe = "assert_bumps_ttl"
                      THEN \E k \in run.keys : rose(k)
                      ELSE \A k \in run.keys : ~rose(k)
     IN  End(IF \E k \in run.keys : ~Live(k) THEN "panics"
             ELSE IF good THEN "passed" ELSE "failed", run, TRUE)
  /\ UNCHANGED storageVars

(* Reading the TTL back panics if an entry is not live any more. *)
JudgeMeasuring ==
  /\ Running
  /\ run.recipe \in Measuring
  /\ LET rose(k) == ttl_of(k) > run.before[k]
         good    == IF run.recipe = "assert_bumps_ttl"
                      THEN \A k \in run.keys : rose(k)
                      ELSE \A k \in run.keys : ~rose(k)
     IN  End(IF \E k \in run.keys : ~Live(k) THEN "panics"
             ELSE IF good THEN "passed" ELSE "failed", run, TRUE)
  /\ UNCHANGED storageVars

(* Nothing is asked of the closure but to return. *)
JudgeRunning ==
  /\ Running
  /\ run.recipe \in {"assert_runs_before_expiry", "assert_runs_after_expiry",
                     "assert_survives_expiry"}
  /\ End("passed", run, TRUE)
  /\ UNCHANGED storageVars

KeyOf(r) == CHOOSE k \in r.keys : TRUE

TheKey == KeyOf(run)

(* What the closure returns: what a contract reads, or anything else from  *)
(* a contract that gets it wrong.                                          *)
Honest(seen) == seen = Observed(TheKey)

(* The recovered value is compared first, then the TTL read back; an entry *)
(* that was not brought back makes that read panic.                        *)
JudgeRecovers(seen) ==
  /\ Running
  /\ run.recipe = "assert_recovers_after_expiry"
  /\ End(IF seen # run.value[TheKey] THEN "failed"
         ELSE IF ~Live(TheKey) THEN "panics"
         ELSE IF ttl_of(TheKey) = 0 THEN "failed"
         ELSE "passed", run, Honest(seen))
  /\ UNCHANGED storageVars

JudgeTemporaryExpires(seen) ==
  /\ Running
  /\ run.recipe = "assert_temporary_expires"
  /\ End(IF seen = NoValue THEN "passed" ELSE "failed", run, Honest(seen))
  /\ UNCHANGED storageVars

(* On the last live ledger the closure must see the entry; one ledger      *)
(* later the entry must be gone before the closure runs again.             *)
JudgeLastLiveLedger(seen) ==
  /\ Running
  /\ run.recipe = "assert_temporary_expiry_boundary"
  /\ ~run.second
  /\ IF seen # run.value[TheKey]
       THEN End("failed", run, Honest(seen)) /\ UNCHANGED storageVars
       ELSE AdvanceThenRun(1, ~PresentAt(TheKey, sequence + 1),
                           [run EXCEPT !.second = TRUE])

JudgeFirstExpiredLedger(seen) ==
  /\ Running
  /\ run.recipe = "assert_temporary_expiry_boundary"
  /\ run.second
  /\ End(IF seen = NoValue THEN "passed" ELSE "failed", run, Honest(seen))
  /\ UNCHANGED storageVars

(* The extended timeline is read back, which panics if the entry is gone,  *)
(* and the ledger moved on by the TTL the entry had before the closure.    *)
JudgeExtensionDefersExpiry ==
  LET n == SaturatingAdd(run.before[TheKey], 1)
  IN  /\ Running
      /\ run.recipe = "assert_temporary_extension_defers_expiry"
      /\ IF ~Live(TheKey) \/ ~CanAdvance(n)
           THEN End("panics", run, TRUE) /\ UNCHANGED sequence
           ELSE /\ sequence' = sequence + n
                /\ End(IF PresentAt(TheKey, sequence + n) THEN "passed" ELSE "failed",
                       run, TRUE)
      /\ UNCHANGED <<max_entry_ttl, store>>

(* TtlSnapshot::diff, of the snapshots taken before and after the closure. *)
diff(k) == ttl_of(k) - run.before[k]

JudgeTtlDelta(expected_delta) ==
  /\ Running
  /\ run.recipe = "assert_ttl_delta"
  /\ End(IF ~Live(TheKey) THEN "panics"
         ELSE IF diff(TheKey) = expected_delta THEN "passed" ELSE "failed",
         [run EXCEPT !.expected = expected_delta], TRUE)
  /\ UNCHANGED storageVars

--------------------------------------------------------------------------------

Init ==
  /\ sequence = 0
  /\ max_entry_ttl \in MaxTtls
  /\ store = [k \in Keys |-> [value |-> NoValue, live_until |-> 0]]
  /\ run = NoRun
  /\ verdict = None

Start ==
  \/ \E recipe \in Measuring, keys \in SUBSET Keys \ {{}} :
       StartMeasuring(recipe, keys)
  \/ StartSurvivesExpiry
  \/ \E k \in Keys :
       \/ StartRunsBeforeExpiry(k)
       \/ StartRunsAfterExpiry(k)
       \/ StartRecoversAfterExpiry(k)
       \/ StartTemporaryExpires(k)
       \/ StartExpiryBoundary(k)
       \/ StartExtensionDefersExpiry(k)
       \/ StartTtlDelta(k)

Check ==
  \E k \in Keys, min_ttl \in Expectations \cap Nat : AssertTtlAtLeast(k, min_ttl)

TestCode ==
  \/ \E k \in Keys :
       \/ CallGet(k)
       \/ \E v \in Values : CallSet(k, v)
       \/ \E extend_to \in ExtendTos : CallExtend(k, extend_to)
       \/ CallRemove(k)
  \/ \E n \in LedgerCounts : AdvanceLedgers(n)
  \/ \E c \in Rewinds : RestoreCheckpoint(c)

Judge ==
  \/ ClosurePanics
  \/ JudgeMeasuring
  \/ JudgeRunning
  \/ JudgeExtensionDefersExpiry
  \/ \E expected_delta \in Expectations : JudgeTtlDelta(expected_delta)
  \/ \E seen \in Values \cup {NoValue} :
       \/ JudgeRecovers(seen)
       \/ JudgeTemporaryExpires(seen)
       \/ JudgeLastLiveLedger(seen)
       \/ JudgeFirstExpiredLedger(seen)

Next == Start \/ Check \/ TestCode \/ Judge

Spec == Init /\ [][Next]_vars

--------------------------------------------------------------------------------
(* Properties *)

Results == {"none", "passed", "failed", "panics", "refused"}

StorageTypeOK ==
  /\ sequence \in 0..MaxSequence
  /\ max_entry_ttl \in MaxTtls
  /\ store \in [Keys -> Entry]

(* The types of the ledger, of every entry, of the recipe under way and of *)
(* the last verdict: in particular no call leaves an entry whose last live *)
(* ledger is no u32, and no recipe begins with a negative TTL.             *)
TypeOK ==
  /\ StorageTypeOK
  /\ run \in Run \cup {NoRun}
  /\ verdict \in [result : Results, run : Run \cup {NoRun}, honest : BOOLEAN]

(* The closure has only just been called. *)
Fresh == run.calls = "none" /\ ~run.moved

(* The closure has changed nothing a recipe measures. *)
Quiet(r) == r.calls # "writes" /\ ~r.moved

(* The TTLs the recipe read are below u32::MAX, so that the ledger one past *)
(* each is a number of ledgers away.  No entry has more on a ledger it was  *)
(* written on; one that lives to u32::MAX has, once a checkpoint takes the  *)
(* ledger back to 0.                                                        *)
Roomy(r) == \A k \in r.keys : r.before[k] < MaxSequence

PastBoundary == {"assert_runs_after_expiry", "assert_recovers_after_expiry",
                 "assert_temporary_expires"}

(* Where a recipe's closure runs, against where the host drops the entry:  *)
(* before_expiry one ledger short of the last live one, with the entry     *)
(* still there; the after-expiry recipes exactly one ledger past it, with  *)
(* the entry gone; the boundary recipe on the last live ledger and then on *)
(* the very next, if the closure did nothing that moves the boundary.  All *)
(* of it wherever checkpoints have taken the ledger, short of a TTL of     *)
(* u32::MAX itself.                                                        *)
RunsAtBoundary ==
  Running /\ Roomy(run) =>
    LET last == store[TheKey].live_until
    IN  CASE run.recipe = "assert_runs_before_expiry" ->
               Fresh => Live(TheKey) /\ sequence + 1 = last
          [] run.recipe \in PastBoundary ->
               Fresh => ~Live(TheKey) /\ sequence = last + 1
          [] run.recipe = "assert_temporary_expiry_boundary" ->
               Quiet(run) => IF run.second
                               THEN ~Live(TheKey) /\ sequence = last + 1
                               ELSE Live(TheKey) /\ sequence = last
          [] OTHER -> TRUE

(* A timeline taken while an entry was live keeps telling, wherever the    *)
(* ledger has moved since, which ledgers the entry is live on, as long as  *)
(* no call touches it: up to and on expires_at_sequence, no further.       *)
TimelineTells ==
  Running /\ run.calls = "none" =>
    \A k \in run.keys : Live(k) <=> sequence <= ExpiresAt(run, k)

(* A contract that handles expiry is never failed for it: a recipe whose   *)
(* closure changes no entry, leaves the ledger alone and returns what the  *)
(* contract reads comes to no failure.  For recovery the closure must have *)
(* read the entry back, for the TTL to rise or change somebody must extend *)
(* it, and a least TTL is refused only to an entry that will be gone.  Not *)
(* claimed of a TTL of u32::MAX, which no advance gets past.               *)
NoFalseAlarm ==
  LET r == verdict.run
  IN  verdict.result = "failed" /\ verdict.honest /\ Quiet(r) /\ Roomy(r) =>
        \/ r.recipe = "assert_bumps_ttl"
        \/ r.recipe = "assert_recovers_after_expiry" /\ ~Live(KeyOf(r))
        \/ r.recipe = "assert_temporary_extension_defers_expiry"
        \/ r.recipe = "assert_ttl_delta" /\ r.expected # 0
        \/ r.recipe = "assert_ttl_at_least" /\ ~PresentAt(KeyOf(r), sequence + r.expected)

(* What a passed recipe has shown, whatever its closure did to the entry   *)
(* or the ledger: the entries outlive the ledger the timeline gave them,   *)
(* the deferred one is alive past it, the recovered one is alive past it   *)
(* with the value it had, the temporary one is absent past it; a delta is  *)
(* how far the last live ledger moved, less what the ledger itself did.    *)
PassIsTruth ==
  LET r       == verdict.run
      past(k) == sequence > ExpiresAt(r, k)
  IN  verdict.result = "passed" =>
        CASE r.recipe = "assert_bumps_ttl" ->
               \A k \in r.keys : Live(k) /\ store[k].live_until > ExpiresAt(r, k)
          [] r.recipe = "assert_temporary_extension_defers_expiry" ->
               Live(KeyOf(r)) /\ past(KeyOf(r))
          [] r.recipe = "assert_recovers_after_expiry" ->
               /\ Live(KeyOf(r)) /\ past(KeyOf(r))
               /\ verdict.honest => store[KeyOf(r)].value = r.value[KeyOf(r)]
          [] r.recipe \in {"assert_temporary_expires",
                           "assert_temporary_expiry_boundary"} ->
               verdict.honest => ~Live(KeyOf(r)) /\ past(KeyOf(r))
          [] r.recipe = "assert_ttl_delta" ->
               /\ Live(KeyOf(r))
               /\ store[KeyOf(r)].live_until
                    = ExpiresAt(r, KeyOf(r)) + r.expected + (sequence - r.current)
          [] r.recipe = "assert_ttl_at_least" ->
               Live(KeyOf(r)) /\ PresentAt(KeyOf(r), sequence + r.expected)
          [] OTHER -> TRUE

Started(recipes) == ~Running /\ Running' /\ run'.recipe \in recipes

(* Pushing one entry past its boundary takes the minimum advance: every    *)
(* entry with more TTL headroom is still live when the closure runs.       *)
SiblingsSurvive ==
  [][Started(PastBoundary) =>
       \A k \in Keys :
         /\ Live(k)
         /\ \E j \in run'.keys : store[k].live_until > store[j].live_until
         => Live(k)']_vars

(* No entry, whatever its kind and however it was extended, is live when   *)
(* the closure of assert_survives_expiry runs: expire reads one setting of *)
(* the ledger and looks at no entry.                                       *)
ExpireKillsAll ==
  [][Started({"assert_survives_expiry"}) => \A k \in Keys : ~Live(k)']_vars

(* Why expire is enough: no entry outlives the ledger's cap from now on.   *)
WithinMax ==
  \A k \in Keys : store[k].live_until < sequence + max_entry_ttl

--------------------------------------------------------------------------------
(* What the documentation says and the code does not do *)

(* TtlTimeline::expires_at_sequence: once the ledger reaches this sequence *)
(* the entry is gone or archived.                                          *)
GoneOnceReached ==
  Running /\ run.calls = "none" =>
    \A k \in run.keys : sequence >= ExpiresAt(run, k) => ~Live(k)

================================================================================
