---------------------------- MODULE TtlRecipesProofs ---------------------------
(***************************************************************************)
(* What holds of the storage whatever the ledger, the contract and the     *)
(* closures do, and what a recipe does to it before its closure runs.      *)
(* As long as no checkpoint takes the ledger back, no entry outlives the   *)
(* cap on a TTL, and so none is live one ledger past it.                   *)
(*                                                                         *)
(* Then what the recipes' verdicts mean: where each closure runs, what a   *)
(* timeline tells of its entry, what a pass has shown, and that a contract *)
(* is not failed for expiring.                                             *)
(***************************************************************************)
EXTENDS TtlRecipes, TLAPS

(* A recipe that crosses a boundary, or checks one, judges a single entry. *)
Several == Measuring \cup {"assert_survives_expiry"}

SingleKey ==
  Running /\ run.recipe \notin Several => \E k \in Keys : run.keys = {k}

RunTypeOK ==
  /\ run \in Run \cup {NoRun}
  /\ verdict \in [result : Results, run : Run \cup {NoRun}, honest : BOOLEAN]
  /\ SingleKey

(* A rewind leaves an entry further from its last live ledger than the cap *)
(* on a TTL allows.                                                        *)
Inv ==
  /\ StorageTypeOK
  /\ Rewinds = {} => WithinMax

USE DEF Several

USE StorageAssumption, RecipeAssumption

(* A step that leaves the entries alone and never takes the ledger back    *)
(* keeps the invariant.                                                    *)
LEMMA MovingOnKeeps ==
  ASSUME Inv, UNCHANGED <<max_entry_ttl, store>>,
         sequence' \in 0..MaxSequence, sequence <= sequence'
  PROVE  Inv'
<1>1. StorageTypeOK'
  BY DEF Inv, StorageTypeOK
<1>2. ASSUME NEW k \in Keys, NEW cap \in Nat, store[k].live_until < sequence + cap
      PROVE  store'[k].live_until < sequence' + cap
  <2>1. sequence \in Nat /\ store[k].live_until \in Nat
    BY DEF Inv, StorageTypeOK, Entry
  <2> QED BY <1>2, <2>1
<1>3. max_entry_ttl \in Nat /\ max_entry_ttl' = max_entry_ttl
  BY DEF Inv, StorageTypeOK
<1>4. Rewinds = {} => WithinMax'
  BY <1>2, <1>3 DEF Inv, WithinMax
<1> QED BY <1>1, <1>4 DEF Inv

(* A step that leaves the storage alone keeps the invariant. *)
LEMMA StayingPutKeeps ==
  ASSUME Inv, UNCHANGED storageVars
  PROVE  Inv'
BY DEF Inv, StorageTypeOK, WithinMax, storageVars

(* So does one that writes a single entry within the ledger's cap, or      *)
(* leaves it the TTL it has.                                               *)
LEMMA WritingKeeps ==
  ASSUME Inv, UNCHANGED <<sequence, max_entry_ttl>>,
         NEW k \in Keys, NEW v \in Values \cup {NoValue}, NEW u \in 0..MaxSequence,
         u < sequence + max_entry_ttl \/ u = store[k].live_until,
         store' = [store EXCEPT ![k] = [value |-> v, live_until |-> u]]
  PROVE  Inv'
<1>1. \A j \in Keys : store'[j] = IF j = k THEN [value |-> v, live_until |-> u]
                                           ELSE store[j]
  BY DEF Inv, StorageTypeOK
<1>2. [value |-> v, live_until |-> u] \in Entry
  BY DEF Entry
<1>3. StorageTypeOK'
  BY <1>2 DEF Inv, StorageTypeOK
<1>4. Rewinds = {} => WithinMax'
  BY <1>1 DEF Inv, WithinMax
<1> QED BY <1>3, <1>4 DEF Inv

(* An entry begins with a TTL within the cap. *)
LEMMA FirstWithinCap ==
  ASSUME Inv, NEW k \in Keys
  PROVE  /\ FirstLiveUntil(k) \in Nat
         /\ FirstLiveUntil(k) < sequence + max_entry_ttl
<1>1. sequence \in Nat /\ max_entry_ttl \in Nat
      /\ MinTempTtl <= max_entry_ttl /\ MinPersistentTtl <= max_entry_ttl
  BY DEF Inv, StorageTypeOK
<1> QED BY <1>1 DEF FirstLiveUntil

(* A read restores an archived entry, within the cap. *)
LEMMA GetKeeps ==
  ASSUME Inv, NEW k \in Keys, CallGet(k)
  PROVE  Inv'
<1>1. UNCHANGED <<sequence, max_entry_ttl>>
  BY DEF CallGet
<1>2. CASE ~Archived(k)
  BY <1>1, <1>2, StayingPutKeeps DEF CallGet, Get, storageVars
<1>3. CASE Archived(k)
  <2>1. /\ FirstLiveUntil(k) <= MaxSequence
        /\ store' = [store EXCEPT ![k].live_until = FirstLiveUntil(k)]
    BY <1>3 DEF CallGet, Get
  <2>2. store[k] \in Entry /\ store[k].value \in Values \cup {NoValue}
    BY DEF Inv, StorageTypeOK, Entry
  <2>3. [store[k] EXCEPT !.live_until = FirstLiveUntil(k)]
          = [value |-> store[k].value, live_until |-> FirstLiveUntil(k)]
    BY <2>2 DEF Entry
  <2>4. store' = [store EXCEPT ![k] = [value |-> store[k].value,
                                       live_until |-> FirstLiveUntil(k)]]
    BY <2>1, <2>3 DEF Inv, StorageTypeOK
  <2>5. FirstLiveUntil(k) \in 0..MaxSequence
    BY <2>1, FirstWithinCap
  <2> QED BY <1>1, <2>2, <2>4, <2>5, FirstWithinCap, WritingKeeps
<1> QED BY <1>2, <1>3

(* A write gives a new entry its first TTL, within the cap. *)
LEMMA SetKeeps ==
  ASSUME Inv, NEW k \in Keys, NEW v \in Values, CallSet(k, v)
  PROVE  Inv'
<1>1. store[k].live_until \in 0..MaxSequence
  BY DEF Inv, StorageTypeOK, Entry
<1>2. /\ LiveUntil(k) \in Nat
      /\ LiveUntil(k) < sequence + max_entry_ttl \/ LiveUntil(k) = store[k].live_until
  BY <1>1, FirstWithinCap DEF LiveUntil
<1>3. LiveUntil(k) \in 0..MaxSequence
  BY <1>2 DEF CallSet, Set
<1> QED BY <1>2, <1>3, WritingKeeps DEF CallSet, Set

(* An extension is refused at the cap. *)
LEMMA ExtendKeeps ==
  ASSUME Inv, NEW k \in Keys, NEW e \in ExtendTos, CallExtend(k, e)
  PROVE  Inv'
<1>1. /\ e < max_entry_ttl
      /\ sequence + e <= MaxSequence
      /\ store' = [store EXCEPT ![k].live_until = sequence + e]
      /\ UNCHANGED <<sequence, max_entry_ttl>>
  BY DEF CallExtend, Extend
<1>2. sequence \in Nat /\ e \in Nat /\ max_entry_ttl \in Nat
  BY DEF Inv, StorageTypeOK
<1>3. store[k] \in Entry /\ store[k].value \in Values \cup {NoValue}
  BY DEF Inv, StorageTypeOK, Entry
<1>4. [store[k] EXCEPT !.live_until = sequence + e]
        = [value |-> store[k].value, live_until |-> sequence + e]
  BY <1>3 DEF Entry
<1>5. store' = [store EXCEPT ![k] = [value |-> store[k].value,
                                     live_until |-> sequence + e]]
  BY <1>1, <1>4 DEF Inv, StorageTypeOK
<1>6. sequence + e \in 0..MaxSequence /\ sequence + e < sequence + max_entry_ttl
  BY <1>1, <1>2
<1> QED BY <1>1, <1>3, <1>5, <1>6, WritingKeeps

(* A removed entry has no last live ledger to speak of. *)
LEMMA RemoveKeeps ==
  ASSUME Inv, NEW k \in Keys, CallRemove(k)
  PROVE  Inv'
<1>1. store' = [store EXCEPT ![k] = [value |-> NoValue, live_until |-> 0]]
      /\ UNCHANGED <<sequence, max_entry_ttl>>
  BY DEF CallRemove, Remove
<1>2. 0 \in 0..MaxSequence
  OBVIOUS
<1>3. 0 < sequence + max_entry_ttl
  BY DEF Inv, StorageTypeOK
<1> QED BY <1>1, <1>2, <1>3, WritingKeeps

(* A recipe only ever moves the ledger on. *)
LEMMA RecipeMovesOn ==
  ASSUME Inv, NEW n \in Nat, NEW check, NEW r, AdvanceThenRun(n, check, r)
  PROVE  Inv'
<1>1. sequence \in 0..MaxSequence
  BY DEF Inv, StorageTypeOK
<1>2. sequence' = sequence \/ (CanAdvance(n) /\ sequence' = sequence + n)
  BY DEF AdvanceThenRun
<1>3. UNCHANGED <<max_entry_ttl, store>>
  BY DEF AdvanceThenRun
<1> QED BY <1>1, <1>2, <1>3, MovingOnKeeps DEF CanAdvance

(* A recipe that begins only moves the ledger on, if that. *)
LEMMA BeginKeeps ==
  ASSUME Inv, NEW recipe, NEW keys, NEW n, NEW check,
         (\A k \in keys : Live(k)) => n \in Nat,
         Begin(recipe, keys, n, check)
  PROVE  Inv'
BY RecipeMovesOn, StayingPutKeeps DEF Begin

(* The TTL of a live entry is a number of ledgers. *)
LEMMA LiveTtl ==
  ASSUME Inv, NEW k \in Keys, Live(k)
  PROVE  ttl_of(k) \in Nat /\ ttl_of(k) <= MaxSequence
BY DEF Inv, StorageTypeOK, Entry, Live, ttl_of

(* saturating_add(1) is a + 1 below u32::MAX. *)
LEMMA SaturatingAddsUp ==
  ASSUME NEW a \in Nat
  PROVE  /\ SaturatingAdd(a, 1) \in Nat
         /\ SaturatingAdd(a, 1) <= a + 1
         /\ a < MaxSequence => SaturatingAdd(a, 1) = a + 1
         /\ a <= MaxSequence => a <= SaturatingAdd(a, 1)
BY DEF SaturatingAdd

(* The cap is a number of ledgers. *)
LEMMA MaxTtlNat ==
  ASSUME Inv
  PROVE  max_entry_ttl \in Nat /\ max_entry_ttl <= MaxSequence
BY DEF Inv, StorageTypeOK

(* No recipe breaks the invariant before its closure runs. *)
LEMMA StartKeeps ==
  ASSUME Inv, Start
  PROVE  Inv'
<1>1. ASSUME NEW recipe, NEW keys, StartMeasuring(recipe, keys)
      PROVE  Inv'
  BY <1>1, BeginKeeps DEF StartMeasuring
<1>2. CASE StartSurvivesExpiry
  <2>1. ExpireLedgers \in Nat
    BY SaturatingAddsUp, MaxTtlNat DEF ExpireLedgers
  <2> QED BY <1>2, <2>1, BeginKeeps DEF StartSurvivesExpiry
<1>3. ASSUME NEW k \in Keys
      PROVE  (\A j \in {k} : Live(j)) => ttl_of(k) \in Nat /\ PastExpiry(k) \in Nat
  BY <1>3, LiveTtl, SaturatingAddsUp DEF PastExpiry
<1>4. ASSUME NEW k \in Keys, StartRunsBeforeExpiry(k)
      PROVE  Inv'
  <2>1. CASE /\ ~(Live(k) /\ ttl_of(k) = 0)
             /\ Begin("assert_runs_before_expiry", {k}, ttl_of(k) - 1, TRUE)
    <3>1. (\A j \in {k} : Live(j)) => ttl_of(k) - 1 \in Nat
      BY <1>3, <1>4, <2>1
    <3> QED BY <2>1, <3>1, BeginKeeps
  <2>2. CASE UNCHANGED storageVars
    BY <2>2, StayingPutKeeps
  <2> QED BY <1>4, <2>1, <2>2 DEF StartRunsBeforeExpiry
<1>5. ASSUME NEW k \in Keys, StartRunsAfterExpiry(k)
      PROVE  Inv'
  BY <1>3, <1>5, BeginKeeps DEF StartRunsAfterExpiry
<1>6. ASSUME NEW k \in Keys, StartRecoversAfterExpiry(k)
      PROVE  Inv'
  BY <1>3, <1>6, BeginKeeps DEF StartRecoversAfterExpiry
<1>7. ASSUME NEW k \in Keys, StartTemporaryExpires(k)
      PROVE  Inv'
  BY <1>3, <1>7, BeginKeeps DEF StartTemporaryExpires
<1>8. ASSUME NEW k \in Keys, StartExpiryBoundary(k)
      PROVE  Inv'
  BY <1>3, <1>8, BeginKeeps DEF StartExpiryBoundary
<1>9. ASSUME NEW k \in Keys, StartExtensionDefersExpiry(k)
      PROVE  Inv'
  BY <1>9, BeginKeeps DEF StartExtensionDefersExpiry
<1>10. ASSUME NEW k \in Keys, StartTtlDelta(k)
       PROVE  Inv'
  BY <1>10, BeginKeeps DEF StartTtlDelta
<1> QED BY <1>1, <1>2, <1>4, <1>5, <1>6, <1>7, <1>8, <1>9, <1>10 DEF Start

(* Wherever a checkpoint takes it, the ledger keeps its type. *)
LEMMA RewindKeeps ==
  ASSUME Inv, NEW c \in Rewinds, RestoreCheckpoint(c)
  PROVE  Inv'
<1>1. /\ sequence' = c.sequence /\ max_entry_ttl' = c.max_entry_ttl
      /\ UNCHANGED store
  BY DEF RestoreCheckpoint
<1>2. c.sequence \in 0..MaxSequence /\ c.max_entry_ttl \in MaxTtls
  OBVIOUS
<1>3. StorageTypeOK'
  BY <1>1, <1>2 DEF Inv, StorageTypeOK
<1> QED BY <1>3 DEF Inv

(* Nor does the test's own code. *)
LEMMA TestCodeKeeps ==
  ASSUME Inv, TestCode
  PROVE  Inv'
<1>1. ASSUME NEW n \in LedgerCounts, AdvanceLedgers(n)
      PROVE  Inv'
  <2>1. sequence' \in 0..MaxSequence /\ sequence <= sequence'
    BY <1>1 DEF AdvanceLedgers, CanAdvance, Inv, StorageTypeOK
  <2> QED BY <1>1, <2>1, MovingOnKeeps DEF AdvanceLedgers
<1> QED BY <1>1, GetKeeps, SetKeeps, ExtendKeeps, RemoveKeeps, RewindKeeps DEF TestCode

--------------------------------------------------------------------------------
(* The types of the recipe under way and of the last verdict *)

(* No recipe is mistaken for none. *)
LEMMA NoRunIsNone == NoRun \notin Run
<1>1. SUFFICES ASSUME NoRun \in Run PROVE FALSE
  OBVIOUS
<1>2. NoRun.recipe \in Recipes
  BY <1>1 DEF Run
<1> QED BY <1>2 DEF NoRun, Recipes, Measuring

(* The absent verdict is a verdict. *)
LEMMA NoneTyped ==
  None \in [result : Results, run : Run \cup {NoRun}, honest : BOOLEAN]
BY DEF None, Results

(* A recipe that ends leaves the types of its run and verdict. *)
LEMMA EndTypes ==
  ASSUME NEW result \in Results, NEW r \in Run \cup {NoRun}, NEW h \in BOOLEAN,
         End(result, r, h)
  PROVE  RunTypeOK'
BY DEF End, RunTypeOK, SingleKey, Running

(* A recipe that begins has a run of the right type. *)
LEMMA BeganTypes ==
  ASSUME Inv, NEW recipe \in Recipes, NEW keys \in SUBSET Keys,
         \A k \in keys : Live(k)
  PROVE  Began(recipe, keys) \in Run
<1>1. [k \in Keys |-> IF k \in keys THEN ttl_of(k) ELSE 0] \in [Keys -> Nat]
  BY LiveTtl
<1>2. [k \in Keys |-> IF k \in keys THEN store[k].value ELSE NoValue]
        \in [Keys -> Values \cup {NoValue}]
  BY DEF Inv, StorageTypeOK, Entry
<1>3. sequence \in 0..MaxSequence
  BY DEF Inv, StorageTypeOK
<1> QED BY <1>1, <1>2, <1>3 DEF Began, Run

(* A recipe that advances leaves the types. *)
LEMMA RecipeTypes ==
  ASSUME NEW n, NEW check, NEW r \in Run,
         r.recipe \notin Several => \E k \in Keys : r.keys = {k},
         AdvanceThenRun(n, check, r)
  PROVE  RunTypeOK'
<1>1. CASE End("panics", r, TRUE) \/ End("failed", r, TRUE)
  BY <1>1, EndTypes DEF Results
<1>2. CASE run' = r /\ verdict' = None
  BY <1>2, NoneTyped DEF RunTypeOK, SingleKey, Running
<1> QED BY <1>1, <1>2 DEF AdvanceThenRun

(* So does one that begins. *)
LEMMA BeginTypes ==
  ASSUME Inv, NEW recipe \in Recipes, NEW keys \in SUBSET Keys, NEW n, NEW check,
         recipe \notin Several => \E k \in Keys : keys = {k},
         Begin(recipe, keys, n, check)
  PROVE  RunTypeOK'
<1>1. CASE \A k \in keys : Live(k)
  <2>1. Began(recipe, keys) \in Run
    BY <1>1, BeganTypes
  <2>2. Began(recipe, keys).recipe = recipe /\ Began(recipe, keys).keys = keys
    BY DEF Began
  <2>3. AdvanceThenRun(n, check, Began(recipe, keys))
    BY <1>1 DEF Begin
  <2> HIDE DEF Several
  <2> QED BY <2>1, <2>2, <2>3, RecipeTypes
<1>2. CASE End("panics", NoRun, TRUE)
  BY <1>2, EndTypes DEF Results
<1> QED BY <1>1, <1>2 DEF Begin

(* A step of the closure leaves the type of the run it is in. *)
LEMMA NotingTypes ==
  ASSUME RunTypeOK, NEW calls \in {"none", "reads", "writes"}, NEW moved \in BOOLEAN,
         Noting(calls, moved)
  PROVE  RunTypeOK'
<1>1. CASE ~Running
  BY <1>1, NoneTyped DEF Noting, RunTypeOK, SingleKey, Running
<1>2. CASE Running
  <2>1. run \in Run
    BY <1>2 DEF RunTypeOK, Running
  <2>2. PICK c \in {"none", "reads", "writes"}, m \in BOOLEAN :
          run' = [run EXCEPT !.calls = c, !.moved = m]
    BY <1>2, <2>1 DEF Noting, Run
  <2>3. run' \in Run /\ run'.recipe = run.recipe /\ run'.keys = run.keys
    BY <2>1, <2>2 DEF Run
  <2>4. verdict' = None
    BY DEF Noting
  <2> QED BY <1>2, <2>3, <2>4, NoneTyped DEF RunTypeOK, SingleKey
<1> QED BY <1>1, <1>2

(* So begins one that judges a single entry. *)
LEMMA SingleBeginTypes ==
  ASSUME Inv, NEW recipe \in Recipes, NEW k \in Keys, NEW n, NEW check,
         Begin(recipe, {k}, n, check)
  PROVE  RunTypeOK'
<1>1. {k} \in SUBSET Keys /\ \E j \in Keys : {k} = {j}
  OBVIOUS
<1> QED BY <1>1, BeginTypes

(* Every recipe begins with the types in place. *)
LEMMA StartTypes ==
  ASSUME Inv, Start
  PROVE  RunTypeOK'
<1>1. ASSUME NEW recipe \in Measuring, NEW keys \in SUBSET Keys,
             StartMeasuring(recipe, keys)
      PROVE  RunTypeOK'
  BY <1>1, BeginTypes DEF StartMeasuring, Recipes
<1>2. CASE StartSurvivesExpiry
  BY <1>2, BeginTypes DEF StartSurvivesExpiry, Recipes
<1>3. ASSUME NEW k \in Keys, StartRunsBeforeExpiry(k)
      PROVE  RunTypeOK'
  <2>1. CASE Begin("assert_runs_before_expiry", {k}, ttl_of(k) - 1, TRUE)
    BY <2>1, BeginTypes DEF Recipes
  <2>2. CASE Live(k) /\ End("refused", Began("assert_runs_before_expiry", {k}), TRUE)
    BY <2>2, BeganTypes, EndTypes DEF Results, Recipes
  <2> QED BY <1>3, <2>1, <2>2 DEF StartRunsBeforeExpiry
<1>4. ASSUME NEW k \in Keys, StartRunsAfterExpiry(k)
      PROVE  RunTypeOK'
  <2>1. \E n, check : Begin("assert_runs_after_expiry", {k}, n, check)
    BY <1>4 DEF StartRunsAfterExpiry
  <2>2. "assert_runs_after_expiry" \in Recipes
    BY DEF Recipes
  <2> QED BY <2>1, <2>2, SingleBeginTypes
<1>5. ASSUME NEW k \in Keys, StartRecoversAfterExpiry(k)
      PROVE  RunTypeOK'
  <2>1. \E n, check : Begin("assert_recovers_after_expiry", {k}, n, check)
    BY <1>5 DEF StartRecoversAfterExpiry
  <2>2. "assert_recovers_after_expiry" \in Recipes
    BY DEF Recipes
  <2> QED BY <2>1, <2>2, SingleBeginTypes
<1>6. ASSUME NEW k \in Keys, StartTemporaryExpires(k)
      PROVE  RunTypeOK'
  <2>1. Begin("assert_temporary_expires", {k}, PastExpiry(k),
              ~PresentAt(k, sequence + PastExpiry(k)))
    BY <1>6 DEF StartTemporaryExpires
  <2>2. "assert_temporary_expires" \in Recipes
    BY DEF Recipes
  <2> QED BY <2>1, <2>2, SingleBeginTypes
<1>7. ASSUME NEW k \in Keys, StartExpiryBoundary(k)
      PROVE  RunTypeOK'
  <2>1. \E n, check : Begin("assert_temporary_expiry_boundary", {k}, n, check)
    BY <1>7 DEF StartExpiryBoundary
  <2>2. "assert_temporary_expiry_boundary" \in Recipes
    BY DEF Recipes
  <2> QED BY <2>1, <2>2, SingleBeginTypes
<1>8. ASSUME NEW k \in Keys, StartExtensionDefersExpiry(k)
      PROVE  RunTypeOK'
  <2>1. \E n, check : Begin("assert_temporary_extension_defers_expiry", {k}, n, check)
    BY <1>8 DEF StartExtensionDefersExpiry
  <2>2. "assert_temporary_extension_defers_expiry" \in Recipes
    BY DEF Recipes
  <2> QED BY <2>1, <2>2, SingleBeginTypes
<1>9. ASSUME NEW k \in Keys, StartTtlDelta(k)
      PROVE  RunTypeOK'
  <2>1. \E n, check : Begin("assert_ttl_delta", {k}, n, check)
    BY <1>9 DEF StartTtlDelta
  <2>2. "assert_ttl_delta" \in Recipes
    BY DEF Recipes
  <2> QED BY <2>1, <2>2, SingleBeginTypes
<1> QED BY <1>1, <1>2, <1>3, <1>4, <1>5, <1>6, <1>7, <1>8, <1>9 DEF Start

(* A TTL judged at once leaves the storage alone and the types in place. *)
LEMMA CheckKeeps ==
  ASSUME Inv, Check
  PROVE  Inv' /\ RunTypeOK'
<1>1. PICK k \in Keys, min_ttl \in Expectations \cap Nat : AssertTtlAtLeast(k, min_ttl)
  BY DEF Check
<1>2. Inv'
  BY <1>1, StayingPutKeeps DEF AssertTtlAtLeast
<1>3. CASE Live(k)
  <2> DEFINE began == Began("assert_ttl_at_least", {k})
             judged == [began EXCEPT !.expected = min_ttl]
  <2>1. began \in Run
    BY <1>3, BeganTypes DEF Recipes
  <2>2. judged \in Run
    BY <2>1 DEF Run
  <2>3. PICK result \in Results : End(result, judged, TRUE)
    BY <1>1, <1>3 DEF AssertTtlAtLeast, Results
  <2> HIDE DEF judged
  <2> QED BY <1>2, <2>2, <2>3, EndTypes
<1>4. CASE ~Live(k)
  BY <1>1, <1>2, <1>4, EndTypes DEF AssertTtlAtLeast, Results
<1> QED BY <1>3, <1>4

(* The test's own code keeps the types. *)
LEMMA TestCodeTypes ==
  ASSUME RunTypeOK, TestCode
  PROVE  RunTypeOK'
<1>1. PICK calls \in {"none", "reads", "writes"}, moved \in BOOLEAN :
        Noting(calls, moved)
  BY DEF TestCode, CallGet, CallSet, CallExtend, CallRemove, AdvanceLedgers,
         RestoreCheckpoint
<1> QED BY <1>1, NotingTypes

(* Every verdict has its type. *)
LEMMA JudgeTypes ==
  ASSUME RunTypeOK, Judge
  PROVE  RunTypeOK'
<1>1. Running /\ run \in Run
  BY DEF RunTypeOK, Running, Judge, ClosurePanics, JudgeMeasuring, JudgeRunning,
         JudgeRecovers, JudgeTemporaryExpires, JudgeLastLiveLedger,
         JudgeFirstExpiredLedger, JudgeExtensionDefersExpiry, JudgeTtlDelta
<1>2. ASSUME NEW seen PROVE Honest(seen) \in BOOLEAN
  BY DEF Honest
<1>3. ASSUME NEW result \in Results, NEW h \in BOOLEAN, End(result, run, h)
      PROVE  RunTypeOK'
  BY <1>1, <1>3, EndTypes
<1>4. CASE ClosurePanics
  BY <1>3, <1>4 DEF ClosurePanics, Results
<1>5. CASE JudgeMeasuring
  BY <1>3, <1>5 DEF JudgeMeasuring, Results
<1>6. CASE JudgeRunning
  BY <1>3, <1>6 DEF JudgeRunning, Results
<1>7. CASE JudgeExtensionDefersExpiry
  BY <1>3, <1>7 DEF JudgeExtensionDefersExpiry, Results
<1>8. ASSUME NEW seen, JudgeRecovers(seen)
      PROVE  RunTypeOK'
  BY <1>2, <1>3, <1>8 DEF JudgeRecovers, Results
<1>9. ASSUME NEW seen, JudgeTemporaryExpires(seen)
      PROVE  RunTypeOK'
  BY <1>2, <1>3, <1>9 DEF JudgeTemporaryExpires, Results
<1>10. ASSUME NEW seen, JudgeLastLiveLedger(seen)
       PROVE  RunTypeOK'
  <2>1. CASE End("failed", run, Honest(seen))
    BY <1>2, <1>3, <2>1 DEF Results
  <2>2. CASE AdvanceThenRun(1, ~PresentAt(TheKey, sequence + 1),
                            [run EXCEPT !.second = TRUE])
    <3> DEFINE r == [run EXCEPT !.second = TRUE]
    <3>1. r \in Run /\ r.recipe = run.recipe /\ r.keys = run.keys
      BY <1>1 DEF Run
    <3>2. r.recipe \notin Several => \E k \in Keys : r.keys = {k}
      BY <1>1, <3>1 DEF RunTypeOK, SingleKey
    <3>3. AdvanceThenRun(1, ~PresentAt(TheKey, sequence + 1), r)
      BY <2>2
    <3> HIDE DEF r, Several
    <3> QED BY <3>1, <3>2, <3>3, RecipeTypes
  <2> QED BY <1>10, <2>1, <2>2 DEF JudgeLastLiveLedger
<1>11. ASSUME NEW seen, JudgeFirstExpiredLedger(seen)
       PROVE  RunTypeOK'
  BY <1>2, <1>3, <1>11 DEF JudgeFirstExpiredLedger, Results
<1>12. ASSUME NEW expected_delta \in Expectations, JudgeTtlDelta(expected_delta)
       PROVE  RunTypeOK'
  <2> DEFINE judged == [run EXCEPT !.expected = expected_delta]
  <2>1. judged \in Run
    BY <1>1 DEF Run
  <2>2. PICK result \in Results : End(result, judged, TRUE)
    BY <1>12 DEF JudgeTtlDelta, Results
  <2> HIDE DEF judged
  <2> QED BY <2>1, <2>2, EndTypes
<1> QED BY <1>4, <1>5, <1>6, <1>7, <1>8, <1>9, <1>10, <1>11, <1>12 DEF Judge

(* Judging moves the ledger on, if at all. *)
LEMMA JudgeKeeps ==
  ASSUME Inv, RunTypeOK, Judge
  PROVE  Inv'
<1>1. CASE JudgeExtensionDefersExpiry
  <2> DEFINE n == SaturatingAdd(run.before[TheKey], 1)
  <2>1. Running /\ run.recipe = "assert_temporary_extension_defers_expiry"
    BY <1>1 DEF JudgeExtensionDefersExpiry
  <2>2. run \in Run
    BY <2>1 DEF RunTypeOK, Running
  <2>3. TheKey \in Keys
    BY <2>1 DEF RunTypeOK, SingleKey, TheKey, KeyOf, Measuring
  <2>4. run.before[TheKey] \in Nat
    BY <2>2, <2>3 DEF Run
  <2>5. n \in Nat
    BY <2>4, SaturatingAddsUp
  <2>6. /\ sequence' = sequence \/ (CanAdvance(n) /\ sequence' = sequence + n)
        /\ UNCHANGED <<max_entry_ttl, store>>
    BY <1>1 DEF JudgeExtensionDefersExpiry
  <2>7. sequence \in 0..MaxSequence
    BY DEF Inv, StorageTypeOK
  <2> HIDE DEF n
  <2>8. sequence' \in 0..MaxSequence /\ sequence <= sequence'
    BY <2>5, <2>6, <2>7 DEF CanAdvance
  <2> QED BY <2>6, <2>8, MovingOnKeeps
<1>2. ASSUME NEW seen, JudgeLastLiveLedger(seen)
      PROVE  Inv'
  <2>1. CASE UNCHANGED storageVars
    BY <2>1, StayingPutKeeps
  <2>2. CASE AdvanceThenRun(1, ~PresentAt(TheKey, sequence + 1),
                            [run EXCEPT !.second = TRUE])
    BY <2>2, RecipeMovesOn
  <2> QED BY <1>2, <2>1, <2>2 DEF JudgeLastLiveLedger
<1>3. CASE UNCHANGED storageVars
  BY <1>3, StayingPutKeeps
<1> QED BY <1>1, <1>2, <1>3 DEF Judge, ClosurePanics, JudgeMeasuring, JudgeRunning,
           JudgeRecovers, JudgeTemporaryExpires, JudgeFirstExpiredLedger, JudgeTtlDelta

--------------------------------------------------------------------------------

(* An empty storage satisfies the invariant. *)
LEMMA InitInv == Init => Inv /\ RunTypeOK
<1> SUFFICES ASSUME Init PROVE Inv /\ RunTypeOK
  OBVIOUS
<1>1. [value |-> NoValue, live_until |-> 0] \in Entry
  BY DEF Entry
<1>2. StorageTypeOK
  BY <1>1 DEF Init, StorageTypeOK
<1>3. max_entry_ttl \in Nat \ {0}
  BY <1>2 DEF StorageTypeOK
<1>4. WithinMax
  <2>1. sequence = 0 /\ \A k \in Keys : store[k].live_until = 0
    BY DEF Init
  <2>2. ASSUME NEW k \in Keys
        PROVE  store[k].live_until < sequence + max_entry_ttl
    <3>1. sequence = 0 /\ store[k].live_until = 0
      BY <2>1
    <3>2. max_entry_ttl \in Nat /\ 0 < max_entry_ttl
      BY <1>3
    <3> QED BY <3>1, <3>2
  <2> QED BY <2>2 DEF WithinMax
<1>5. RunTypeOK
  BY NoneTyped DEF Init, RunTypeOK, SingleKey, Running
<1> QED BY <1>2, <1>4, <1>5 DEF Inv

(* The invariant is inductive. *)
LEMMA NextInv ==
  ASSUME Inv, RunTypeOK, [Next]_vars
  PROVE  Inv' /\ RunTypeOK'
<1>1. CASE UNCHANGED vars
  BY <1>1, StayingPutKeeps DEF vars, storageVars, RunTypeOK, SingleKey, Running
<1> QED BY <1>1, StartKeeps, StartTypes, CheckKeeps, TestCodeKeeps, TestCodeTypes,
           JudgeKeeps, JudgeTypes DEF Next

(* It therefore holds throughout. *)
LEMMA AlwaysInv == Spec => [](Inv /\ RunTypeOK)
<1>1. Inv /\ RunTypeOK /\ [Next]_vars => (Inv /\ RunTypeOK)'
  BY NextInv
<1> QED BY <1>1, InitInv, PTL DEF Spec

(* No step of a test leaves the types, rewound or not: no call makes an    *)
(* entry's last live ledger overflow, and no recipe advances by a negative *)
(* TTL.                                                                    *)
THEOREM TypeCorrect == Spec => []TypeOK
<1>1. Inv /\ RunTypeOK => TypeOK
  BY DEF Inv, RunTypeOK, TypeOK
<1>2. Spec => [](Inv /\ RunTypeOK)
  BY AlwaysInv
<1> QED BY <1>1, <1>2, PTL

--------------------------------------------------------------------------------
(* Where a recipe that has just begun has taken the ledger *)

(* What is known when a closure is reached. *)
LEMMA BeginRuns ==
  ASSUME NEW recipe, NEW keys, NEW n, NEW check,
         Begin(recipe, keys, n, check), Running'
  PROVE  /\ run'.recipe = recipe
         /\ run'.keys = keys
         /\ sequence' = sequence + n
         /\ UNCHANGED <<max_entry_ttl, store>>
         /\ \A k \in keys : Live(k)
<1>1. ASSUME NEW result, NEW r, NEW h, End(result, r, h) PROVE FALSE
  BY <1>1 DEF End, Running
<1>2. \A k \in keys : Live(k)
  BY <1>1 DEF Begin
<1>3. AdvanceThenRun(n, check, Began(recipe, keys))
  BY <1>2 DEF Begin
<1>4. run' = Began(recipe, keys) /\ sequence' = sequence + n
  BY <1>1, <1>3 DEF AdvanceThenRun
<1> QED BY <1>2, <1>3, <1>4 DEF Began, AdvanceThenRun

(* A recipe that has ended runs no closure. *)
LEMMA EndedRunsNot ==
  ASSUME NEW result, NEW r, NEW h, End(result, r, h)
  PROVE  ~Running'
BY DEF End, Running

(* Only the start of a recipe makes one run that did not. *)
LEMMA OnlyStarts ==
  ASSUME [Next]_vars, ~Running, Running'
  PROVE  Start
<1>1. ~Judge
  BY DEF Judge, ClosurePanics, JudgeMeasuring, JudgeRunning, JudgeRecovers,
         JudgeTemporaryExpires, JudgeLastLiveLedger, JudgeFirstExpiredLedger,
         JudgeExtensionDefersExpiry, JudgeTtlDelta
<1>2. ~TestCode
  BY DEF TestCode, CallGet, CallSet, CallExtend, CallRemove, AdvanceLedgers,
         RestoreCheckpoint, Noting, Running
<1>3. ~UNCHANGED vars
  BY DEF vars, Running
<1>4. ~Check
  BY DEF Check, AssertTtlAtLeast, End, Running
<1> QED BY <1>1, <1>2, <1>3, <1>4 DEF Next

(* Who takes the ledger past an entry's boundary, and by how much. *)
LEMMA StartedPast ==
  ASSUME [Next]_vars, Started(PastBoundary)
  PROVE  \E k \in Keys : /\ Live(k)
                         /\ run'.keys = {k}
                         /\ sequence' = sequence + PastExpiry(k)
                         /\ UNCHANGED store
<1>1. Start /\ Running' /\ run'.recipe \in PastBoundary
  BY OnlyStarts DEF Started
<1>2. ASSUME NEW recipe, NEW keys, NEW n, NEW check, Begin(recipe, keys, n, check)
      PROVE  /\ recipe \in PastBoundary
             /\ run'.keys = keys /\ sequence' = sequence + n /\ UNCHANGED store
             /\ \A k \in keys : Live(k)
  BY <1>1, <1>2, BeginRuns
<1>3. ASSUME NEW k \in Keys, StartRunsBeforeExpiry(k) PROVE FALSE
  <2>1. "assert_runs_before_expiry" \in PastBoundary
    BY <1>1, <1>2, <1>3, EndedRunsNot DEF StartRunsBeforeExpiry
  <2> QED BY <2>1 DEF PastBoundary
<1>4. ~StartSurvivesExpiry
  <2>1. StartSurvivesExpiry => "assert_survives_expiry" \in PastBoundary
    BY <1>2 DEF StartSurvivesExpiry
  <2> QED BY <2>1 DEF PastBoundary
<1>5. ASSUME NEW recipe \in Measuring, NEW keys, StartMeasuring(recipe, keys)
      PROVE  FALSE
  BY <1>2, <1>5 DEF StartMeasuring, PastBoundary, Measuring
<1>6. ASSUME NEW k \in Keys,
             StartExpiryBoundary(k) \/ StartExtensionDefersExpiry(k) \/ StartTtlDelta(k)
      PROVE  FALSE
  <2>1. \/ "assert_temporary_expiry_boundary" \in PastBoundary
        \/ "assert_temporary_extension_defers_expiry" \in PastBoundary
        \/ "assert_ttl_delta" \in PastBoundary
    BY <1>2, <1>6 DEF StartExpiryBoundary, StartExtensionDefersExpiry, StartTtlDelta
  <2> QED BY <2>1 DEF PastBoundary
<1>7. PICK k \in Keys : \/ StartRunsAfterExpiry(k)
                        \/ StartRecoversAfterExpiry(k)
                        \/ StartTemporaryExpires(k)
  BY <1>1, <1>3, <1>4, <1>5, <1>6 DEF Start
<1>8. PICK recipe, check : Begin(recipe, {k}, PastExpiry(k), check)
  BY <1>7 DEF StartRunsAfterExpiry, StartRecoversAfterExpiry, StartTemporaryExpires
<1> QED BY <1>2, <1>8

(* assert_survives_expiry begins by moving the ledger, and that alone. *)
LEMMA StartedExpire ==
  ASSUME [Next]_vars, Started({"assert_survives_expiry"})
  PROVE  sequence' = sequence + ExpireLedgers /\ UNCHANGED store
<1>1. Start /\ Running' /\ run'.recipe \in {"assert_survives_expiry"}
  BY OnlyStarts DEF Started
<1>2. ASSUME NEW recipe, NEW keys, NEW n, NEW check, Begin(recipe, keys, n, check)
      PROVE  /\ recipe \in {"assert_survives_expiry"}
             /\ sequence' = sequence + n /\ UNCHANGED store
  BY <1>1, <1>2, BeginRuns
<1>3. ASSUME NEW k \in Keys, StartRunsBeforeExpiry(k) PROVE FALSE
  <2>1. "assert_runs_before_expiry" \in {"assert_survives_expiry"}
    BY <1>1, <1>2, <1>3, EndedRunsNot DEF StartRunsBeforeExpiry
  <2> QED BY <2>1
<1>4. ASSUME NEW recipe \in Measuring, NEW keys, StartMeasuring(recipe, keys)
      PROVE  FALSE
  BY <1>2, <1>4 DEF StartMeasuring, Measuring
<1>5. ASSUME NEW k \in Keys,
             \/ StartRunsAfterExpiry(k) \/ StartRecoversAfterExpiry(k)
             \/ StartTemporaryExpires(k) \/ StartExpiryBoundary(k)
             \/ StartExtensionDefersExpiry(k) \/ StartTtlDelta(k)
      PROVE  FALSE
  <2> DEFINE Expires == {"assert_survives_expiry"}
  <2>1. \/ "assert_runs_after_expiry" \in Expires
        \/ "assert_recovers_after_expiry" \in Expires
        \/ "assert_temporary_expires" \in Expires
        \/ "assert_temporary_expiry_boundary" \in Expires
        \/ "assert_temporary_extension_defers_expiry" \in Expires
        \/ "assert_ttl_delta" \in Expires
    BY <1>2, <1>5 DEF StartRunsAfterExpiry, StartRecoversAfterExpiry,
       StartTemporaryExpires, StartExpiryBoundary, StartExtensionDefersExpiry,
       StartTtlDelta
  <2> QED BY <2>1
<1>6. StartSurvivesExpiry
  BY <1>1, <1>3, <1>4, <1>5 DEF Start
<1> QED BY <1>2, <1>6 DEF StartSurvivesExpiry

(* expire leaves no entry live, for any settings of the ledger and however *)
(* the contract extended its entries, since none outlives the cap.         *)
THEOREM ExpiryKills ==
  ASSUME Rewinds = {}
  PROVE  Spec => ExpireKillsAll
<1>1. ASSUME Inv, WithinMax, [Next]_vars, Started({"assert_survives_expiry"}),
             NEW k \in Keys
      PROVE  ~Live(k)'
  <2>1. sequence' = sequence + ExpireLedgers /\ store' = store
    BY <1>1, StartedExpire
  <2>2. sequence \in Nat /\ store[k].live_until \in Nat
        /\ store[k].live_until < sequence + max_entry_ttl
    BY <1>1 DEF Inv, StorageTypeOK, Entry, WithinMax
  <2>3. ExpireLedgers \in Nat /\ max_entry_ttl <= ExpireLedgers
    BY <1>1, MaxTtlNat, SaturatingAddsUp DEF ExpireLedgers
  <2> QED BY <1>1, <2>1, <2>2, <2>3, MaxTtlNat DEF Live
<1>2. Spec => [](Inv /\ RunTypeOK)
  BY AlwaysInv
<1>3. Inv /\ WithinMax /\ [Next]_vars =>
        [Started({"assert_survives_expiry"}) => \A k \in Keys : ~Live(k)']_vars
  BY <1>1
<1>4. Inv => WithinMax
  BY DEF Inv
<1> QED BY <1>2, <1>3, <1>4, PTL DEF Spec, ExpireKillsAll

(* A recipe that pushes one entry past its boundary leaves live every      *)
(* entry that has more headroom than that one.                             *)
THEOREM SiblingsLive == Spec => SiblingsSurvive
<1>1. ASSUME Inv, [Next]_vars, Started(PastBoundary), NEW k \in Keys, Live(k),
             \E j \in run'.keys : store[k].live_until > store[j].live_until
      PROVE  Live(k)'
  <2>1. PICK j \in Keys : /\ Live(j)
                          /\ run'.keys = {j}
                          /\ sequence' = sequence + PastExpiry(j)
                          /\ UNCHANGED store
    BY <1>1, StartedPast
  <2>2. store[k].live_until > store[j].live_until
    BY <1>1, <2>1
  <2>3. /\ sequence \in Nat /\ store[j].live_until \in Nat
        /\ store[k].live_until \in Nat /\ sequence <= store[j].live_until
    BY <1>1, <2>1 DEF Inv, StorageTypeOK, Entry, Live
  <2>4. PastExpiry(j) \in Nat /\ PastExpiry(j) <= ttl_of(j) + 1
    BY <1>1, <2>1, LiveTtl, SaturatingAddsUp DEF PastExpiry
  <2>5. sequence' <= store[k].live_until
    BY <2>1, <2>2, <2>3, <2>4 DEF ttl_of
  <2> QED BY <1>1, <2>1, <2>5 DEF Live, Stored
<1>2. Spec => [](Inv /\ RunTypeOK)
  BY AlwaysInv
<1>3. Inv /\ [Next]_vars =>
        [Started(PastBoundary) =>
           \A k \in Keys :
             /\ Live(k)
             /\ \E j \in run'.keys : store[k].live_until > store[j].live_until
             => Live(k)']_vars
  BY <1>1
<1> QED BY <1>2, <1>3, PTL DEF Spec, SiblingsSurvive

--------------------------------------------------------------------------------
(* Verdicts: what holds while a closure runs, and when it has. *)

(* Recipes whose closure runs on the ledger the timeline was taken on. *)
Staying == Measuring \cup {"assert_ttl_delta", "assert_temporary_extension_defers_expiry"}

OfTemporary == {"assert_temporary_expires", "assert_temporary_expiry_boundary"}

(* How far past the entry's last live ledger the boundary recipe is. *)
Past(r) == IF r.second THEN 1 ELSE 0

(* Until the closure calls the contract, the timeline tells of the entry.  *)
Recorded(k) ==
  /\ Stored(k)
  /\ store[k].value = run.value[k]
  /\ store[k].live_until = ExpiresAt(run, k)

Untouched == Running /\ run.calls = "none" => \A k \in run.keys : Recorded(k)

(* Where the ledger is, unless the closure moved it. *)
Placed ==
  /\ run.recipe \in Staying => sequence = run.current
  /\ run.recipe = "assert_runs_before_expiry" =>
       \A k \in run.keys : sequence + 1 = ExpiresAt(run, k)
  /\ run.recipe \in PastBoundary =>
       \A k \in run.keys : sequence = ExpiresAt(run, k) + 1
  /\ run.recipe = "assert_temporary_expiry_boundary" =>
       \A k \in run.keys : sequence = ExpiresAt(run, k) + Past(run)

(* What reads leave of an entry: all of it, or a new TTL once archived. *)
Intact(k) ==
  /\ Stored(k)
  /\ store[k].value = run.value[k]
  /\ \/ store[k].live_until = ExpiresAt(run, k)
     \/ /\ ExpiresAt(run, k) < sequence
        /\ ~Temporary(k)
        /\ store[k].live_until = FirstLiveUntil(k)

Undisturbed ==
  Running /\ Quiet(run) /\ Roomy(run) => Placed /\ \A k \in run.keys : Intact(k)

Bounded == Running => Roomy(run)

(* Where the ledger is at least, if it is never taken back. *)
Onward ==
  Running =>
    /\ run.current <= sequence
    /\ run.recipe \in PastBoundary =>
         \A k \in run.keys : ExpiresAt(run, k) < sequence
    /\ run.recipe = "assert_temporary_expiry_boundary" =>
         \A k \in run.keys : ExpiresAt(run, k) + Past(run) <= sequence

OnlyTemporary ==
  Running /\ run.recipe \in OfTemporary => \A k \in run.keys : Temporary(k)

RunInv ==
  /\ Untouched
  /\ OnlyTemporary
  /\ Undisturbed
  /\ Rewinds = {} => Bounded /\ Onward

HIDE RecipeAssumption DEF Several

USE DEF Staying, OfTemporary, PastBoundary, Measuring

--------------------------------------------------------------------------------
(* The beginning of a recipe *)

(* The advance each recipe begins with, and what it asks of its entries. *)
BeginsWith(recipe, keys, n) ==
  /\ recipe \in Recipes
  /\ keys \in SUBSET Keys
  /\ recipe \in Staying => n = 0
  /\ recipe = "assert_runs_before_expiry" => \A k \in keys : n = ttl_of(k) - 1
  /\ recipe \in PastBoundary => \A k \in keys : n = PastExpiry(k)
  /\ recipe = "assert_temporary_expiry_boundary" => \A k \in keys : n = ttl_of(k)
  /\ recipe \in OfTemporary => \A k \in keys : Temporary(k)
  /\ (\A k \in keys : Live(k)) => n \in Nat

(* An entry's TTL and the ledger one past it.  Only a rewind gives an entry *)
(* the largest TTL there is.                                               *)
LEMMA PastExpiryIs ==
  ASSUME Inv, NEW k \in Keys, Live(k)
  PROVE  /\ PastExpiry(k) \in Nat
         /\ ttl_of(k) <= PastExpiry(k)
         /\ ttl_of(k) < MaxSequence => PastExpiry(k) = ttl_of(k) + 1
         /\ Rewinds = {} => ttl_of(k) < MaxSequence
<1>1. ttl_of(k) \in Nat /\ ttl_of(k) <= MaxSequence
  BY LiveTtl
<1>2. Rewinds = {} => ttl_of(k) < MaxSequence
  <2>1. sequence \in Nat /\ store[k].live_until \in Nat
    BY DEF Inv, StorageTypeOK, Entry
  <2>2. Rewinds = {} => store[k].live_until < sequence + max_entry_ttl
    BY DEF Inv, WithinMax
  <2> QED BY <2>1, <2>2, MaxTtlNat DEF ttl_of
<1> QED BY <1>1, <1>2, SaturatingAddsUp DEF PastExpiry

(* Every recipe that reaches its closure began so. *)
LEMMA StartBegins ==
  ASSUME Inv, Start
  PROVE  \/ \E recipe, keys, n : Begin(recipe, keys, n, TRUE) /\ BeginsWith(recipe, keys, n)
         \/ \E k \in Keys :
              LET recipe == "assert_recovers_after_expiry"
                  n == PastExpiry(k)
              IN  /\ Begin(recipe, {k}, n, expired_at(Began(recipe, {k}), k, sequence + n))
                  /\ BeginsWith(recipe, {k}, n)
         \/ \E k \in Keys :
              LET n == PastExpiry(k)
              IN  /\ Begin("assert_temporary_expires", {k}, n, ~PresentAt(k, sequence + n))
                  /\ BeginsWith("assert_temporary_expires", {k}, n)
         \/ \E k \in Keys :
              LET n == ttl_of(k)
              IN  /\ Begin("assert_temporary_expiry_boundary", {k}, n,
                           PresentAt(k, sequence + n))
                  /\ BeginsWith("assert_temporary_expiry_boundary", {k}, n)
         \/ /\ UNCHANGED storageVars
            /\ \E r : End("refused", r, TRUE)
<1>1. ASSUME NEW recipe \in Measuring, NEW keys \in SUBSET Keys,
             StartMeasuring(recipe, keys)
      PROVE  Begin(recipe, keys, 0, TRUE) /\ BeginsWith(recipe, keys, 0)
  BY <1>1 DEF StartMeasuring, BeginsWith, Recipes
<1>2. ASSUME StartSurvivesExpiry
      PROVE  /\ Begin("assert_survives_expiry", {}, ExpireLedgers, TRUE)
             /\ BeginsWith("assert_survives_expiry", {}, ExpireLedgers)
  <2>1. ExpireLedgers \in Nat
    BY SaturatingAddsUp, MaxTtlNat DEF ExpireLedgers
  <2> QED BY <1>2, <2>1 DEF StartSurvivesExpiry, BeginsWith, Recipes
<1>3. ASSUME NEW k \in Keys, ~(Live(k) /\ ttl_of(k) = 0)
      PROVE  BeginsWith("assert_runs_before_expiry", {k}, ttl_of(k) - 1)
  BY <1>3, LiveTtl DEF BeginsWith, Recipes
<1>4. ASSUME NEW k \in Keys
      PROVE  /\ BeginsWith("assert_runs_after_expiry", {k}, PastExpiry(k))
             /\ BeginsWith("assert_recovers_after_expiry", {k}, PastExpiry(k))
             /\ Temporary(k) => BeginsWith("assert_temporary_expires", {k}, PastExpiry(k))
             /\ Temporary(k) =>
                  BeginsWith("assert_temporary_expiry_boundary", {k}, ttl_of(k))
             /\ BeginsWith("assert_temporary_extension_defers_expiry", {k}, 0)
             /\ BeginsWith("assert_ttl_delta", {k}, 0)
  <2>1. Live(k) => PastExpiry(k) \in Nat /\ ttl_of(k) \in Nat
    BY PastExpiryIs, LiveTtl
  <2> QED BY <2>1 DEF BeginsWith, Recipes
<1>5. ASSUME NEW k \in Keys, StartRunsBeforeExpiry(k)
      PROVE  \/ \E recipe, keys, n :
                  Begin(recipe, keys, n, TRUE) /\ BeginsWith(recipe, keys, n)
             \/ UNCHANGED storageVars /\ \E r : End("refused", r, TRUE)
  BY <1>3, <1>5 DEF StartRunsBeforeExpiry
<1>6. ASSUME NEW k \in Keys,
             \/ StartRunsAfterExpiry(k)
             \/ StartExtensionDefersExpiry(k)
             \/ StartTtlDelta(k)
      PROVE  \E recipe, keys, n :
               Begin(recipe, keys, n, TRUE) /\ BeginsWith(recipe, keys, n)
  BY <1>4, <1>6 DEF StartRunsAfterExpiry, StartExtensionDefersExpiry, StartTtlDelta
<1> QED BY <1>1, <1>2, <1>4, <1>5, <1>6 DEF Start, StartRecoversAfterExpiry,
           StartTemporaryExpires, StartExpiryBoundary

(* What a recipe finds when it reaches its closure. *)
LEMMA BegunRecords ==
  ASSUME Inv, NEW recipe, NEW keys, NEW n, NEW check,
         BeginsWith(recipe, keys, n), Begin(recipe, keys, n, check), Running'
  PROVE  /\ run' = Began(recipe, keys)
         /\ sequence' = sequence + n
         /\ UNCHANGED <<max_entry_ttl, store>>
         /\ sequence \in Nat /\ n \in Nat
         /\ \A k \in keys : /\ Live(k)
                            /\ store[k].live_until \in Nat
                            /\ ttl_of(k) \in Nat
                            /\ run'.before[k] = ttl_of(k)
                            /\ run'.value[k] = store[k].value
                            /\ ExpiresAt(run', k) = store[k].live_until
                            /\ ExpiresAt(run', k) = sequence + ttl_of(k)
<1>1. ASSUME NEW result, NEW r, NEW h, End(result, r, h) PROVE FALSE
  BY <1>1 DEF End, Running
<1>2. \A k \in keys : Live(k)
  BY <1>1 DEF Begin
<1>3. AdvanceThenRun(n, check, Began(recipe, keys))
  BY <1>2 DEF Begin
<1>4. /\ run' = Began(recipe, keys) /\ sequence' = sequence + n
      /\ UNCHANGED <<max_entry_ttl, store>>
  BY <1>1, <1>3 DEF AdvanceThenRun
<1>5. sequence \in Nat /\ n \in Nat
  BY <1>2 DEF Inv, StorageTypeOK, BeginsWith
<1>6. ASSUME NEW k \in keys
      PROVE  /\ Live(k)
             /\ store[k].live_until \in Nat
             /\ ttl_of(k) \in Nat
             /\ run'.before[k] = ttl_of(k)
             /\ run'.value[k] = store[k].value
             /\ ExpiresAt(run', k) = store[k].live_until
             /\ ExpiresAt(run', k) = sequence + ttl_of(k)
  <2>1. k \in Keys /\ Live(k)
    BY <1>2 DEF BeginsWith
  <2>2. run'.current = sequence /\ run'.before[k] = ttl_of(k)
        /\ run'.value[k] = store[k].value
    BY <1>4, <2>1 DEF Began
  <2>3. store[k].live_until \in Nat
    BY <2>1 DEF Inv, StorageTypeOK, Entry
  <2>4. ExpiresAt(run', k) = sequence + ttl_of(k)
    BY <2>2 DEF ExpiresAt
  <2>5. ttl_of(k) \in Nat /\ sequence + ttl_of(k) = store[k].live_until
    BY <1>5, <2>1, <2>3, LiveTtl DEF ttl_of
  <2> QED BY <2>1, <2>2, <2>3, <2>4, <2>5
<1> QED BY <1>4, <1>5, <1>6

(* The invariant holds wherever a closure is reached. *)
LEMMA BegunInv ==
  ASSUME Inv, NEW recipe, NEW keys, NEW n, NEW check,
         BeginsWith(recipe, keys, n), Begin(recipe, keys, n, check), Running'
  PROVE  RunInv'
<1>1. /\ run'.recipe = recipe /\ run'.keys = keys /\ run'.current = sequence
      /\ run'.second = FALSE
  BY BegunRecords DEF Began
<1>2. /\ sequence' = sequence + n /\ sequence \in Nat /\ n \in Nat
      /\ \A k \in keys : k \in Keys
  BY BegunRecords DEF BeginsWith
<1>3. ASSUME NEW k \in keys
      PROVE  /\ Live(k) /\ ttl_of(k) \in Nat
             /\ run'.before[k] = ttl_of(k)
             /\ ExpiresAt(run', k) = sequence + ttl_of(k)
             /\ recipe \in PastBoundary => n = PastExpiry(k)
             /\ recipe = "assert_runs_before_expiry" => n = ttl_of(k) - 1
             /\ recipe = "assert_temporary_expiry_boundary" => n = ttl_of(k)
  BY BegunRecords DEF BeginsWith
<1>4. ASSUME NEW k \in keys
      PROVE  Recorded(k)'
  <2>1. store' = store /\ Live(k) /\ run'.value[k] = store[k].value
        /\ ExpiresAt(run', k) = store[k].live_until
    BY BegunRecords
  <2>2. ExpiresAt(run, k)' = ExpiresAt(run', k)
    BY DEF ExpiresAt
  <2> QED BY <2>1, <2>2 DEF Recorded, Live, Stored
<1>5. Past(run)' = 0
  BY <1>1 DEF Past
<1>6. \A k \in keys : ExpiresAt(run, k)' = sequence + ttl_of(k)
  BY <1>3 DEF ExpiresAt
<1>7. Untouched'
  BY <1>1, <1>4 DEF Untouched
<1>8. OnlyTemporary'
  BY <1>1 DEF OnlyTemporary, BeginsWith, Temporary
<1>9. ASSUME Roomy(run)'
      PROVE  Placed' /\ \A k \in keys : Intact(k)'
  <2>1. recipe \in Staying => sequence' = run'.current
    BY <1>1, <1>2 DEF BeginsWith
  <2>2. recipe = "assert_runs_before_expiry" =>
          \A k \in keys : sequence' + 1 = ExpiresAt(run, k)'
    BY <1>2, <1>3, <1>6
  <2>3. recipe \in PastBoundary => \A k \in keys : sequence' = ExpiresAt(run, k)' + 1
    <3> SUFFICES ASSUME recipe \in PastBoundary, NEW k \in keys
                 PROVE  sequence' = ExpiresAt(run, k)' + 1
      OBVIOUS
    <3>1. ttl_of(k) < MaxSequence
      BY <1>1, <1>3, <1>9 DEF Roomy
    <3>2. n = ttl_of(k) + 1 /\ ttl_of(k) \in Nat
      BY <1>2, <1>3, <3>1, PastExpiryIs
    <3>3. ExpiresAt(run, k)' = sequence + ttl_of(k)
      BY <1>6
    <3> QED BY <1>2, <3>2, <3>3
  <2>4. recipe = "assert_temporary_expiry_boundary" =>
          \A k \in keys : sequence' = ExpiresAt(run, k)' + Past(run)'
    BY <1>2, <1>3, <1>5, <1>6
  <2>5. Placed'
    BY <1>1, <2>1, <2>2, <2>3, <2>4 DEF Placed
  <2>6. \A k \in keys : Intact(k)'
    BY <1>4 DEF Intact, Recorded
  <2> QED BY <2>5, <2>6
<1>10. ASSUME Rewinds = {}
       PROVE  Bounded' /\ Onward'
  <2>1. run'.current <= sequence'
    BY <1>1, <1>2
  <2>2. recipe \in PastBoundary => \A k \in keys : ExpiresAt(run, k)' < sequence'
    <3> SUFFICES ASSUME recipe \in PastBoundary, NEW k \in keys
                 PROVE  ExpiresAt(run, k)' < sequence'
      OBVIOUS
    <3>1. n = ttl_of(k) + 1 /\ ttl_of(k) \in Nat
      BY <1>2, <1>3, <1>10, PastExpiryIs
    <3>2. ExpiresAt(run, k)' = sequence + ttl_of(k)
      BY <1>6
    <3> QED BY <1>2, <3>1, <3>2
  <2>3. recipe = "assert_temporary_expiry_boundary" =>
          \A k \in keys : ExpiresAt(run, k)' + Past(run)' <= sequence'
    BY <1>2, <1>3, <1>5, <1>6
  <2>4. \A k \in keys : run'.before[k] < MaxSequence
    BY <1>2, <1>3, <1>10, PastExpiryIs
  <2>5. Bounded'
    BY <1>1, <2>4 DEF Bounded, Roomy
  <2> QED BY <1>1, <2>1, <2>2, <2>3, <2>5 DEF Onward
<1>11. Undisturbed'
  BY <1>1, <1>9 DEF Undisturbed
<1> QED BY <1>7, <1>8, <1>10, <1>11 DEF RunInv

(* Nothing is asked of a state without a recipe. *)
LEMMA IdleInv ==
  ASSUME ~Running'
  PROVE  RunInv'
BY DEF RunInv, Untouched, OnlyTemporary, Undisturbed, Bounded, Onward

(* Every recipe begins with the invariant in place. *)
LEMMA StartInv ==
  ASSUME Inv, Start
  PROVE  RunInv'
<1>1. CASE ~Running'
  BY <1>1, IdleInv
<1>2. ASSUME Running', NEW r, End("refused", r, TRUE) PROVE FALSE
  BY <1>2, EndedRunsNot
<1> QED BY <1>1, <1>2, StartBegins, BegunInv

--------------------------------------------------------------------------------
(* The closure *)

(* What the ghosts are after a step of the closure. *)
LEMMA NotingRun ==
  ASSUME RunTypeOK, Running, NEW calls \in {"none", "reads", "writes"},
         NEW moved \in BOOLEAN, Noting(calls, moved)
  PROVE  /\ UNCHANGED <<run.recipe, run.keys, run.current, run.before, run.value,
                        run.second>>
         /\ run'.calls = "none" => calls = "none" /\ run.calls = "none"
         /\ Quiet(run)' => calls # "writes" /\ ~moved /\ Quiet(run)
         /\ Roomy(run)' = Roomy(run)
         /\ \A k : ExpiresAt(run, k)' = ExpiresAt(run, k)
<1>1. run \in Run
  BY DEF RunTypeOK, Running
<1>2. run' = [run EXCEPT
               !.calls = IF calls = "none" \/ @ = "writes" THEN @ ELSE calls,
               !.moved = @ \/ moved]
  BY DEF Noting
<1>3. UNCHANGED <<run.recipe, run.keys, run.current, run.before, run.value, run.second>>
  BY <1>1, <1>2 DEF Run
<1>4. run'.calls = IF calls = "none" \/ run.calls = "writes" THEN run.calls ELSE calls
  BY <1>1, <1>2 DEF Run
<1>5. run'.moved = (run.moved \/ moved)
  BY <1>1, <1>2 DEF Run
<1>6. \A k : ExpiresAt(run, k)' = ExpiresAt(run, k)
  BY <1>3 DEF ExpiresAt
<1> QED BY <1>3, <1>4, <1>5, <1>6 DEF Quiet, Roomy

(* What holds of the ledger and the recipe alone outlives any step of the  *)
(* closure; what holds until it calls, any step that is no call; and what  *)
(* holds while it is quiet is not asked after one that is not.             *)
LEMMA NotingKeeps ==
  ASSUME RunTypeOK, RunInv, Running, NEW calls \in {"none", "reads", "writes"},
         NEW moved \in BOOLEAN, Noting(calls, moved),
         sequence \in Nat, sequence' \in Nat,
         Rewinds = {} => sequence <= sequence',
         calls = "none" => UNCHANGED store
  PROVE  /\ Untouched'
         /\ OnlyTemporary'
         /\ Rewinds = {} => Bounded' /\ Onward'
         /\ calls = "writes" \/ moved = TRUE => Undisturbed'
<1>1. /\ UNCHANGED <<run.recipe, run.keys, run.current, run.before, run.value,
                     run.second>>
      /\ run'.calls = "none" => calls = "none" /\ run.calls = "none"
      /\ Quiet(run)' => calls # "writes" /\ ~moved
      /\ \A k : ExpiresAt(run, k)' = ExpiresAt(run, k)
  BY NotingRun
<1>2. Untouched'
  BY <1>1 DEF RunInv, Untouched, Recorded, Stored
<1>3. OnlyTemporary'
  BY <1>1 DEF RunInv, OnlyTemporary, Temporary
<1>4. Rewinds = {} => Bounded'
  BY <1>1 DEF RunInv, Bounded, Roomy
<1>5. ASSUME Rewinds = {}
      PROVE  Onward'
  <2>1. run \in Run /\ Past(run)' = Past(run) /\ Past(run) \in Nat
    BY <1>1 DEF RunTypeOK, Running, Past
  <2>2. run.current \in Nat /\ run'.current <= sequence'
    BY <1>1, <1>5, <2>1 DEF RunInv, Onward, Run
  <2>3. \A k \in run.keys : ExpiresAt(run, k) \in Nat
    BY <2>1 DEF ExpiresAt, Run
  <2>4. run.recipe \in PastBoundary => \A k \in run.keys : ExpiresAt(run, k) < sequence'
    BY <1>5, <2>3 DEF RunInv, Onward
  <2>5. run.recipe = "assert_temporary_expiry_boundary" =>
          \A k \in run.keys : ExpiresAt(run, k) + Past(run) <= sequence'
    BY <1>5, <2>1, <2>3 DEF RunInv, Onward
  <2> QED BY <1>1, <2>1, <2>2, <2>4, <2>5 DEF Onward
<1>6. calls = "writes" \/ moved = TRUE => Undisturbed'
  BY <1>1 DEF Undisturbed
<1> QED BY <1>2, <1>3, <1>4, <1>5, <1>6

(* A read leaves the entry it reads as it is, or renews it once archived.  *)
LEMMA GetDisturbsNothing ==
  ASSUME Inv, RunTypeOK, Running, Undisturbed, NEW k \in Keys, CallGet(k)
  PROVE  Undisturbed'
<1>1. /\ UNCHANGED <<run.recipe, run.keys, run.current, run.before, run.value,
                     run.second>>
      /\ Quiet(run)' => Quiet(run)
      /\ Roomy(run)' = Roomy(run)
      /\ \A j : ExpiresAt(run, j)' = ExpiresAt(run, j)
  BY NotingRun DEF CallGet
<1>2. UNCHANGED <<sequence, max_entry_ttl>> /\ sequence \in Nat
  BY DEF CallGet, Inv, StorageTypeOK
<1>3. SUFFICES ASSUME Quiet(run), Roomy(run)
               PROVE  Placed' /\ \A j \in run.keys : Intact(j)'
  BY <1>1 DEF Undisturbed
<1>4. Placed'
  BY <1>1, <1>2, <1>3 DEF Undisturbed, Placed, Past
<1>5. ASSUME NEW j \in run.keys
      PROVE  Intact(j)'
  <2>1. Intact(j) /\ j \in Keys /\ FirstLiveUntil(j)' = FirstLiveUntil(j)
    BY <1>2, <1>3 DEF Undisturbed, RunTypeOK, Running, Run, FirstLiveUntil, Temporary
  <2>2. CASE store'[j] = store[j]
    BY <1>1, <1>2, <2>1, <2>2 DEF Intact, Stored, Temporary
  <2>3. CASE store'[j] # store[j]
    <3>1. Archived(k) /\ store' = [store EXCEPT ![k].live_until = FirstLiveUntil(k)]
      BY <2>3 DEF CallGet, Get
    <3>2. store \in [Keys -> Entry]
      BY DEF Inv, StorageTypeOK
    <3>3. j = k
      BY <2>1, <2>3, <3>1, <3>2
    <3>4. store'[j] = [store[j] EXCEPT !.live_until = FirstLiveUntil(j)]
      BY <2>1, <3>1, <3>2, <3>3
    <3>5. store'[j].live_until = FirstLiveUntil(j) /\ store'[j].value = store[j].value
      BY <2>1, <3>2, <3>4 DEF Entry
    <3>6. Stored(j) /\ ~Temporary(j) /\ store[j].live_until < sequence
      <4>1. store[j].live_until \in Nat
        BY <2>1, <3>2 DEF Entry
      <4> QED BY <1>2, <3>1, <3>3, <4>1 DEF Archived, Live
    <3>7. ExpiresAt(run, j) < sequence
      BY <2>1, <3>6 DEF Intact
    <3> QED BY <1>1, <1>2, <2>1, <3>5, <3>6, <3>7 DEF Intact, Stored, Temporary
  <2> QED BY <2>2, <2>3
<1> QED BY <1>4, <1>5

(* No code of the test breaks the invariant. *)
LEMMA TestCodeInv ==
  ASSUME Inv, RunTypeOK, RunInv, TestCode
  PROVE  RunInv'
<1>1. CASE ~Running
  <2>1. run' = NoRun
    BY <1>1 DEF TestCode, CallGet, CallSet, CallExtend, CallRemove, AdvanceLedgers,
                RestoreCheckpoint, Noting
  <2> QED BY <2>1, IdleInv DEF Running
<1>2. CASE Running
  <2>1. sequence \in Nat /\ sequence' \in Nat
    BY TestCodeKeeps DEF Inv, StorageTypeOK
  <2>2. ASSUME NEW k \in Keys, CallGet(k)
        PROVE  RunInv'
    <3>1. Noting("reads", FALSE) /\ sequence' = sequence
      BY <2>2 DEF CallGet
    <3>2. Undisturbed'
      BY <1>2, <2>2, GetDisturbsNothing DEF RunInv
    <3>3. sequence <= sequence'
      BY <2>1, <3>1
    <3> QED BY <1>2, <2>1, <3>1, <3>2, <3>3, NotingKeeps DEF RunInv
  <2>3. ASSUME Noting("writes", FALSE), sequence' = sequence
        PROVE  RunInv'
    <3>1. sequence <= sequence'
      BY <2>1, <2>3
    <3> QED BY <1>2, <2>1, <2>3, <3>1, NotingKeeps DEF RunInv
  <2>4. ASSUME NEW n \in LedgerCounts, AdvanceLedgers(n)
        PROVE  RunInv'
    <3>1. n \in Nat /\ sequence' = sequence + n
      BY <2>4, RecipeAssumption DEF AdvanceLedgers
    <3>2. Noting("none", TRUE) /\ UNCHANGED store
      BY <2>4 DEF AdvanceLedgers
    <3>3. sequence <= sequence'
      BY <2>1, <3>1
    <3> QED BY <1>2, <2>1, <3>2, <3>3, NotingKeeps DEF RunInv
  <2>5. ASSUME NEW c \in Rewinds, RestoreCheckpoint(c)
        PROVE  RunInv'
    <3>1. Noting("none", TRUE) /\ UNCHANGED store /\ Rewinds # {}
      BY <2>5 DEF RestoreCheckpoint
    <3> QED BY <1>2, <2>1, <3>1, NotingKeeps DEF RunInv
  <2> QED BY <2>2, <2>3, <2>4, <2>5 DEF TestCode, CallSet, CallExtend, CallRemove
<1> QED BY <1>1, <1>2

--------------------------------------------------------------------------------
(* Judging *)

(* The entry of a recipe that judges one. *)
LEMMA OneKey ==
  ASSUME RunTypeOK, Running, run.recipe \notin Several
  PROVE  /\ run \in Run
         /\ TheKey \in Keys
         /\ run.keys = {TheKey}
BY DEF RunTypeOK, SingleKey, Running, TheKey, KeyOf

(* On the first expired ledger everything is as it was on the last live    *)
(* one, but for the ledger.                                                *)
LEMMA SecondLedgerInv ==
  ASSUME Inv, RunTypeOK, RunInv, Running, Running',
         run.recipe = "assert_temporary_expiry_boundary", run.second = FALSE,
         run' = [run EXCEPT !.second = TRUE], sequence' = sequence + 1,
         UNCHANGED <<max_entry_ttl, store>>
  PROVE  RunInv'
<1>1. run \in Run /\ sequence \in Nat
  BY DEF RunTypeOK, Running, Inv, StorageTypeOK
<1>2. /\ UNCHANGED <<run.recipe, run.keys, run.current, run.before, run.value,
                     run.calls, run.moved>>
      /\ run'.second = TRUE
  BY <1>1 DEF Run
<1>3. /\ \A k : ExpiresAt(run, k)' = ExpiresAt(run, k)
      /\ Past(run) = 0 /\ Past(run)' = 1
      /\ Quiet(run)' = Quiet(run)
  BY <1>2 DEF ExpiresAt, Past, Quiet
<1>4. \A k \in run.keys : ExpiresAt(run, k) \in Nat /\ Temporary(k)
  BY <1>1 DEF ExpiresAt, Run, RunInv, OnlyTemporary
<1>5. Untouched'
  <2>1. run.calls = "none" => \A k \in run.keys : Recorded(k)
    BY DEF RunInv, Untouched
  <2>2. ASSUME NEW k, Recorded(k)
        PROVE  Recorded(k)'
    BY <1>2, <1>3, <2>2 DEF Recorded, Stored
  <2> QED BY <1>2, <2>1, <2>2 DEF Untouched
<1>6. OnlyTemporary'
  BY <1>2 DEF RunInv, OnlyTemporary, Temporary
<1>7. Roomy(run)' = Roomy(run) /\ (Rewinds = {} => Bounded')
  BY <1>2 DEF RunInv, Bounded, Roomy
<1>8. ASSUME Roomy(run), Quiet(run)
      PROVE  Placed' /\ \A k \in run.keys : Intact(k)'
  <2>1. Placed /\ \A k \in run.keys : Intact(k)
    BY <1>8 DEF RunInv, Undisturbed
  <2>2. \A k \in run.keys : sequence' = ExpiresAt(run, k) + 1
    BY <1>1, <1>3, <1>4, <2>1 DEF Placed
  <2>3. Placed'
    BY <1>2, <1>3, <2>2 DEF Placed
  <2>4. \A k \in run.keys : Intact(k)'
    BY <1>2, <1>3, <1>4, <2>1 DEF Intact, Stored
  <2> QED BY <2>3, <2>4
<1>9. ASSUME Rewinds = {}
      PROVE  Onward'
  <2>1. run.current \in Nat /\ run.current <= sequence
    BY <1>1, <1>9 DEF RunInv, Onward, Run
  <2>2. \A k \in run.keys : ExpiresAt(run, k) + 1 <= sequence'
    BY <1>1, <1>3, <1>4, <1>9 DEF RunInv, Onward
  <2>3. run'.current <= sequence'
    BY <1>1, <1>2, <2>1
  <2> QED BY <1>2, <1>3, <2>2, <2>3 DEF Onward
<1> QED BY <1>2, <1>3, <1>5, <1>6, <1>7, <1>8, <1>9 DEF RunInv, Undisturbed

(* A recipe that is judged has ended, but for the boundary recipe once.    *)
LEMMA JudgeInv ==
  ASSUME Inv, RunTypeOK, RunInv, Judge
  PROVE  RunInv'
<1>1. CASE ~Running'
  BY <1>1, IdleInv
<1>2. ASSUME Running', NEW result, NEW r, NEW h, End(result, r, h) PROVE FALSE
  BY <1>2, EndedRunsNot
<1>3. ASSUME Running', NEW seen, JudgeLastLiveLedger(seen)
      PROVE  RunInv'
  <2>1. /\ Running /\ run.recipe = "assert_temporary_expiry_boundary" /\ ~run.second
        /\ AdvanceThenRun(1, ~PresentAt(TheKey, sequence + 1),
                          [run EXCEPT !.second = TRUE])
    BY <1>2, <1>3 DEF JudgeLastLiveLedger
  <2>2. /\ run' = [run EXCEPT !.second = TRUE] /\ sequence' = sequence + 1
        /\ UNCHANGED <<max_entry_ttl, store>>
    BY <1>2, <1>3, <2>1 DEF AdvanceThenRun
  <2>3. run.second = FALSE
    BY <2>1 DEF RunTypeOK, Running, Run
  <2> QED BY <1>3, <2>1, <2>2, <2>3, SecondLedgerInv
<1> QED BY <1>1, <1>2, <1>3 DEF Judge, ClosurePanics, JudgeMeasuring, JudgeRunning,
           JudgeRecovers, JudgeTemporaryExpires, JudgeFirstExpiredLedger,
           JudgeTtlDelta, JudgeExtensionDefersExpiry

(* The invariant is inductive, and holds throughout. *)
LEMMA AlwaysRunInv == Spec => [](Inv /\ RunTypeOK /\ RunInv)
<1>1. Init => RunInv
  BY DEF Init, Running, RunInv, Untouched, OnlyTemporary, Undisturbed, Bounded, Onward
<1>2. ASSUME Inv, RunTypeOK, RunInv, [Next]_vars
      PROVE  RunInv'
  <2>1. CASE UNCHANGED vars
    BY <1>2, <2>1 DEF vars, RunInv, Untouched, OnlyTemporary, Undisturbed, Bounded,
       Onward, Running, Recorded, Stored, ExpiresAt, Temporary, Quiet, Placed, Past,
       Intact, FirstLiveUntil, Roomy
  <2>2. CASE Check
    BY <2>2, IdleInv, EndedRunsNot DEF Check, AssertTtlAtLeast
  <2> QED BY <1>2, <2>1, <2>2, StartInv, TestCodeInv, JudgeInv DEF Next
<1>3. Spec => [](Inv /\ RunTypeOK)
  BY AlwaysInv
<1>4. Inv /\ RunTypeOK /\ RunInv /\ [Next]_vars => RunInv'
  BY <1>2
<1> QED BY <1>1, <1>3, <1>4, PTL DEF Spec

--------------------------------------------------------------------------------
(* Where the closures run, and what a timeline tells *)

(* A timeline tells which ledgers its entry is live on, in a test that     *)
(* moves the ledger back or on as it likes, until a call touches an entry. *)
THEOREM TimelinesTell == Spec => []TimelineTells
<1>1. Untouched => TimelineTells
  BY DEF Untouched, TimelineTells, Recorded, Live
<1>2. RunInv => Untouched
  BY DEF RunInv
<1> QED BY <1>1, <1>2, AlwaysRunInv, PTL

(* Every closure runs on its side of the boundary, wherever checkpoints    *)
(* have taken the ledger, unless the recipe read a TTL of u32::MAX.        *)
THEOREM RunAtBoundary == Spec => []RunsAtBoundary
<1>1. ASSUME Inv, RunTypeOK, RunInv
      PROVE  RunsAtBoundary
  <2> SUFFICES ASSUME Running,
                      \/ run.recipe = "assert_runs_before_expiry"
                      \/ run.recipe \in PastBoundary
                      \/ run.recipe = "assert_temporary_expiry_boundary",
                      Quiet(run), Roomy(run)
               PROVE  LET last == store[TheKey].live_until
                      IN  /\ run.recipe = "assert_runs_before_expiry" /\ Fresh =>
                               Live(TheKey) /\ sequence + 1 = last
                          /\ run.recipe \in PastBoundary /\ Fresh =>
                               ~Live(TheKey) /\ sequence = last + 1
                          /\ run.recipe = "assert_temporary_expiry_boundary" =>
                               IF run.second THEN ~Live(TheKey) /\ sequence = last + 1
                                             ELSE Live(TheKey) /\ sequence = last
    BY DEF RunsAtBoundary, Fresh, Quiet
  <2>1. run \in Run /\ TheKey \in Keys /\ run.keys = {TheKey}
    BY <1>1, OneKey DEF Several
  <2>2. sequence \in Nat /\ store[TheKey].live_until \in Nat
    BY <1>1, <2>1 DEF Inv, StorageTypeOK, Entry
  <2>3. Placed /\ Intact(TheKey)
    BY <1>1, <2>1 DEF RunInv, Undisturbed
  <2>4. ASSUME Fresh
        PROVE  store[TheKey].live_until = ExpiresAt(run, TheKey)
    BY <1>1, <2>1, <2>4 DEF RunInv, Untouched, Recorded, Fresh
  <2>5. ASSUME run.recipe = "assert_temporary_expiry_boundary"
        PROVE  store[TheKey].live_until = ExpiresAt(run, TheKey)
    BY <1>1, <2>1, <2>3, <2>5 DEF RunInv, OnlyTemporary, Intact
  <2>6. Stored(TheKey) /\ run.second \in BOOLEAN
    BY <2>1, <2>3 DEF Intact, Run
  <2>7. run.recipe = "assert_runs_before_expiry" /\ Fresh =>
          sequence + 1 = store[TheKey].live_until /\ sequence <= store[TheKey].live_until
    BY <2>1, <2>2, <2>3, <2>4 DEF Placed
  <2>8. run.recipe \in PastBoundary /\ Fresh =>
          /\ sequence = store[TheKey].live_until + 1
          /\ ~(sequence <= store[TheKey].live_until)
    BY <2>1, <2>2, <2>3, <2>4 DEF Placed
  <2>9. run.recipe = "assert_temporary_expiry_boundary" =>
          IF run.second
            THEN /\ sequence = store[TheKey].live_until + 1
                 /\ ~(sequence <= store[TheKey].live_until)
            ELSE /\ sequence = store[TheKey].live_until
                 /\ sequence <= store[TheKey].live_until
    BY <2>1, <2>2, <2>3, <2>5, <2>6 DEF Placed, Past
  <2> QED BY <2>6, <2>7, <2>8, <2>9 DEF Live
<1> QED BY <1>1, AlwaysRunInv, PTL

--------------------------------------------------------------------------------
(* What a pass has shown *)

(* Where a recipe has got to that judges one entry, never taken back. *)
LEMMA JudgedAt ==
  ASSUME Rewinds = {}, Inv, RunTypeOK, RunInv, Running, run.recipe \notin Several
  PROVE  /\ TheKey \in Keys /\ run.keys = {TheKey}
         /\ sequence \in Nat /\ store[TheKey].live_until \in Nat
         /\ run.current \in Nat /\ run.current <= sequence
         /\ run.before[TheKey] \in Nat /\ run.before[TheKey] < MaxSequence
         /\ run.recipe \in PastBoundary => ExpiresAt(run, TheKey) < sequence
         /\ run.recipe = "assert_temporary_expiry_boundary" /\ run.second = TRUE =>
              ExpiresAt(run, TheKey) < sequence
<1>1. run \in Run /\ TheKey \in Keys /\ run.keys = {TheKey}
  BY OneKey
<1>2. sequence \in Nat /\ store[TheKey].live_until \in Nat
  BY <1>1 DEF Inv, StorageTypeOK, Entry
<1>3. run.current \in Nat /\ run.before[TheKey] \in Nat
  BY <1>1 DEF Run
<1>4. run.current <= sequence
  BY DEF RunInv, Onward
<1>5. run.before[TheKey] < MaxSequence
  BY <1>1 DEF RunInv, Bounded, Roomy
<1>6. run.recipe \in PastBoundary => ExpiresAt(run, TheKey) < sequence
  BY <1>1 DEF RunInv, Onward
<1>7. run.recipe = "assert_temporary_expiry_boundary" /\ run.second = TRUE =>
        ExpiresAt(run, TheKey) < sequence
  <2> SUFFICES ASSUME run.recipe = "assert_temporary_expiry_boundary", run.second = TRUE
               PROVE  ExpiresAt(run, TheKey) < sequence
    OBVIOUS
  <2>1. ExpiresAt(run, TheKey) + 1 <= sequence
    BY <1>1 DEF RunInv, Onward, Past
  <2>2. ExpiresAt(run, TheKey) \in Nat
    BY <1>3 DEF ExpiresAt
  <2> QED BY <1>2, <2>1, <2>2
<1> QED BY <1>1, <1>2, <1>3, <1>4, <1>5, <1>6, <1>7

(* Nothing is claimed of a verdict that is no pass. *)
LEMMA NoPass ==
  ASSUME verdict'.result # "passed"
  PROVE  PassIsTruth'
BY DEF PassIsTruth

(* A recipe passes before its closure only if it has none. *)
LEMMA StartPassesNot ==
  ASSUME Inv, Start
  PROVE  verdict'.result # "passed"
<1>1. ASSUME NEW recipe, NEW keys, NEW n, NEW check, Begin(recipe, keys, n, check)
      PROVE  verdict'.result # "passed"
  BY <1>1 DEF Begin, AdvanceThenRun, End, None
<1>2. ASSUME NEW r, End("refused", r, TRUE)
      PROVE  verdict'.result # "passed"
  BY <1>2 DEF End
<1> QED BY <1>1, <1>2, StartBegins

(* Each recipe's pass, from what its judging found. *)
LEMMA PassMeasuring ==
  ASSUME Rewinds = {}, Inv, RunTypeOK, RunInv, JudgeMeasuring
  PROVE  PassIsTruth'
<1>1. Running /\ run \in Run /\ run.recipe \in Measuring
  BY DEF JudgeMeasuring, RunTypeOK, Running
<1>2. UNCHANGED <<sequence, store>> /\ verdict'.run = run
  BY DEF JudgeMeasuring, End, storageVars
<1>3. SUFFICES ASSUME verdict'.result = "passed", run.recipe = "assert_bumps_ttl",
                      NEW k \in run.keys
               PROVE  Live(k) /\ store[k].live_until > ExpiresAt(run, k)
  BY <1>1, <1>2 DEF PassIsTruth, Live, Stored, ExpiresAt
<1>4. Live(k) /\ ttl_of(k) > run.before[k]
  BY <1>3 DEF JudgeMeasuring, End
<1>5. k \in Keys /\ sequence \in Nat /\ store[k].live_until \in Nat
      /\ run.current \in Nat /\ run.before[k] \in Nat
  BY <1>1 DEF Run, Inv, StorageTypeOK, Entry
<1>6. run.current <= sequence
  BY <1>1 DEF RunInv, Onward
<1> QED BY <1>4, <1>5, <1>6 DEF ttl_of, ExpiresAt

LEMMA PassRecovers ==
  ASSUME Rewinds = {}, Inv, RunTypeOK, RunInv, NEW seen, JudgeRecovers(seen)
  PROVE  PassIsTruth'
<1>1. Running /\ run.recipe = "assert_recovers_after_expiry"
  BY DEF JudgeRecovers
<1>2. /\ UNCHANGED <<sequence, store>> /\ verdict'.run = run
      /\ verdict'.honest = Honest(seen)
  BY DEF JudgeRecovers, End, storageVars
<1>3. SUFFICES ASSUME verdict'.result = "passed"
               PROVE  /\ Live(TheKey) /\ ExpiresAt(run, TheKey) < sequence
                      /\ Honest(seen) => store[TheKey].value = run.value[TheKey]
  BY <1>1, <1>2, JudgedAt DEF PassIsTruth, Live, Stored, ExpiresAt, TheKey, Several
<1>4. Live(TheKey) /\ seen = run.value[TheKey]
  BY <1>3 DEF JudgeRecovers, End
<1>5. ExpiresAt(run, TheKey) < sequence
  BY <1>1, JudgedAt DEF Several
<1> QED BY <1>4, <1>5 DEF Honest, Observed

LEMMA PassTemporaryExpires ==
  ASSUME Rewinds = {}, Inv, RunTypeOK, RunInv, NEW seen,
         JudgeTemporaryExpires(seen) \/ JudgeFirstExpiredLedger(seen)
  PROVE  PassIsTruth'
<1>1. /\ Running
      /\ \/ run.recipe = "assert_temporary_expires"
         \/ run.recipe = "assert_temporary_expiry_boundary" /\ run.second = TRUE
  BY DEF JudgeTemporaryExpires, JudgeFirstExpiredLedger, RunTypeOK, Running, Run
<1>2. /\ UNCHANGED <<sequence, store>> /\ verdict'.run = run
      /\ verdict'.honest = Honest(seen)
      /\ verdict'.result = IF seen = NoValue THEN "passed" ELSE "failed"
  BY DEF JudgeTemporaryExpires, JudgeFirstExpiredLedger, End, storageVars
<1>3. SUFFICES ASSUME seen = NoValue, Honest(seen)
               PROVE  ~Live(TheKey) /\ ExpiresAt(run, TheKey) < sequence
  BY <1>1, <1>2, JudgedAt DEF PassIsTruth, Live, Stored, ExpiresAt, TheKey, Several
<1>4. ExpiresAt(run, TheKey) < sequence
  BY <1>1, JudgedAt DEF Several
<1> QED BY <1>3, <1>4 DEF Honest, Observed, Live, Stored

LEMMA PassExtension ==
  ASSUME Rewinds = {}, Inv, RunTypeOK, RunInv, JudgeExtensionDefersExpiry
  PROVE  PassIsTruth'
<1> DEFINE n == SaturatingAdd(run.before[TheKey], 1)
<1>1. Running /\ run.recipe = "assert_temporary_extension_defers_expiry"
  BY DEF JudgeExtensionDefersExpiry
<1>2. verdict'.run = run /\ UNCHANGED store
  BY DEF JudgeExtensionDefersExpiry, End
<1>3. SUFFICES ASSUME verdict'.result = "passed"
               PROVE  /\ Stored(TheKey) /\ sequence' <= store[TheKey].live_until
                      /\ ExpiresAt(run, TheKey) < sequence'
  BY <1>1, <1>2 DEF PassIsTruth, Live, Stored, ExpiresAt, TheKey
<1>4. PresentAt(TheKey, sequence + n) /\ sequence' = sequence + n
  BY <1>3 DEF JudgeExtensionDefersExpiry, End
<1>5. n = run.before[TheKey] + 1
  BY <1>1, JudgedAt, SaturatingAddsUp DEF Several
<1>6. ExpiresAt(run, TheKey) < sequence'
  BY <1>1, <1>4, <1>5, JudgedAt DEF ExpiresAt, Several
<1> QED BY <1>4, <1>6 DEF PresentAt

LEMMA PassDelta ==
  ASSUME Rewinds = {}, Inv, RunTypeOK, RunInv, NEW expected_delta \in Expectations,
         JudgeTtlDelta(expected_delta)
  PROVE  PassIsTruth'
<1> DEFINE judged == [run EXCEPT !.expected = expected_delta]
<1>1. Running /\ run \in Run /\ run.recipe = "assert_ttl_delta"
  BY DEF JudgeTtlDelta, RunTypeOK, Running
<1>2. /\ judged.recipe = run.recipe /\ judged.keys = run.keys
      /\ judged.current = run.current /\ judged.before = run.before
      /\ judged.expected = expected_delta
  BY <1>1 DEF Run
<1>3. UNCHANGED <<sequence, store>> /\ verdict'.run = judged
  BY DEF JudgeTtlDelta, End, storageVars
<1>4. KeyOf(judged) = TheKey /\ ExpiresAt(judged, TheKey) = ExpiresAt(run, TheKey)
  BY <1>2 DEF KeyOf, TheKey, ExpiresAt
<1> HIDE DEF judged
<1>5. SUFFICES ASSUME verdict'.result = "passed"
               PROVE  /\ Live(TheKey)
                      /\ store[TheKey].live_until
                           = ExpiresAt(run, TheKey) + expected_delta
                               + (sequence - run.current)
  <2>1. verdict'.run.recipe = "assert_ttl_delta" /\ KeyOf(verdict'.run) = TheKey
        /\ ExpiresAt(verdict'.run, TheKey) = ExpiresAt(run, TheKey)
        /\ verdict'.run.expected = expected_delta /\ verdict'.run.current = run.current
    BY <1>1, <1>2, <1>3, <1>4
  <2> QED BY <1>3, <2>1 DEF PassIsTruth, Live, Stored
<1>6. Live(TheKey) /\ diff(TheKey) = expected_delta
  BY <1>5 DEF JudgeTtlDelta, End
<1>7. expected_delta \in Int
  BY RecipeAssumption
<1> QED BY <1>1, <1>6, <1>7, JudgedAt DEF diff, ttl_of, ExpiresAt, Several

LEMMA PassLeast ==
  ASSUME Inv, Check
  PROVE  PassIsTruth'
<1>1. PICK k \in Keys, min_ttl \in Expectations \cap Nat : AssertTtlAtLeast(k, min_ttl)
  BY DEF Check
<1> DEFINE judged == [Began("assert_ttl_at_least", {k}) EXCEPT !.expected = min_ttl]
<1>2. SUFFICES ASSUME verdict'.result = "passed" PROVE PassIsTruth'
  BY NoPass
<1>3. Live(k) /\ ~(ttl_of(k) < min_ttl) /\ verdict'.run = judged
  BY <1>1, <1>2 DEF AssertTtlAtLeast, End
<1>4. /\ judged.recipe = "assert_ttl_at_least" /\ judged.keys = {k}
      /\ judged.expected = min_ttl
  BY DEF Began
<1>5. KeyOf(judged) = k
  BY <1>4 DEF KeyOf
<1>6. UNCHANGED <<sequence, store>>
  BY <1>1 DEF AssertTtlAtLeast, storageVars
<1>7. PresentAt(k, sequence + min_ttl)
  <2>1. sequence \in Nat /\ store[k].live_until \in Nat /\ min_ttl \in Nat
    BY DEF Inv, StorageTypeOK, Entry
  <2>2. sequence + min_ttl <= store[k].live_until
    BY <1>3, <2>1 DEF ttl_of
  <2> QED BY <1>3, <2>2 DEF PresentAt, Live
<1> HIDE DEF judged
<1>8. verdict'.run.recipe = "assert_ttl_at_least" /\ KeyOf(verdict'.run) = k
      /\ verdict'.run.expected = min_ttl
  BY <1>3, <1>4, <1>5
<1> QED BY <1>3, <1>6, <1>7, <1>8 DEF PassIsTruth, Live, Stored, PresentAt

(* Judging passes only recipes that have shown what they are for. *)
LEMMA PassJudge ==
  ASSUME Rewinds = {}, Inv, RunTypeOK, RunInv, Judge
  PROVE  PassIsTruth'
<1>1. CASE ClosurePanics
  BY <1>1, NoPass DEF ClosurePanics, End
<1>2. CASE JudgeRunning
  BY <1>2 DEF JudgeRunning, End, PassIsTruth
<1>3. ASSUME NEW seen, JudgeLastLiveLedger(seen)
      PROVE  PassIsTruth'
  BY <1>3, NoPass DEF JudgeLastLiveLedger, AdvanceThenRun, End, None
<1> QED BY <1>1, <1>2, <1>3, PassMeasuring, PassRecovers, PassTemporaryExpires,
           PassExtension, PassDelta DEF Judge

(* A passed recipe has shown what its documentation says, whatever the     *)
(* closure did, in a test that takes the ledger back to no checkpoint.     *)
THEOREM PassesAreTrue ==
  ASSUME Rewinds = {}
  PROVE  Spec => []PassIsTruth
<1>1. Init => PassIsTruth
  BY DEF Init, None, PassIsTruth
<1>2. ASSUME Inv, RunTypeOK, RunInv, PassIsTruth, [Next]_vars
      PROVE  PassIsTruth'
  <2>1. CASE UNCHANGED vars
    BY <1>2, <2>1 DEF vars, PassIsTruth, Live, Stored, ExpiresAt, PresentAt, KeyOf
  <2>2. CASE Start
    BY <1>2, <2>2, StartPassesNot, NoPass
  <2>3. CASE TestCode
    <3>1. verdict' = None
      BY <2>3 DEF TestCode, CallGet, CallSet, CallExtend, CallRemove, AdvanceLedgers,
                  RestoreCheckpoint, Noting
    <3> QED BY <3>1, NoPass DEF None
  <2> QED BY <1>2, <2>1, <2>2, <2>3, PassLeast, PassJudge DEF Next
<1>3. Inv /\ RunTypeOK /\ RunInv /\ PassIsTruth /\ [Next]_vars => PassIsTruth'
  BY <1>2
<1> QED BY <1>1, <1>3, AlwaysRunInv, PTL DEF Spec

--------------------------------------------------------------------------------
(* No false alarm *)

(* Where a recipe that judges one entry has got to, if its closure was     *)
(* quiet.                                                                  *)
LEMMA QuietAt ==
  ASSUME Inv, RunTypeOK, RunInv, Running, run.recipe \notin Several,
         Quiet(run), Roomy(run)
  PROVE  /\ TheKey \in Keys /\ run.keys = {TheKey}
         /\ sequence \in Nat /\ store[TheKey].live_until \in Nat
         /\ run.before[TheKey] \in Nat /\ ExpiresAt(run, TheKey) \in Nat
         /\ Placed /\ Intact(TheKey)
         /\ run.recipe \in OfTemporary =>
              Temporary(TheKey) /\ store[TheKey].live_until = ExpiresAt(run, TheKey)
<1>1. run \in Run /\ TheKey \in Keys /\ run.keys = {TheKey}
  BY OneKey
<1>2. sequence \in Nat /\ store[TheKey].live_until \in Nat
  BY <1>1 DEF Inv, StorageTypeOK, Entry
<1>3. run.before[TheKey] \in Nat /\ ExpiresAt(run, TheKey) \in Nat
  BY <1>1 DEF Run, ExpiresAt
<1>4. Placed /\ Intact(TheKey)
  BY <1>1 DEF RunInv, Undisturbed
<1>5. run.recipe \in OfTemporary => Temporary(TheKey)
  BY <1>1 DEF RunInv, OnlyTemporary
<1> QED BY <1>1, <1>2, <1>3, <1>4, <1>5 DEF Intact

(* Nothing is claimed of a verdict that is no failure. *)
LEMMA NoFailure ==
  ASSUME verdict'.result # "failed"
  PROVE  NoFalseAlarm'
BY DEF NoFalseAlarm

(* No recipe fails on its way to the closure: what it checks of its own    *)
(* timeline there holds of every TTL below the largest.                    *)
LEMMA StartFailsNot ==
  ASSUME Inv, Start, Roomy(verdict'.run)
  PROVE  verdict'.result # "failed"
<1>1. ASSUME NEW recipe, NEW keys, NEW n, NEW check, Begin(recipe, keys, n, check),
             (\A k \in keys : Live(k)) /\ Roomy(Began(recipe, keys)) => check
      PROVE  verdict'.result # "failed"
  <2>1. CASE End("failed", Began(recipe, keys), TRUE)
    BY <1>1, <2>1 DEF Begin, AdvanceThenRun, End, None
  <2>2. CASE ~End("failed", Began(recipe, keys), TRUE)
    BY <1>1, <2>2 DEF Begin, AdvanceThenRun, End, None
  <2> QED BY <2>1, <2>2
<1>2. ASSUME NEW r, End("refused", r, TRUE)
      PROVE  verdict'.result # "failed"
  BY <1>2 DEF End
<1>3. ASSUME NEW k \in Keys, Live(k), ttl_of(k) < MaxSequence
      PROVE  /\ expired_at(Began("assert_recovers_after_expiry", {k}), k,
                           sequence + PastExpiry(k))
             /\ ~PresentAt(k, sequence + PastExpiry(k))
             /\ PresentAt(k, sequence + ttl_of(k))
  <2> DEFINE r == Began("assert_recovers_after_expiry", {k})
  <2>1. sequence \in Nat /\ store[k].live_until \in Nat
    BY DEF Inv, StorageTypeOK, Entry
  <2>2. ttl_of(k) \in Nat /\ PastExpiry(k) = ttl_of(k) + 1
    BY <1>3, LiveTtl, PastExpiryIs
  <2>3. r.current = sequence /\ r.before[k] = ttl_of(k)
    BY DEF Began
  <2> HIDE DEF r
  <2>4. expired_at(r, k, sequence + PastExpiry(k))
    BY <2>1, <2>2, <2>3 DEF expired_at, ExpiresAt
  <2>5. sequence + ttl_of(k) = store[k].live_until
    BY <2>1 DEF ttl_of
  <2>6. ~(sequence + PastExpiry(k) <= store[k].live_until)
        /\ sequence + ttl_of(k) <= store[k].live_until
    BY <2>1, <2>2, <2>5
  <2> QED BY <1>3, <2>4, <2>6 DEF PresentAt, Live, r
<1>4. CASE \E recipe, keys, n : Begin(recipe, keys, n, TRUE)
  BY <1>1, <1>4
<1>8. ASSUME NEW k \in Keys, NEW recipe, Roomy(Began(recipe, {k}))
      PROVE  ttl_of(k) < MaxSequence
  BY <1>8 DEF Roomy, Began
<1>5. ASSUME NEW k \in Keys,
             Begin("assert_recovers_after_expiry", {k}, PastExpiry(k),
                   expired_at(Began("assert_recovers_after_expiry", {k}), k,
                              sequence + PastExpiry(k)))
      PROVE  verdict'.result # "failed"
  BY <1>1, <1>3, <1>5, <1>8
<1>6. ASSUME NEW k \in Keys, Begin("assert_temporary_expires", {k}, PastExpiry(k),
                                  ~PresentAt(k, sequence + PastExpiry(k)))
      PROVE  verdict'.result # "failed"
  BY <1>1, <1>3, <1>6, <1>8
<1>7. ASSUME NEW k \in Keys, Begin("assert_temporary_expiry_boundary", {k}, ttl_of(k),
                                  PresentAt(k, sequence + ttl_of(k)))
      PROVE  verdict'.result # "failed"
  BY <1>1, <1>3, <1>7, <1>8
<1> QED BY <1>2, <1>4, <1>5, <1>6, <1>7, StartBegins

(* Each recipe's failure, from what its judging found. *)
LEMMA FailMeasuring ==
  ASSUME Inv, RunTypeOK, RunInv, JudgeMeasuring
  PROVE  NoFalseAlarm'
<1>1. Running /\ run \in Run /\ verdict'.run = run
  BY DEF JudgeMeasuring, RunTypeOK, Running, End
<1>2. SUFFICES ASSUME verdict'.result = "failed", Quiet(run), Roomy(run),
                      run.recipe = "assert_no_ttl_bump"
               PROVE  FALSE
  BY <1>1 DEF NoFalseAlarm, JudgeMeasuring, Quiet, Roomy
<1>3. \E k \in run.keys : ttl_of(k) > run.before[k]
  BY <1>2 DEF JudgeMeasuring, End
<1>4. PICK k \in run.keys : ttl_of(k) > run.before[k]
  BY <1>3
<1>5. k \in Keys /\ sequence \in Nat /\ store[k].live_until \in Nat
      /\ run.before[k] \in Nat
  BY <1>1 DEF Run, Inv, StorageTypeOK, Entry
<1>6. sequence = run.current /\ Intact(k)
  BY <1>1, <1>2 DEF RunInv, Undisturbed, Placed
<1>7. ExpiresAt(run, k) = sequence + run.before[k]
  BY <1>6 DEF ExpiresAt
<1>8. store[k].live_until = sequence + run.before[k]
  BY <1>5, <1>6, <1>7 DEF Intact
<1> QED BY <1>4, <1>5, <1>8 DEF ttl_of

LEMMA FailRecovers ==
  ASSUME MinPersistentTtl > 1, Inv, RunTypeOK, RunInv, NEW seen,
         JudgeRecovers(seen)
  PROVE  NoFalseAlarm'
<1>1. Running /\ run.recipe = "assert_recovers_after_expiry"
  BY DEF JudgeRecovers
<1>2. /\ UNCHANGED <<sequence, store>> /\ verdict'.run = run
      /\ verdict'.honest = Honest(seen)
  BY DEF JudgeRecovers, End, storageVars
<1>3. SUFFICES ASSUME verdict'.result = "failed", Quiet(run), Roomy(run),
                      Honest(seen), Live(TheKey)
               PROVE  FALSE
  BY <1>1, <1>2 DEF NoFalseAlarm, Live, Stored, TheKey, KeyOf, Quiet, Roomy
<1>4. /\ sequence \in Nat /\ store[TheKey].live_until \in Nat
      /\ TheKey \in Keys /\ run.keys = {TheKey}
      /\ ExpiresAt(run, TheKey) \in Nat /\ Placed /\ Intact(TheKey)
  BY <1>1, <1>3, QuietAt DEF Several
<1>5. seen = run.value[TheKey]
  BY <1>3, <1>4 DEF Honest, Observed, Intact
<1>6. ttl_of(TheKey) = 0
  BY <1>3, <1>5 DEF JudgeRecovers, End
<1>7. sequence = ExpiresAt(run, TheKey) + 1
  BY <1>1, <1>4 DEF Placed
<1>8. sequence <= store[TheKey].live_until
  BY <1>3 DEF Live
<1>9. ~Temporary(TheKey) /\ store[TheKey].live_until = FirstLiveUntil(TheKey)
  BY <1>4, <1>7, <1>8 DEF Intact
<1>10. store[TheKey].live_until = sequence + MinPersistentTtl - 1
  BY <1>9 DEF FirstLiveUntil
<1> QED BY <1>4, <1>6, <1>10 DEF ttl_of

LEMMA FailTemporaryExpires ==
  ASSUME Inv, RunTypeOK, RunInv, NEW seen,
         JudgeTemporaryExpires(seen) \/ JudgeFirstExpiredLedger(seen)
  PROVE  NoFalseAlarm'
<1>1. /\ Running
      /\ \/ run.recipe = "assert_temporary_expires"
         \/ run.recipe = "assert_temporary_expiry_boundary" /\ run.second = TRUE
  BY DEF JudgeTemporaryExpires, JudgeFirstExpiredLedger, RunTypeOK, Running, Run
<1>2. /\ verdict'.run = run /\ verdict'.honest = Honest(seen)
      /\ verdict'.result = IF seen = NoValue THEN "passed" ELSE "failed"
  BY DEF JudgeTemporaryExpires, JudgeFirstExpiredLedger, End
<1>3. SUFFICES ASSUME Quiet(run), Roomy(run), Honest(seen)
               PROVE  seen = NoValue
  BY <1>2 DEF NoFalseAlarm, Quiet, Roomy
<1>4. /\ sequence \in Nat /\ store[TheKey].live_until \in Nat
      /\ run.keys = {TheKey} /\ Placed
      /\ store[TheKey].live_until = ExpiresAt(run, TheKey)
  BY <1>1, <1>3, QuietAt DEF Several
<1>5. sequence = ExpiresAt(run, TheKey) + 1
  BY <1>1, <1>4 DEF Placed, Past
<1>6. ~(sequence <= store[TheKey].live_until)
  BY <1>4, <1>5
<1> QED BY <1>3, <1>6 DEF Honest, Observed, Live

LEMMA FailLastLive ==
  ASSUME Inv, RunTypeOK, RunInv, NEW seen, JudgeLastLiveLedger(seen)
  PROVE  NoFalseAlarm'
<1> DEFINE next == [run EXCEPT !.second = TRUE]
<1>1. /\ Running /\ run \in Run
      /\ run.recipe = "assert_temporary_expiry_boundary" /\ run.second = FALSE
  BY DEF JudgeLastLiveLedger, RunTypeOK, Running, Run
<1>2. /\ next.calls = run.calls /\ next.moved = run.moved
      /\ next.keys = run.keys /\ next.before = run.before
  BY <1>1 DEF Run
<1>3. SUFFICES ASSUME verdict'.result = "failed", verdict'.honest, Quiet(run), Roomy(run)
               PROVE  FALSE
  <2>1. verdict'.run \in {run, next} \/ verdict'.result # "failed"
    BY DEF JudgeLastLiveLedger, AdvanceThenRun, End, None
  <2> HIDE DEF next
  <2> QED BY <1>2, <2>1 DEF NoFalseAlarm, Quiet, Roomy
<1>4. /\ sequence \in Nat /\ store[TheKey].live_until \in Nat
      /\ run.keys = {TheKey} /\ Placed /\ Intact(TheKey)
      /\ store[TheKey].live_until = ExpiresAt(run, TheKey)
      /\ ExpiresAt(run, TheKey) \in Nat
  BY <1>1, <1>3, QuietAt DEF Several
<1>5. sequence = store[TheKey].live_until
  BY <1>1, <1>4 DEF Placed, Past
<1>6. Live(TheKey)
  <2>1. sequence <= store[TheKey].live_until
    BY <1>4, <1>5
  <2> QED BY <1>4, <2>1 DEF Live, Intact
<1>7. CASE seen # run.value[TheKey] /\ End("failed", run, Honest(seen))
  BY <1>3, <1>4, <1>6, <1>7 DEF End, Honest, Observed, Intact
<1>8. CASE AdvanceThenRun(1, ~PresentAt(TheKey, sequence + 1), next)
  <2>1. ~(sequence + 1 <= store[TheKey].live_until)
    BY <1>4, <1>5
  <2> QED BY <1>3, <1>8, <2>1 DEF AdvanceThenRun, End, None, PresentAt
<1> QED BY <1>7, <1>8 DEF JudgeLastLiveLedger

LEMMA FailDelta ==
  ASSUME Inv, RunTypeOK, RunInv, NEW expected_delta \in Expectations,
         JudgeTtlDelta(expected_delta)
  PROVE  NoFalseAlarm'
<1> DEFINE judged == [run EXCEPT !.expected = expected_delta]
<1>1. Running /\ run \in Run /\ run.recipe = "assert_ttl_delta"
  BY DEF JudgeTtlDelta, RunTypeOK, Running
<1>2. /\ judged.recipe = run.recipe /\ judged.calls = run.calls
      /\ judged.moved = run.moved /\ judged.expected = expected_delta
      /\ judged.keys = run.keys /\ judged.before = run.before
  BY <1>1 DEF Run
<1>3. verdict'.run = judged
  BY DEF JudgeTtlDelta, End
<1> HIDE DEF judged
<1>4. SUFFICES ASSUME verdict'.result = "failed", Quiet(run), Roomy(run)
               PROVE  expected_delta # 0
  BY <1>1, <1>2, <1>3 DEF NoFalseAlarm, Quiet, Roomy
<1>5. diff(TheKey) # expected_delta
  BY <1>4 DEF JudgeTtlDelta, End
<1>6. /\ sequence \in Nat /\ store[TheKey].live_until \in Nat
      /\ run.keys = {TheKey} /\ Placed /\ Intact(TheKey)
      /\ run.before[TheKey] \in Nat
  BY <1>1, <1>4, QuietAt DEF Several
<1>7. ExpiresAt(run, TheKey) = sequence + run.before[TheKey]
  BY <1>1, <1>6 DEF Placed, ExpiresAt
<1>8. store[TheKey].live_until = sequence + run.before[TheKey]
  BY <1>6, <1>7 DEF Intact
<1>9. diff(TheKey) = 0
  BY <1>6, <1>8 DEF diff, ttl_of
<1> QED BY <1>5, <1>9

LEMMA FailLeast ==
  ASSUME Inv, Check
  PROVE  NoFalseAlarm'
<1>1. PICK k \in Keys, min_ttl \in Expectations \cap Nat : AssertTtlAtLeast(k, min_ttl)
  BY DEF Check
<1> DEFINE judged == [Began("assert_ttl_at_least", {k}) EXCEPT !.expected = min_ttl]
<1>2. SUFFICES ASSUME verdict'.result = "failed" PROVE NoFalseAlarm'
  BY NoFailure
<1>3. Live(k) /\ ttl_of(k) < min_ttl /\ verdict'.run = judged
  BY <1>1, <1>2 DEF AssertTtlAtLeast, End
<1>4. /\ judged.recipe = "assert_ttl_at_least" /\ judged.keys = {k}
      /\ judged.expected = min_ttl
  BY DEF Began
<1>5. KeyOf(judged) = k
  BY <1>4 DEF KeyOf
<1>6. UNCHANGED <<sequence, store>>
  BY <1>1 DEF AssertTtlAtLeast, storageVars
<1>7. ~(sequence + min_ttl <= store[k].live_until)
  <2>1. sequence \in Nat /\ store[k].live_until \in Nat /\ min_ttl \in Nat
    BY DEF Inv, StorageTypeOK, Entry
  <2> QED BY <1>3, <2>1 DEF ttl_of
<1> HIDE DEF judged
<1>8. verdict'.run.recipe = "assert_ttl_at_least" /\ KeyOf(verdict'.run) = k
      /\ verdict'.run.expected = min_ttl
  BY <1>3, <1>4, <1>5
<1> QED BY <1>6, <1>7, <1>8 DEF NoFalseAlarm, PresentAt

(* Judging fails only recipes that may fail. *)
LEMMA FailJudge ==
  ASSUME MinPersistentTtl > 1, Inv, RunTypeOK, RunInv, Judge
  PROVE  NoFalseAlarm'
<1>1. CASE ClosurePanics
  BY <1>1 DEF ClosurePanics, End, NoFalseAlarm
<1>2. CASE JudgeRunning
  BY <1>2, NoFailure DEF JudgeRunning, End
<1>3. CASE JudgeExtensionDefersExpiry
  BY <1>3 DEF JudgeExtensionDefersExpiry, End, NoFalseAlarm
<1> QED BY <1>1, <1>2, <1>3, FailMeasuring, FailRecovers, FailTemporaryExpires,
           FailLastLive, FailDelta DEF Judge

(* A contract that handles expiry is failed by no recipe whose closure     *)
(* changes nothing and reports what it reads, as long as an entry restored *)
(* from the archive is given more than the one ledger it is restored on.   *)
THEOREM NoneFailedForExpiring ==
  ASSUME MinPersistentTtl > 1
  PROVE  Spec => []NoFalseAlarm
<1>1. Init => NoFalseAlarm
  BY DEF Init, None, NoFalseAlarm
<1>2. ASSUME Inv, RunTypeOK, RunInv, NoFalseAlarm, [Next]_vars
      PROVE  NoFalseAlarm'
  <2>1. CASE UNCHANGED vars
    BY <1>2, <2>1 DEF vars, NoFalseAlarm, Live, Stored, PresentAt, KeyOf, Quiet, Roomy
  <2>2. CASE Start
    BY <1>2, <2>2, StartFailsNot DEF NoFalseAlarm
  <2>3. CASE TestCode
    <3>1. verdict' = None
      BY <2>3 DEF TestCode, CallGet, CallSet, CallExtend, CallRemove, AdvanceLedgers,
                  RestoreCheckpoint, Noting
    <3> QED BY <3>1, NoFailure DEF None
  <2> QED BY <1>2, <2>1, <2>2, <2>3, FailLeast, FailJudge DEF Next
<1>3. Inv /\ RunTypeOK /\ RunInv /\ NoFalseAlarm /\ [Next]_vars => NoFalseAlarm'
  BY <1>2
<1> QED BY <1>1, <1>3, AlwaysRunInv, PTL DEF Spec
================================================================================
