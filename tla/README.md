# soroban-testkit, specified

TLA+ models of [soroban-testkit](../src/README.md), the testing crate for Soroban
contracts and its command line, with the TLC runs that check them and the TLAPS
proofs of what matters most. Paths below are relative to `src/`.

A test kit is trusted by every suite that uses it, and its mistakes are silent: a
clock that drifts, or a recipe that runs a ledger too early, makes other people's
tests pass for the wrong reason. So the models ask two kinds of question. Does
the state a test is handed (ledger, entries, addresses) stay what the kit says it
is over any legal sequence of calls, panics and rewinds included? And when a recipe
passes or fails, does its verdict follow from what really happened?

## 1. Inventory

### Components

| Component | Source | State | Operations |
|---|---|---|---|
| Ledger clock | `crates/testkit/src/ledger/clock.rs` | the host's `LedgerInfo`, the override of the close interval, the checkpoints a test holds, the ledgers set aside by open `at` calls | `advance` and the calendar forms, `advance_ledgers`, `advance_to_sequence`, `warp_to` (each with a `try_` form), `checkpoint`, `restore_checkpoint`, `at`, `with_ledger_close_interval` |
| TTL recipes | `crates/testkit/src/ttl/expiry.rs` | between the start and the end of a recipe: the TTLs it read | `expire`, nine recipes around a closure, `assert_ttl_delta`, `assert_ttl_at_least`, `ttl_of`, `ttl_timeline` |
| Contract storage | the SDK's test host, external | entries with value and last live ledger, `max_entry_ttl` | what a contract call does to an entry: get, set, extend, remove |
| Test environments | `crates/testkit/src/core/env.rs` | host, seed, interval, defaults, position in the address stream, two label indexes under a mutex | constructors, `clone_config`, `reset`, `address`, batches, actors, labels |
| `limits` command | `crates/cli/src/commands/limits.rs` | bracket of the search, probe process, deadline, baseline file | search, measure, compare, save, export |
| Event log | `crates/testkit/src/events/` | the host's events, of its most recent top-level call; the closure `events_during` runs; the logs a test keeps | `events`, `events_during`, filters, assertions |
| Token double | `crates/testkit/src/tokens/sac.rs` | `total_tracked`; the balances are the asset contract's | `token`, `mint`, `mint_raw`, `balance`, `assert_balance` |
| Money | `crates/testkit/src/money/` | none but a lifecycle under way (and a generator's state) | `amounts_in`, adversarial values, `Conservation`, `assert_conserved_over` |
| Authorization matrix | `crates/testkit/src/auth/matrix.rs` | the entry points registered, the cells run so far | `entry_point`, `assert_enforced`, `assert_requires_auth` |
| Example contracts | `examples/quickstart`, `examples/vault` | escrow and vault storage | `deposit`, `release`, `refund`, `withdraw_unchecked`; `initialize`, `deposit`, `withdraw`, `withdraw_checked` |
| Errors | `crates/testkit/src/core/error.rs` | none | constructors |
| `audit`, `coverage`, CLI shell | `crates/cli/src/` | none across runs, but the audit baseline file | visitors and report formatting |

### How they interact

Every module of the crate extends `TestEnv` with methods, and all of them act on one
host, the `soroban_sdk::Env` inside it. The clock writes the host's ledger; the
recipes call `advance_ledgers` and read TTLs through it; the token double draws its
admin from the same address stream as the test; the event log reads what the most
recent call left. A recipe and an `at` both run a closure of the test while they are
in the middle of their own work, and so do `events_during`, `assert_conserved_over` and
every cell of a matrix; the closure may call any of the above or panic.
`TestEnv` is neither `Send` nor `Sync`, so nothing in the crate runs concurrently:
the interleavings that matter are between a recipe and its own closure. The one
place with processes is the `limits` command, whose parent polls and kills a probe
child, and whose runs share a file.

### What is hard, and what makes each part correct

* **Clock.** Every move rounds the sequence up to whole ledgers; the three ways to
  ask for a move check their limits in three orders; `at` restores a whole ledger
  though it set one field, also under a panic, also when nested. Correct means: time
  and sequence stay in proportion, nothing overflows, `at` leaves no trace.
* **Recipes.** They compute a ledger from a TTL read *before* a closure, and judge by
  that TTL *after* it. The boundary is off by one in every direction that can be
  imagined: an entry is still live on the ledger its TTL ends on. Correct means: the
  closure runs where the host agrees the boundary is, a pass is evidence, a
  well-behaved contract is not failed.
* **Environments.** `reset` and `clone_config` must agree; a refused batch must not
  shift the stream; a panic raised with the label lock held poisons it.
* **limits.** The search must end whatever the contract does, and must not overstate
  the ceiling; a probe killed late counts as a failure; compare and save are two
  steps on one file.
* **Events.** The log holds one call: a balance query, a mint or a refused call empties
  it, and `events_during` returns what it finds there. The test owns what it is handed,
  and may assert on it many calls later. Correct means: nothing that moved is missing
  from the log of a single call, and what a log said of a contract stays so.
* **Tokens and escrow.** A mint takes effect before it is counted; any call may fail
  half-way; anyone may send tokens anywhere. Correct means: the count is the supply, an
  escrow pays once, what it locked, and can always pay.
* **Money.** Sums near the ends of an i128. Correct means: no wrap-around passes, no
  overflow fails flows that are sound, random amounts keep to their range.
* **Matrix.** Its cells share a host, and what one changes the next runs against.
  Correct means: the report is what the contracts' guards say, wherever the shared
  state cannot have decided a cell; and nobody is accused for nothing.

`PROJECT.json` lists the hazards one by one with their lines.

## 2. The modules

| Module | What it is |
|---|---|
| `ProportionalClock` | abstract: what the clock promises, seen from outside `at` |
| `LedgerClock` | the clock of one environment |
| `LedgerClockProofs` | its theorems |
| `MCLedgerClock` | definitions for its runs |
| `ContractStorage` | external: the host's storage entries as expiry.rs uses them |
| `TtlRecipes` | the recipes and the code of a test, over `ContractStorage` |
| `TtlRecipesProofs` | its theorems |
| `MCTtlRecipes` | definitions for its runs |
| `TestEnv`, `MCTestEnv` | the environments of a test |
| `TestEnvProofs` | its theorems |
| `LimitsSearch`, `MCLimitsSearch` | the `limits` command over the runs of a CI job |
| `LimitsSearchProofs` | its theorems |
| `TestToken` | the token double over an external asset contract |
| `EventLog` | the host's log, `events_during`, filters and assertions |
| `OneTimeEscrow` | abstract: what an escrow promises |
| `Escrow` | the escrow contract, over `TestToken` |
| `Quickstart`, `MCQuickstart` | a test that composes `Escrow`, `TestToken` and `EventLog` |
| `QuickstartProofs` | its theorems |
| `Vault` | the vault contract, as functions of its state |
| `AuthMatrix`, `MCAuthMatrix` | the authorization matrix over `Vault` and over escrows |
| `AuthMatrixProofs` | its theorems |
| `Money` | conservation checks and random amounts on a scaled i128 |
| `MoneyProofs` | its theorems |
| `FoldLemmas` | what folds over a sequence and sums over a set compute, for any operator |

Operators keep the names of the functions they model where TLA+ allows it. A
definition with "Mutant:" above it is a plausible bug in the definition below it; it
is used by no specification and is there to show that the properties would notice.

### LedgerClock

`info` is the host's `LedgerInfo`, with everything the clock does not read folded into
`settings`; `override` is `close_interval_secs`; `frames` is the Rust stack of open
`at` calls, each with the `original` it saved; `unwinding` says that a panic is on its
way up through them. Every public function is one action: a test is a single thread,
and none of these functions calls back except `at`, which is therefore two actions,
`AtEnter` and `AtExit`, with anything between them. The panicking form of a function
and its `try_` form are one action with a parameter: a refusal changes nothing, and
either unwinds or does not. `anchor` is a ghost: the position at which the clock was
last set outright, and the number of moves since that had to round up.

The abstract `ProportionalClock` knows a position, an interval and the saved
positions, and moves by ticks that keep time and sequence in step. `KeepsPromise` maps
its position to the ledger *outside* all open `at` calls, so it says at once that the
moves are proportional and that `at` is transparent.

Not modelled: a second handle on the host that writes the ledger directly (a test that
does so has left the kit), and the wording of the errors.

### ContractStorage and TtlRecipes

An entry is a value and the last ledger it is live on; `ttl_of` is the distance to it,
as the SDK reports it, and panics for an entry that is not live. A recipe is split at
its closure into a `Start...` and a `Judge...` action; between them `run` holds the
numbers the recipe read, and the test's own code (`CallSet`, `CallExtend`,
`AdvanceLedgers`, `RestoreCheckpoint`, ...) takes any steps. The same steps happen
between recipes. `verdict` is how the last recipe ended: passed, failed (its own
assertion), panics (a panic of the SDK or of the clock on the way), refused. A panic of the
closure is a failure in the recipes that catch it (`Catching`, those with a `catch_unwind`), and
unwinds as it is from the others.

`calls`, `moved` and `honest` are ghosts, of what the closure did and of whether it
returned what the contract really reads; the code reads none of them, the properties
use them as hypotheses. `assert_ttl_delta` is a recipe like the others: it reads
the TTL, runs the closure, reads it again and compares the signed difference with what
the test expected (`run.expected`, one of `Expectations`); what it claims is about TTLs and
not ledgers, so a closure that lets time pass shortens the difference, and `PassIsTruth`
says exactly that. `assert_ttl_at_least` has no closure and is one action, `Check`. Among
the recipes that judge a single entry is the error path of an entry that is not live
after the closure: reading its TTL panics, which is neither a pass nor a failure of the
kit's own. `Rewinds` is the set of checkpoints the test may restore,
empty in one run: with rewinding, `expire` does not keep its word (see below).

### TestEnv

`hosts` are the ledgers of all hosts ever built, since handles on them outlive the
environments; `envs` are the test's variables. The mutex around the labels is a flag
`poisoned`, since a panic inside is all that ever happens to it. No caller can see the flag,
every lock recovers from it; what is compared of two environments (`LooksCloned`) leaves it
out. `issued` is a ghost,
the addresses handed out since the stream began. A label that is only white space is
refused before the lock is taken; one in use is refused after.

### LimitsSearch

One action per step of `run`: spawn, poll, deadline, end of the refinement, measure,
compare, save, export; and one for the child, which exits when it likes unless the
contract hangs on the value. Any system call may fail. A contract is the set of values
it handles, the set on which it never returns, and a cost; `Start` begins another run,
with a contract and flags of its own, on the same baseline file.

The committed `run` calls `validate_percentage`, which the repository does not define,
so the crate does not compile as it stands; the model takes the call for what the
tests beside it (limits.rs:1213) expect, one more way to fail before the first
probe. The baseline of a different function or ramp is likewise an error and is not
distinguished from a damaged file.

### TestToken, EventLog, Escrow and Quickstart

`Quickstart` is the host with a test on it, in the manner of the tests of
`examples/quickstart`. Every call of the test, `balance` included, is one top-level
invocation. `Invoked` is what all of them do to the log: the host keeps what this call
published and forgets the rest, and nothing if the call failed. A call that fails
changes no contract; in its plain form it panics, which unwinds out of the closure of
`events_during` under way, in its `try_` form the closure goes on (`Traps`). A call has the
signature it asks for or fails: any test may mock the right signer for a call, or another, with
`mock_all_auths` on or off, so the mode is no state of its own here (it is in `AuthMatrix`).

`returned` is the `EventLog` the test took last, from `events` (`Capture`) or from `events_during`.
It is a copy, so every other step leaves it alone, and it is still there to be asserted on
after any number of calls.

`mint_raw` is the one operation that may fail half-way: the asset contract has minted
when `total_tracked` is summed, and the sum panics if it overflows, in the profile tests are
built with. `mint` scales whole units first and refuses a product that does not fit
before any call is made. The asset contract is external: a table of balances that
refuses negative amounts, debits it cannot cover and credits that do not fit.

An escrow's `load_state`, its checks, the token's transfer and the flag `settled` make one
action each for `deposit`, `release`, `refund` and `withdraw_unchecked`. The last is the bug the
example plants on purpose: anyone may make it pay the seller. That is no exception to
`PaysOnce`, which says that each escrow implements `OneTimeEscrow`: it locks once, pays
once, exactly what was locked, and keeps whatever else it is sent. Sellers are
addresses of the test, so no escrow is its own seller.

`burned` is a ghost, and so are `before`, `calls` and `published` of the closure: the
balances when it began, its calls and all they published.

### Vault and AuthMatrix

`assert_enforced` is cut into its cells, in the order of the code: the known addresses are
gathered over all rows first, then every row is tried as every one of them. A cell on
the vault calls the vault all cells share, so it may fail because an earlier cell
took the last unit, or succeed because an earlier one made its caller the owner. A cell on
an escrow registers a contract of its own, as the example's test does, but funds it from
one buyer's purse and calls `mock_all_auths`, which stays on. A purse that is empty
panics through `assert_enforced`. Calls outside the matrix and `assert_requires_auth` come in
any order with it.

`verdict` keeps what the last assertion saw and said, for the properties: the code
returns or panics. `start` and `funds`, the vault and the purse the first cell found, are
ghosts. `MayCall` says
who may call what from the contracts' guards alone, and is what reports are held against.

### Money

The range of an i128 is `-Half .. Half - 1`, and the casts and wrapping operations of
`amounts_in` are spelled out on it; the splitmix generator is any draw of the unsigned
range. `check` is the assertion or the lifecycle under way: `assert_conserved_over` calls the
test's closure once per step, and the closure returns what it likes. `leaked` is a ghost.
Properties ask the same question of unbounded integers.

## 3. The runs

| Run | Question | Distinct states |
|---|---|---|
| `clock` | the clock with `at` two deep, panics, checkpoints of two environments and a changed interval: types, proportion, arithmetic, refinement | 777,202 |
| `ttl_recipes` | three entries: what a pass shows, differences of TTLs included, siblings, `expire` | 993,728 |
| `ttl_rewound` | two entries: boundaries, timelines and false alarms under restored checkpoints, that of ledger 0 included | 991,056 |
| `environments` | two environments to the end of their address streams | 546,303 |
| `limits_run` | one run on every contract | 23,328 |
| `limits_job` | a job of runs with one baseline file | 32,567 |
| `quickstart` | a test of two actors, the token and an escrow, in and out of `events_during`, with a log it keeps: tracked supply, what logs tell then and later, an escrow that pays once | 405,366 |
| `matrix` | every table of two rows over an owner and a stranger, between other calls: what the report tells, and when there is none | 661,024 |
| `money` | every conservation check on adversarial amounts, lifecycles of up to three steps, every range of amounts | 168,131 |

**Bounds, and why they are enough.** The clock's limits (`MaxSequence` 3,
`MaxTimestamp` 7, close intervals 2 and 3) are a few moves away from the start, so
that every order of reaching, hitting and being refused at a limit occurs; durations
with a fraction of a second, a calendar product that overflows, and targets behind
and ahead are in the argument sets. Two open `at` calls are the least that can nest,
and two checkpoints let one be foreign and one the test's own. The clock's properties
are also proved for all values. Three entries on six ledgers, two of one kind, can be
extended apart from each other, to the cap, and expire; the two of one kind are
symmetric. Runs with rewinding take seven ledgers and a checkpoint of
ledger 0, where every `TestEnv` starts: enough for an entry to be written, extended, expire, be
restored and expire again, before and after the rewind, and to live to the last ledger there
is, seen from the first (`MaxSequence` stands for `u32::MAX`). An address stream of two with batches of two makes
a batch run into its end; three hosts allow two resets or clones, and two
environments, and two labels, are symmetric; the seed is one, which makes the streams of
the two comparable. In `env_poisoned` the stream has three addresses, so that a label is refused
well before it ends. `UPPER_BOUND` 8 gives three doublings and a
refinement over every value in between, for each of the 256 sets of values a contract
may handle, so that nothing depends on a contract being monotone. A deadline one sleep
away lets a child exit before, at and after it. The job of runs has ceilings 1 to 3 and
costs on both sides of the tolerance; its state is closed under any number of runs.

An i128 of the token ends at `MaxAmount` 2, two units away from nothing, so that a mint
overflows a balance, overflows only the total (one holder's token each, or one burned
before), or is out of range once scaled (`Scale` 2). `MaxBurned` 1 is enough to part the supply
from what was minted. Closures of up to two calls (`MaxCalls`) are the least in which a log
loses something. Offers include 0 and more than anyone holds; the two actors are
symmetric, each may be buyer, seller, both or neither. One kept log
is enough: what `EventsTellState` says is of each log by itself. In `matrix` two rows and two
addresses make four cells, the most that can drain a vault of at most 4 units
(`MaxBalance`), run it full, or empty a purse of at most 4; so both a vault with room for all
cells and one without exist for every table. The allowed lists include an empty one
and both orders of two, which give two orders of the known addresses. In `money`, `Half` 8
keeps all thirteen adversarial amounts, `Stroop` 5 included, inside the range; all ranges
and all pairs of draws are tried. Its properties are also proved for every `Half`.

Deadlock is checked wherever the system goes on for ever. The runs of `TestEnv`
switch it off: they bound the number of hosts, and a test that has built them all and
dropped its environments is over.

**Fairness.** Only `RunEnds` needs any: `WF_vars(Command)`, weak fairness of the
parent process as a whole. The code's scheduling justifies it, since the parent is one
thread that either computes, sleeps for 20 ms or waits for a child it has killed.
Nothing is assumed of the child (it may never exit) nor of whoever starts the next
run. All other properties are safety properties, and their specifications state no
fairness.

**What they show.** All nine pass. Each of their properties is violated when the
definition named in `PROJECT.json` is replaced by its mutant.

### Where the code does not do what is said of it

Three runs each check one statement of a comment that the code does not keep; TLC
violates each of them.

| Run | The statement | What happens |
|---|---|---|
| `ttl_last_live` | expiry.rs:132, gone once `expires_at_sequence` is reached | it is the last live ledger, on which `expired_at` already answers true |
| `env_poisoned` | env.rs:517, `reset` behaves like `clone_config` | label an address, ask for the same label again, catch the panic, reset: the poisoned lock keeps the label, and the address drawn next answers to it |
| `events_during` | capture.rs:155, returns "the events published while it ran"; BUILD_SPEC.md:377, excludes events from before | not if the closure made no call, or several: the host holds the last call, whenever it was |

More statements fail in the same models, and have no run of their own.
`expire` "guarantees expiry for every kind at once" (expiry.rs:469), but not of an entry
written or extended before a checkpoint was restored: `ExpireKillsAll` is violated as soon as
`Rewinds` is not empty. `assert_runs_before_expiry` refuses an entry with a TTL of 0 as
"already expired" (expiry.rs:787) on its last live ledger, the same confusion as
`ttl_last_live`. `assert_runs_after_expiry` says that sibling entries "stay at their
current position in ledger time" (expiry.rs:810); all entries share the clock, and what
does hold is `SiblingsSurvive`. The deferral recipe says that it fails if the entry is gone one
ledger past the boundary (expiry.rs:1400); it counts from wherever the closure left the
ledger. Comparing and updating in one run (limits.rs:49) ends before it saves when it finds
a regression. "All events emitted so far" (BUILD_SPEC.md:347) are those of one call.

Two assertions are weaker than their names. A vault that is too poor, or not initialized, rejects a cell whatever its guard, so
a missing guard can stay hidden: `ReportIsExact` holds of shared state only for `Ample`
runs, `NoFalseAccusation` always; and a purse too small ends a matrix with no report at all, which
`FundedIsJudged` says is the only way it ends so. `assert_requires_auth` passes for any panic, an
empty vault's included; no property is stated of it.

Noticed while reading, without a run: `--export` is documented as JSON (limits.rs:53)
and writes the `key=value` form of the baseline; `overflow_edge_triples` keeps the low 64
bits of `i128::MAX / rate` (generators.rs:94), which puts two of its triples far from the
edge; a first probe that times out is reported as a validation error (limits.rs:194);
audit.rs:428 replaces the suppressions it has just extracted by an empty list.

## 4. The proofs

Every safety invariant and every action property of the nine passing runs is a theorem,
for every value of the constants that satisfies the named assumptions: `ClockAssumption`,
`StorageAssumption`, `RecipeAssumption`, `EnvAssumption`, `LimitsAssumption`,
`MoneyAssumption`, `TokenAssumption`, `LogAssumption`, `EscrowAssumption`,
`EmptyAssumption`, `QuickstartAssumption` and `MatrixAssumption`. They give the types of the
arguments and the limits, with a default close interval above 0 and minimum TTLs that are
positive and within the cap; and say that addresses of different kinds differ: an escrow's
is none of those a test draws, nor the asset contract's (`Token \notin Escrows`), and a vault
that is not initialized is no vault with an owner. Four theorems carry a hypothesis of their
own, named below with the counterexample TLC gives without it.

**LedgerClockProofs.** `TypeOK` and `Proportional` are not inductive: a restore or the
end of an `at` brings back a position from elsewhere. `ProportionInv` therefore adds
that every checkpoint is in proportion with the anchor kept with it, and every ledger
set aside with the anchor of its frame, under the interval in force. One lemma
per action, with the common part (`MoveKeepsInv`, `MoveInProportion`) apart; from it
`TypeCorrect` and `StaysProportional`. `SplitHolds` and `DirectionsHold` follow from
the types and facts on rounded division (`DivCeilBounds`, `SplitDivCeil`,
`WholeDivCeil`), which are nonlinear and proved by distributing products.
`ImplementsPromise` is the refinement: each action is a step of `ProportionalClock` or
leaves its variables alone, with a case for the outermost `at`, whose exit must
restore exactly the position seen from outside.

**TtlRecipesProofs.** `TypeCorrect` and `SiblingsLive` hold whatever checkpoints the test
restores; the first rests on an advance that is never negative, the second on the
advance being the named entry's TTL plus one. `ExpiryKills` needs `Rewinds = {}`, as said
above: then no entry is live longer than the cap from the present ledger (`WithinMax`), since
the sequence only grows, first TTLs are within the cap, and an extension past it is
refused; so one ledger past the cap nothing lives.

The theorems on verdicts need to know what a recipe under way still knows of its entries
(`RunInv`): until the closure calls the contract, the timeline tells of them (`Untouched`,
from which `TimelinesTell`, unconditionally); after calls that only read, an entry is as it
was, or archived and restored with its first TTL, and the ledger is where the recipe put it
(`Undisturbed`); and in a test that goes back to no checkpoint the ledger is at least as far as
the recipe took it (`Onward`), which is what `PassesAreTrue` (`Rewinds = {}`) rests on: a
closure may do all else, but it cannot undo the boundary.

`RunsAtBoundary` and `NoFalseAlarm` leave out a TTL of `u32::MAX` (`Roomy`), and are proved
for all checkpoints. Only an entry that lives to `u32::MAX`, seen from ledger 0 after a rewind,
has that TTL; `saturating_add` (expiry.rs, the advance past the boundary) does not get past it, and
the closure "after expiry" runs on the last live ledger. TLC finds both violated without
`Roomy`. `NoneFailedForExpiring` also assumes `MinPersistentTtl > 1`: with 1, an entry that a
read restores has a TTL of 0 on that ledger, which `assert_recovers_after_expiry` takes for an
entry that did not recover, and TLC finds an honest contract failed. No network has such
settings; the theorems say that these are the only ones.

**TestEnvProofs.** All six are unconditional. The invariant holds of each environment apart
(`EnvInv`) but for the hosts, which `HostsApart` relates: a new host gets the next number. Per
environment: what was issued is the seed's stream up to the counter, unless a batch ran into
its end (`StreamInv`); the two indexes are each other turned round (`IndexesInv`), with no
label twice. That every labelled address is of the stream so far, and so newer addresses
differ from it, holds only while the lock is not poisoned (`AddressesInv`, `SeedInv`): a
reset keeps poisoned labels, and starts the stream again. From these `LabelsComeBack` and,
under the same condition, `ResetClones`.

**LimitsSearchProofs.** The invariant is the bracket of the search: while doubling, half the
value tried is the last that succeeded (`DoublingInv`); while refining, the lower end
succeeded and the upper one was taken for failed (`RefiningInv`); once found, the value after
the ceiling was (`FoundInv`). None of this needs a monotone contract. `CeilingTrue` is about
monotone ones, and assumes that the bound is a power of two (`BoundIsDoubled`: the doublings of
1 reach it), as `1 << 24` at limits.rs:172 is: from any other bound the doubling stops
short of it, and a contract that handles all would be given a lower ceiling. `BaselineRises`
is an action property over all runs of a job; its invariant says that what is about to be
saved was compared (`ComparedInv`).

**QuickstartProofs.** The seven calls that touch a contract have, for the escrows, three
effects: a gift, a lock, a payout (`Effect`, `NextHasEffect`). `PaysOnce` maps them to the
steps of `OneTimeEscrow` (`EffectPromises`); what it needs of the state is `Inv`: balances
within the width, storage that is empty or whole, and every locked escrow covered, so that
half of `Solvent` is proved on the way (`AlwaysCovered`). That nobody but the escrow spends
what it holds rests on the assumption above. For the log the invariant is that a closure's
events end with what the host holds, once it made a call (`LogInv`); a call appends to one
and replaces the other. `LogHolds` and `TypeCorrect` follow.

Two more facts about a call carry the rest: its events, folded over the balances, are what
it did to them (`Accounts`), and what the host holds after it tells the escrows' state
(`Tells`), since every call that changes an escrow replaces the log. A log the test has taken
is not replaced, so for it an escrow must not go back: once deposited to it stays so, with its
amount, and once settled it stays settled (`OneWay`, of every effect). What `Tells` says of a log
when it is taken implies `StillTells`, and `StillTells` survives whatever is called next
(`StillTellsLater`), which is `LogsTellState`. A fold over a concatenation is a fold of the folds
(`FoldOfConcat`), so `EventsAccount` holds of closures of any length. `TracksTheSupply` and the second half of
`AlwaysSolvent` are about sums over any finite set of holders: a credit moves the sum by its
amount (`TotalUpdated`), a transfer not at all, and two balances never exceed the sum
(`TotalAtLeast`). `EventLog.Where` is written as a recursive function for these proofs; it
is `SelectSeq`, of which the provers know no definition.

**AuthMatrixProofs.** All are unconditional, for tables of any number of rows and
addresses. While `assert_enforced` runs, each row is exact over the cells run so far
(`Exact`), which on the vault's rows needs that no cell was decided by the vault's
balance: what the cells still to run may take or put in fits what is left (`Room`), and the
owner stays (`OwnerStays`). For tables that initialize nothing, everyone reported as a
forbidden caller may really call (`Founded`). In a run with enough funds, the purse covers the escrow
cells still to run (`PurseLasts`), so a run that panics had too little (`FundedAreJudged`); that no
address is known twice makes the known ones as many as those mentioned (`KnownCounts`). Cells are
numbered through the table, so much of
the module is about division by the number of addresses.

**FoldLemmas.** The community modules' `FoldLeft`, `FlattenSeq` and `MapThenSumSet` are built on
a recursive function over sets of indices. The library's induction theorems take an operator
as a parameter, which the provers cannot instantiate; but induction can be stated of a set
(`NatInducts`: a set with 0 and every successor in it has every number), and a property of a
number is membership in the set of numbers that have it. From it: that the recursive
function exists, and what it computes for an empty sequence, one more element and a
concatenation. The module has the operator of the fold as a constant and is instantiated
once for each.

**MoneyProofs.** The five properties of `Money` hold for every `Half`, 2^127 among them. The
state is one check, so the inductive invariant is the properties themselves, `Right`, with
one strengthening for a lifecycle under way: no step so far has leaked (`Inv`). What
carries the proof is arithmetic: a check says of unbounded integers what it says of
representable ones, and the parts of sound flows are representable (`WithinIsRight`);
and of `amounts_in`, that casting to unsigned, adding modulo `2 * Half` and casting back is
adding (`AmountIsOffset`), from which an amount is in its range, and every one in the range
is drawn (`AmountsAreRight`).

**Model-checked only.** `RunEnds`, the one liveness property: fairness and `ENABLED` are
beyond the prover. The three properties that are violated are statements the code does not
keep, and have no theorem. External code is modelled as the sources use it, and the
theorems are about those models.

## 5. Plan

Done, the most important behaviour first: the clock with its promise and proofs;
storage and recipes with theirs; environments; the `limits` command; tokens, events and
escrow in one test, with the proof of the escrow's promise; the matrix; money with its
proofs; then the proofs of all the other invariants and action properties.

Next:

1. A measure for the search of `LimitsSearch`, as an action property: each probe heard
   shrinks what is left to search. With it, `RunEnds` rests on fairness alone.
2. A weaker hypothesis for `PassesAreTrue`: a test that restores a checkpoint between two
   recipes, but not inside a closure.
3. An abstract specification of the `limits` command (a run reports the ceiling of its
   contract or says that it could not), with the refinement proved from `Inv`.

Left of the model: a closure of `events_during` inside another, and recipes inside `at`. Of
the second, what `at` does to a recipe is what `RestoreCheckpoint` does to it already, the
whole ledger put back, so a composition of `LedgerClock` and `TtlRecipes` would add states
more than behaviour.

## 6. Not modelled

`audit` visits the syntax of one function after another and filters what it finds by
lists; it writes nothing but its report, and no step of it depends on an earlier one. Its subject is Rust source, which a model would have to
parse. `coverage`, `completion` and the CLI's argument parsing are I/O and formatting. The
error type has constructors and wording only. In `limits`, loading the wasm and building
arguments are taken for the contract's answer. Of the vault, the functions that keep
records (`touch_record`, `read_temp` and the like) are subjects of TTL tests and are what
`ContractStorage` and the recipes are about. Of the generators, the lists `bps_values` and
`overflow_edge_triples` are constants. Allowances of the asset contract are left out; the
kit has no operation on them.
