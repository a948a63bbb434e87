------------------------------- MODULE AuthMatrix ------------------------------
(***************************************************************************)
(* The authorization matrix of crates/testkit/src/auth/matrix.rs.          *)
(*                                                                         *)
(* assert_enforced calls every entry point as every known address, one     *)
(* cell after another on one host, and compares what succeeded with what   *)
(* the table allows.  The cells of a test against the vault share the      *)
(* vault; those of a test against the escrow register a new escrow each,   *)
(* but fund it from one buyer's purse.                                     *)
(***************************************************************************)
EXTENDS Vault, Sequences, SequencesExt

CONSTANTS
  Entries,        \* the entry points a test registers
  Alloweds,       \* the lists of addresses it allows
  MaxEntryPoints, \* bound on a table
  MaxPurse,       \* what the buyer holds at most
  Buyer,          \* of the escrows
  Host            \* a call that mocks no signer of its own

EscrowEntries == {"release", "refund", "withdraw_unchecked"}

ASSUME MatrixAssumption ==
  /\ Entries \subseteq VaultEntries \cup EscrowEntries
  /\ Alloweds \subseteq Seq(Addresses)
  /\ MaxEntryPoints \in Nat /\ MaxPurse \in Nat /\ MaxBalance \in Nat
  /\ Host \notin Addresses
  /\ Uninitialized \notin [owner : Addresses, balance : 0..MaxBalance]

VARIABLES
  vault,      \* the vault the cells share
  purse,      \* the buyer's tokens, in deposits
  all_auths,  \* the test has called mock_all_auths
  table,      \* the entry points of the matrix
  run,        \* the cells assert_enforced has run so far, or Idle
  verdict     \* how the assertion that has just ended did so, or NoVerdict

host == <<vault, purse, all_auths>>
vars == <<host, table, run, verdict>>

Idle == [cell |-> -1]
NoVerdict == [assertion |-> "none"]

EntryPoint == [entry : Entries, allowed : Alloweds]

(* Each call moves one unit. *)
Amount == 1

(* Mutant: mock_all_auths is still in force under mock_auths. *)
AuthorizedByEither(who, signer) == all_auths \/ signer = who

Authorized(who, signer) == IF signer = Host THEN all_auths ELSE signer = who

(* A call of the shared vault, with the owner's guard where it has one.    *)
VaultAccepts(entry, signer) ==
  Accepts(vault, entry, Amount,
          vault # Uninitialized /\ Authorized(vault.owner, signer))

CallVault(entry, signer, caller) ==
  vault' = IF VaultAccepts(entry, signer) THEN After(vault, entry, Amount, caller)
                                          ELSE vault

--------------------------------------------------------------------------------
(* The table *)

entry_point(e, allowed) ==
  /\ run = Idle /\ Len(table) < MaxEntryPoints
  /\ table' = Append(table, [entry |-> e, allowed |-> allowed])
  /\ verdict' = NoVerdict
  /\ UNCHANGED <<host, run>>

(* Mutant: an address allowed by two entry points is tried twice. *)
MergedTwice(known, addr) == Append(known, addr)

Merged(known, addr) == IF Contains(known, addr) THEN known ELSE Append(known, addr)

(* Every address allowed somewhere, in the order of its first mention.     *)
Known ==
  FoldLeft(Merged, <<>>, FlattenSeq([i \in DOMAIN table |-> table[i].allowed]))

--------------------------------------------------------------------------------
(* The cells *)

(* start and funds are ghosts, the vault and the purse the first cell found. *)
assert_enforced ==
  /\ run = Idle /\ table # <<>>
  /\ run' = [cell |-> 0, violations |-> {}, start |-> vault, funds |-> purse]
  /\ verdict' = NoVerdict
  /\ UNCHANGED <<host, table>>

Cells == Len(table) * Len(Known)

(* The cell to run next: an entry point and an address. *)
Row == (run.cell \div Len(Known)) + 1
Point == table[Row]
Addr == Known[(run.cell % Len(Known)) + 1]

(* Mutant: the first mismatch ends the run of the cells. *)
NextCellUntilMismatch(mismatch) == IF mismatch THEN Cells ELSE run.cell + 1

NextCell(mismatch) == run.cell + 1

(* The cell's closure has returned, with whether its call succeeded.      *)
Ran(actual) ==
  LET mismatch == Contains(Point.allowed, Addr) # actual
      here == <<Row, Addr>>
  IN  /\ run' = [run EXCEPT !.cell = NextCell(mismatch),
                            !.violations = IF mismatch THEN @ \cup {here} ELSE @]
      /\ UNCHANGED <<table, verdict>>

VaultCell ==
  /\ Point.entry \in VaultEntries
  /\ CallVault(Point.entry, Addr, Addr)
  /\ Ran(VaultAccepts(Point.entry, Addr))
  /\ UNCHANGED <<purse, all_auths>>

(* The escrow is new and holds the buyer's unit: only its guard is left.   *)
EscrowAdmits == Point.entry = "withdraw_unchecked" \/ Addr = Buyer

(* The closure calls mock_all_auths for the deposit, and leaves it on.     *)
EscrowCell ==
  /\ Point.entry \in EscrowEntries
  /\ purse >= Amount
  /\ purse' = IF EscrowAdmits /\ Point.entry = "refund" THEN purse ELSE purse - Amount
  /\ all_auths' = TRUE
  /\ Ran(EscrowAdmits)
  /\ UNCHANGED vault

Ended(result) ==
  /\ verdict' = [assertion |-> "enforced", result |-> result, table |-> table,
                 known |-> Known, start |-> run.start, funds |-> run.funds,
                 violations |-> run.violations]
  /\ run' = Idle
  /\ table' = <<>>

(* The buyer cannot fund another escrow: the deposit panics in the closure *)
(* and through assert_enforced, which reports nothing.                     *)
EscrowCellPanics ==
  /\ Point.entry \in EscrowEntries
  /\ purse < Amount
  /\ Ended("panics")
  /\ all_auths' = TRUE
  /\ UNCHANGED <<vault, purse>>

Cell ==
  /\ run # Idle /\ run.cell < Cells
  /\ VaultCell \/ EscrowCell \/ EscrowCellPanics

Judge ==
  /\ run # Idle /\ run.cell >= Cells
  /\ Ended(IF run.violations = {} THEN "passed" ELSE "violated")
  /\ UNCHANGED host

--------------------------------------------------------------------------------
(* The rest of the test *)

(* A test that is not in the middle of building a matrix.  entry_point     *)
(* touches nothing but the table, so that what a test does between two of  *)
(* them it may as well do before.                                          *)
Free == run = Idle /\ table = <<>>

(* A call outside any assertion. *)
Call(entry, signer, caller) ==
  /\ Free
  /\ CallVault(entry, signer, caller)
  /\ verdict' = NoVerdict
  /\ UNCHANGED <<purse, all_auths, table, run>>

MockAllAuths ==
  /\ Free /\ ~all_auths
  /\ all_auths' = TRUE
  /\ verdict' = NoVerdict
  /\ UNCHANGED <<vault, purse, table, run>>

Mint(n) ==
  /\ Free /\ purse + n <= MaxPurse
  /\ purse' = purse + n
  /\ verdict' = NoVerdict
  /\ UNCHANGED <<vault, all_auths, table, run>>

(* Passes if the closure panics, whatever it panics for. *)
assert_requires_auth(entry, signer, caller) ==
  /\ Free
  /\ CallVault(entry, signer, caller)
  /\ verdict' = [assertion |-> "requires_auth",
                 result |-> IF VaultAccepts(entry, signer) THEN "violated"
                                                           ELSE "passed"]
  /\ UNCHANGED <<purse, all_auths, table, run>>

--------------------------------------------------------------------------------

Init ==
  /\ vault = Uninitialized /\ purse = 0 /\ all_auths = FALSE
  /\ table = <<>> /\ run = Idle /\ verdict = NoVerdict

Next ==
  \/ \E e \in Entries, allowed \in Alloweds : entry_point(e, allowed)
  \/ assert_enforced \/ Cell \/ Judge
  \/ \E e \in Entries \cap VaultEntries, signer \in Addresses \cup {Host},
        caller \in Addresses :
       Call(e, signer, caller) \/ assert_requires_auth(e, signer, caller)
  \/ MockAllAuths
  \/ \E n \in 1..MaxPurse : Mint(n)

Spec == Init /\ [][Next]_vars

--------------------------------------------------------------------------------
(* Properties *)

TypeOK ==
  /\ vault \in Vaults /\ purse \in 0..MaxPurse /\ all_auths \in BOOLEAN
  /\ table \in SeqOf(EntryPoint, MaxEntryPoints)
  /\ run = Idle \/ /\ run.cell \in 0..Cells
                   /\ run.violations \subseteq (DOMAIN table) \X Addresses
                   /\ run.start \in Vaults /\ run.funds \in 0..MaxPurse
  /\ verdict # NoVerdict => verdict.result \in {"passed", "violated", "panics"}

(* Who may really call an entry point, from the contracts' own guards.     *)
MayCall(entry, owner) ==
  CASE entry \in {"release", "refund"} -> {Buyer}
    [] entry = "withdraw_checked"      -> {owner}
    [] OTHER                           -> Addresses

Judged ==
  verdict.assertion = "enforced" /\ verdict.result \in {"passed", "violated"}

Mentioned(tab) == UNION {Range(q.allowed) : q \in Range(tab)}

Wrong(i) ==
  LET p == verdict.table[i]
      admitted == MayCall(p.entry, IF verdict.start = Uninitialized THEN Host
                                   ELSE verdict.start.owner)
  IN  {<<i, a>> : a \in {b \in Mentioned(verdict.table) : Contains(p.allowed, b) # (b \in admitted)}}

OfEntries(entries) ==
  {i \in DOMAIN verdict.table : verdict.table[i].entry \in entries}

(* No cell of the run could meet a limit of the vault, or change its owner.*)
Ample ==
  LET cells(entries) == Cardinality(OfEntries(entries)) * Len(verdict.known)
  IN  /\ verdict.start # Uninitialized /\ cells({"initialize"}) = 0
      /\ verdict.start.balance >= cells({"withdraw", "withdraw_checked"})
      /\ verdict.start.balance + cells({"deposit"}) <= MaxBalance

(* A matrix that is judged names exactly the cells where table and guards  *)
(* differ: always for entry points that get a contract of their own per    *)
(* cell, and for those that share one as long as no earlier cell can       *)
(* exhaust it (matrix.rs, assert_enforced).                                *)
ReportIsExact ==
  Judged =>
    \A i \in DOMAIN verdict.table :
      verdict.table[i].entry \in EscrowEntries \/ Ample =>
        {v \in verdict.violations : v[1] = i} = Wrong(i)

(* However poor the vault, a cell reported as a forbidden caller getting   *)
(* through is a missing guard: what the cells share can only hide one.     *)
NoFalseAccusation ==
  Judged /\ OfEntries({"initialize"}) = {} =>
    \A v \in verdict.violations :
      ~Contains(verdict.table[v[1]].allowed, v[2]) => v \in Wrong(v[1])

(* A matrix is only ever cut short, with nothing reported, by a test that  *)
(* did not give the buyer a unit for each of its escrow cells: an entry    *)
(* point of an escrow and an address allowed somewhere, each tried once    *)
(* (matrix.rs, assert_enforced; the closures of the quickstart's tests).   *)
FundedIsJudged ==
  verdict.assertion = "enforced" /\ verdict.result = "panics" =>
    verdict.funds < Cardinality(OfEntries(EscrowEntries))
                      * Cardinality(Mentioned(verdict.table))

================================================================================
