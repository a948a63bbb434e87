--------------------------------- MODULE Escrow --------------------------------
(***************************************************************************)
(* The escrow contract of examples/quickstart.  A call takes effect as a   *)
(* whole or, when any check or the token traps, not at all.                *)
(***************************************************************************)
EXTENDS TestToken

CONSTANTS
  Actors,   \* the test's addresses
  Escrows,  \* the registered escrow contracts
  Empty     \* the storage of one nobody has deposited to

ASSUME EscrowAssumption ==
  /\ Actors \cup Escrows \subseteq Holders
  /\ Actors \cap Escrows = {}

VARIABLE storage   \* per escrow: DataKey::Buyer, Seller, Amount and Settled

Deposited == [buyer : Actors, seller : Actors, amount : 1..MaxAmount,
              settled : BOOLEAN]

ASSUME EmptyAssumption == Empty \notin Deposited

IsEmpty(e) == storage[e] = Empty

(* load_state *)
IsLocked(e) == storage[e] # Empty /\ ~storage[e].settled

(* Mutant: only a locked escrow refuses a deposit. *)
CanDepositAgain(e, buyer, amount) ==
  /\ ~IsLocked(e)
  /\ amount > 0
  /\ CanTransfer(buyer, e, amount)

CanDeposit(e, buyer, amount) ==
  /\ IsEmpty(e)
  /\ amount > 0
  /\ CanTransfer(buyer, e, amount)

deposit(e, buyer, seller, amount) ==
  /\ CanDeposit(e, buyer, amount)
  /\ transfer(buyer, e, amount)
  /\ storage' = [storage EXCEPT ![e] =
       [buyer |-> buyer, seller |-> seller, amount |-> amount, settled |-> FALSE]]

(* Mutant: the flag is left to the caller. *)
SettledUnset(e) == storage

Settled(e) == [storage EXCEPT ![e].settled = TRUE]

CanPayOut(e, to) == IsLocked(e) /\ CanTransfer(e, to, storage[e].amount)

PayOut(e, to) ==
  /\ CanPayOut(e, to)
  /\ transfer(e, to, storage[e].amount)
  /\ storage' = Settled(e)

EscrowInit == storage = [e \in Escrows |-> Empty]

EscrowTypeOK == storage \in [Escrows -> Deposited \cup {Empty}]

(* A locked escrow holds at least what it owes. *)
Covered == \A e \in Escrows : IsLocked(e) => balances[e] >= storage[e].amount

(* A locked escrow can always be settled either way: it is covered, and    *)
(* unless more was minted than an i128 holds, neither party's balance      *)
(* stands in the way (lib.rs, release and refund).                         *)
Solvent ==
  /\ Covered
  /\ Supply <= MaxAmount =>
       \A e \in Escrows : IsLocked(e) => /\ CanPayOut(e, storage[e].seller)
                                         /\ CanPayOut(e, storage[e].buyer)

Phase(e) == IF IsEmpty(e) THEN "empty" ELSE IF IsLocked(e) THEN "locked" ELSE "settled"

Promise ==
  INSTANCE OneTimeEscrow
    WITH phase  <- [e \in Escrows |-> Phase(e)],
         locked <- [e \in Escrows |-> IF IsEmpty(e) THEN 0 ELSE storage[e].amount],
         held   <- [e \in Escrows |-> balances[e]]

(* Each escrow is a one-time escrow: it locks once, pays once, and exactly *)
(* what was locked, whatever is called in whatever order, unchecked        *)
(* withdrawals included, and whoever sends it tokens besides.              *)
PaysOnce == Promise!Spec

================================================================================
