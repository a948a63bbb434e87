------------------------------- MODULE TestToken -------------------------------
(***************************************************************************)
(* The token double of crates/testkit/src/tokens/sac.rs over a Stellar     *)
(* Asset Contract of the test's host, which is external: a table of        *)
(* balances that mints, moves and burns, or traps and changes nothing.     *)
(***************************************************************************)
EXTENDS Integers, FiniteSetsExt

CONSTANTS
  Holders,    \* the addresses that hold the token, contracts among them
  MaxAmount,  \* i128::MAX, scaled down
  Scale,      \* 10^7, the base units of a whole one
  MaxBurned   \* bound on what a test burns

ASSUME TokenAssumption ==
  /\ IsFiniteSet(Holders)
  /\ MaxAmount \in Nat /\ MaxBurned \in Nat
  /\ Scale \in Nat \ {0}

VARIABLES
  balances,       \* of the asset contract
  total_tracked,  \* of the TestToken
  burned          \* ghost: what holders have burned

tokenVars == <<balances, total_tracked, burned>>

I128 == (-MaxAmount - 1)..MaxAmount

Supply == MapThenSumSet(LAMBDA h : balances[h], Holders)

--------------------------------------------------------------------------------
(* The asset contract *)

(* Mutant: no check for an overflow. *)
CanCreditUnchecked(h, amount) == amount >= 0

CanCredit(h, amount) == amount >= 0 /\ balances[h] + amount <= MaxAmount

CanDebit(h, amount) == amount >= 0 /\ balances[h] >= amount

CanTransfer(from, to, amount) ==
  CanDebit(from, amount) /\ (from = to \/ CanCredit(to, amount))

Credited(b, h, amount) == [b EXCEPT ![h] = @ + amount]

Transferred(b, from, to, amount) ==
  Credited(Credited(b, from, -amount), to, amount)

--------------------------------------------------------------------------------
(* The double *)

InBaseUnits(amount) == amount * Scale

(* Mutant: tracked before the mint, which may refuse the amount. *)
TracksFirst(to, amount) == total_tracked + amount <= MaxAmount

(* The mint takes effect first; then total_tracked is summed, unchecked,   *)
(* which panics on an overflow in the profile tests are built with.        *)
Tracks(to, amount) ==
  /\ CanCredit(to, amount)
  /\ total_tracked + amount <= MaxAmount

mint_raw(to, amount) ==
  /\ balances' = IF CanCredit(to, amount) THEN Credited(balances, to, amount)
                                          ELSE balances
  /\ total_tracked' = IF Tracks(to, amount) THEN total_tracked + amount
                                            ELSE total_tracked
  /\ UNCHANGED burned

transfer(from, to, amount) ==
  /\ CanTransfer(from, to, amount)
  /\ balances' = Transferred(balances, from, to, amount)
  /\ UNCHANGED <<total_tracked, burned>>

burn(from, amount) ==
  /\ CanDebit(from, amount)
  /\ balances' = Credited(balances, from, -amount)
  /\ burned' = burned + amount
  /\ UNCHANGED total_tracked

TokenInit ==
  /\ balances = [h \in Holders |-> 0]
  /\ total_tracked = 0
  /\ burned = 0

TokenTypeOK ==
  /\ balances \in [Holders -> 0..MaxAmount]
  /\ total_tracked \in 0..MaxAmount
  /\ burned \in 0..MaxBurned

(* total_tracked is the supply, but for what holders burned themselves, as *)
(* long as all that was minted fits an i128: neither a refused mint nor a  *)
(* transfer moves it (sac.rs, mint_raw).  Past that it stays below, for    *)
(* the mint that overflows it has taken effect.                            *)
TrackedIsSupply ==
  LET minted == Supply + burned
  IN  IF minted <= MaxAmount THEN total_tracked = minted
                             ELSE total_tracked < minted

================================================================================
