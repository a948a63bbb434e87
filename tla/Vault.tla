--------------------------------- MODULE Vault ---------------------------------
(***************************************************************************)
(* The vault contract of examples/vault, the subject of the kit's own      *)
(* tests of authorization: what each entry point accepts, and what the     *)
(* vault holds after.  A call that is not accepted changes nothing.        *)
(***************************************************************************)
EXTENDS Integers

CONSTANTS
  Addresses,
  MaxBalance,     \* i128::MAX, scaled down
  Uninitialized   \* a vault without an owner

Vaults == [owner : Addresses, balance : 0..MaxBalance] \cup {Uninitialized}

(* Mutant: a deposit that would overflow goes through. *)
AcceptsAnyDeposit(vault, entry, amount, by_owner) ==
  \/ entry = "initialize"
  \/ /\ vault # Uninitialized
     /\ \/ entry = "deposit"
        \/ entry = "withdraw" /\ vault.balance >= amount
        \/ entry = "withdraw_checked" /\ by_owner /\ vault.balance >= amount

(* by_owner: what withdraw_checked's require_auth finds. *)
Accepts(vault, entry, amount, by_owner) ==
  \/ entry = "initialize"
  \/ /\ vault # Uninitialized
     /\ \/ entry = "deposit" /\ vault.balance + amount <= MaxBalance
        \/ entry = "withdraw" /\ vault.balance >= amount
        \/ entry = "withdraw_checked" /\ by_owner /\ vault.balance >= amount

After(vault, entry, amount, caller) ==
  CASE entry = "initialize" -> [owner |-> caller, balance |-> 0]
    [] entry = "deposit"    -> [vault EXCEPT !.balance = @ + amount]
    [] OTHER                -> [vault EXCEPT !.balance = @ - amount]

VaultEntries == {"initialize", "deposit", "withdraw", "withdraw_checked"}

================================================================================
