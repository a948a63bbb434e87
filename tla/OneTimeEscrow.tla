----------------------------- MODULE OneTimeEscrow -----------------------------
(***************************************************************************)
(* What escrows promise whoever pays into them: an amount is locked once,  *)
(* paid out once, and in full.  Whatever else one is given stays with it.  *)
(***************************************************************************)
EXTENDS Integers

CONSTANT Escrows

VARIABLES
  phase,   \* of each escrow: "empty", "locked" or "settled"
  locked,  \* the amount, once locked
  held     \* what the escrow's address holds

Init ==
  /\ phase = [e \in Escrows |-> "empty"]
  /\ locked = [e \in Escrows |-> 0]
  /\ held = [e \in Escrows |-> 0]

Lock(e) ==
  /\ phase[e] = "empty"
  /\ phase' = [phase EXCEPT ![e] = "locked"]
  /\ locked'[e] > 0
  /\ locked' = [locked EXCEPT ![e] = locked'[e]]
  /\ held' = [held EXCEPT ![e] = @ + locked'[e]]

Settle(e) ==
  /\ phase[e] = "locked"
  /\ phase' = [phase EXCEPT ![e] = "settled"]
  /\ held' = [held EXCEPT ![e] = @ - locked[e]]
  /\ UNCHANGED locked

Given(e) ==
  /\ held'[e] > held[e]
  /\ held' = [held EXCEPT ![e] = held'[e]]
  /\ UNCHANGED <<phase, locked>>

Next == \E e \in Escrows : Lock(e) \/ Settle(e) \/ Given(e)

vars == <<phase, locked, held>>

Spec == Init /\ [][Next]_vars

================================================================================
