------------------------------ MODULE MCQuickstart -----------------------------
(* Quickstart with two actors, who are not told apart, and an escrow. *)
EXTENDS Quickstart, TLC

CONSTANTS alice, bob, escrow

MCMints == {-1, 1, 2}

MCSymmetry == Permutations({alice, bob})
================================================================================
