------------------------------- MODULE MCTestEnv -------------------------------
(* TestEnv with one environment, or two, on three hosts.                    *)
EXTENDS TestEnv, TLC

CONSTANTS launch, latest, alice, bob, blank

MCDefaults == {NoDefaults, [sequence_number |-> 1, protocol_version |-> launch]}

MCLists ==
  {<<>>, <<alice>>, <<bob>>, <<alice, alice>>, <<bob, bob>>, <<alice, blank>>,
   <<bob, blank>>}

(* Neither environments nor labels are told apart. *)
MCSymmetry ==
  Permutations(Envs) \cup Permutations({alice, bob})
================================================================================
