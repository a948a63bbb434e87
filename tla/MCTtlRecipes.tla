----------------------------- MODULE MCTtlRecipes ------------------------------
(* TtlRecipes with two or three entries over a dozen ledgers. *)
EXTENDS TtlRecipes, TLC

CONSTANTS session, vote, balance, instance

MCKindOf ==
  [k \in Keys |-> CASE k = balance  -> "Persistent"
                    [] k = instance -> "Instance"
                    [] OTHER        -> "Temporary"]

(* The two temporary entries are not told apart. *)
MCSymmetry == Permutations({session, vote})

MCExpectations == {-1, 0, 2}

MCRewinds == [sequence : {0}, max_entry_ttl : {5}]
================================================================================
