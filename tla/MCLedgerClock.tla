----------------------------- MODULE MCLedgerClock -----------------------------
(* LedgerClock on a clock of a few ledgers, with its limits within reach.   *)
EXTENDS LedgerClock

MCOrigins == {[timestamp |-> 0, sequence |-> 0, settings |-> "defaults"]}

MCForeignInfos == {[timestamp |-> 6, sequence |-> 1, settings |-> "tightTtl"]}
================================================================================
