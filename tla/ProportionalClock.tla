--------------------------- MODULE ProportionalClock ---------------------------
(***************************************************************************)
(* What the ledger clock promises a test that looks at it from outside its *)
(* `at` calls: time and ledger sequence move forward together, one ledger  *)
(* for every started close interval, and the position changes in no other  *)
(* way than by going back to one the test has saved.                       *)
(***************************************************************************)
EXTENDS Integers

VARIABLES
  position,   \* [timestamp, sequence, settings] of the ledger
  interval,   \* seconds one ledger takes to close
  saved       \* the positions the test has checkpointed

vars == <<position, interval, saved>>

Init ==
  /\ position.timestamp \in Nat
  /\ position.sequence \in Nat
  /\ interval \in Nat \ {0}

(* Time and sequence move forward together: the last of the ledgers that   *)
(* closed is the one in which the time elapsed ends.                       *)
Tick ==
  LET secs    == position'.timestamp - position.timestamp
      ledgers == position'.sequence - position.sequence
  IN  /\ ledgers > 0
      /\ (ledgers - 1) * interval < secs
      /\ secs <= ledgers * interval
      /\ position'.settings = position.settings
      /\ UNCHANGED <<interval, saved>>

(* A checkpoint may hold what the clock shows inside an `at`, which cannot *)
(* be seen from here.                                                      *)
Save ==
  /\ saved \subseteq saved'
  /\ UNCHANGED <<position, interval>>

GoBack ==
  /\ position' \in saved
  /\ UNCHANGED <<interval, saved>>

Configure ==
  /\ interval' \in Nat \ {0}
  /\ UNCHANGED <<position, saved>>

Next == Tick \/ Save \/ GoBack \/ Configure

Spec == Init /\ [][Next]_vars
================================================================================
