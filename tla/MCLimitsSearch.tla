---------------------------- MODULE MCLimitsSearch -----------------------------
(* LimitsSearch for one run on every contract, and for a job of runs on a   *)
(* few.                                                                     *)
EXTENDS LimitsSearch

Cheap == [m \in Metrics |-> 100]

(* Every set of values handled, and one or no value hung on: the first the *)
(* doubling or the search tries after two have succeeded, or neither.      *)
MCEveryContract ==
  {c \in [ok : SUBSET Values, hangs : {{}, {4}, {6}}, cost : {Cheap}] :
     c.ok \cap c.hangs = {}}

MCPlainRun ==
  {[baseline |-> FALSE, save_baseline |-> FALSE, export |-> FALSE, tolerance |-> 5]}

(* Versions with ceilings 1 to 3, cheaper and dearer. *)
MCVersions ==
  {[ok |-> 1..n, hangs |-> {}, cost |-> [Cheap EXCEPT !["instructions"] = i]] :
     n \in 1..3, i \in {100, 105, 106}}

MCJobRuns ==
  [baseline : BOOLEAN, save_baseline : BOOLEAN, export : BOOLEAN, tolerance : {5}]
================================================================================
