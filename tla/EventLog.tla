-------------------------------- MODULE EventLog -------------------------------
(***************************************************************************)
(* Event capture and assertions: crates/testkit/src/events.                *)
(*                                                                         *)
(* The host keeps the events of the most recent top-level call only, and   *)
(* none of a call that failed.  events_during runs a closure of the test   *)
(* and hands back what the host then holds.                                *)
(***************************************************************************)
EXTENDS Integers, Sequences, SequencesExt

CONSTANT MaxCalls   \* bound on the calls of one closure

ASSUME LogAssumption == MaxCalls \in Nat

VARIABLES
  events,   \* of the host: those of its most recent top-level call
  during,   \* the closure events_during is running, or NoClosure
  returned  \* the EventLog the test took last; a fresh host's is empty

logVars == <<events, during, returned>>

NoClosure == [calls |-> -1]

--------------------------------------------------------------------------------
(* EventLog: an event is [contract, topics, data] *)

(* The events at the given places of the log, in their order: SelectSeq,   *)
(* which has no definition the provers could expand.                       *)
Where(log, places) ==
  LET upTo[n \in 0..Len(log)] ==
        IF n = 0 THEN <<>>
        ELSE IF n \in places THEN Append(upTo[n - 1], log[n]) ELSE upTo[n - 1]
  IN  upTo[Len(log)]

from(log, contract) == Where(log, {n \in 1..Len(log) : log[n].contract = contract})

with_topic(log, topic) ==
  Where(log, {n \in 1..Len(log) : Contains(log[n].topics, topic)})

assert_emitted_times(log, topic, n) == Len(with_topic(log, topic)) = n

assert_none(log, topic) == with_topic(log, topic) = <<>>

assert_emitted(log, topic) == ~assert_none(log, topic)

(* Anything but a single event is a panic. *)
CanDecode(log) == Len(log) = 1
decode_one(log) == log[1].data

--------------------------------------------------------------------------------
(* Capture *)

CanCall == during = NoClosure \/ during.calls < MaxCalls

(* Mutant: the host's log accumulates. *)
KeptAll(published) == events \o published

(* What the host keeps of a call that published these events. *)
Kept(published) == published

(* A top-level call.  A panic of the test unwinds out of the closure.  A   *)
(* log is a copy the test owns: no call changes or takes it away.          *)
Invoked(published, panics) ==
  /\ CanCall
  /\ events' = Kept(published)
  /\ during' = IF during = NoClosure \/ panics THEN NoClosure
               ELSE [during EXCEPT !.calls = @ + 1,
                                   !.published = @ \o published]
  /\ UNCHANGED returned

(* A panic before any call was made. *)
PanicsBeforeCall ==
  /\ during' = NoClosure
  /\ UNCHANGED <<events, returned>>

(* TestEnv::events, in a closure or out of one. *)
Capture ==
  /\ returned' = events
  /\ UNCHANGED <<events, during>>

(* before, calls and published are ghosts. *)
EnterClosure(state) ==
  /\ during = NoClosure
  /\ during' = [before |-> state, calls |-> 0, published |-> <<>>]
  /\ UNCHANGED <<events, returned>>

(* events_during, once its closure has returned. *)
events_during ==
  /\ during # NoClosure
  /\ during' = NoClosure
  /\ returned' = events
  /\ UNCHANGED events

LogInit ==
  /\ events = <<>>
  /\ during = NoClosure
  /\ returned = <<>>

LogTypeOK ==
  /\ \A log \in {events, returned} :
       \A i \in DOMAIN log : DOMAIN log[i] = {"contract", "topics", "data"}
  /\ during = NoClosure \/ during.calls \in 0..MaxCalls

(* A closure that made a call gets the end of what it published, nothing   *)
(* of what went before it; and one that made a single call gets all of it, *)
(* so that both assert_emitted and assert_none can be trusted there        *)
(* (capture.rs, events_during).                                            *)
LogIsTail ==
  [][events_during /\ during.calls > 0 =>
       /\ IsSuffix(returned', during.published)
       /\ during.calls = 1 => returned' = during.published]_logVars

(* "then return its result alongside the events published while it ran"    *)
(* (capture.rs:155), and BUILD_SPEC.md:377: "events_during excludes events *)
(* from before the closure".                                               *)
ReturnsWhatRan == [][events_during => returned' = during.published]_logVars

================================================================================
