-------------------------------- MODULE TestEnv --------------------------------
(***************************************************************************)
(* The environments of a test: crates/testkit/src/core/env.rs.             *)
(*                                                                         *)
(* A TestEnv owns a host (the SDK's Env), an address stream of its own and *)
(* the labels of the addresses it issued.  clone_config and reset give a   *)
(* new host to the same configuration; raw handles on a host outlive both. *)
(* Of the ledger only the sequence and the protocol are kept: the clock    *)
(* has a module of its own.                                                *)
(***************************************************************************)
EXTENDS Integers, Sequences, FiniteSets

CONSTANTS
  Envs,         \* the test's TestEnv variables
  Seeds,        \* RNG seeds
  Defaults,     \* LedgerDefaults: [sequence_number, protocol_version]
  Unset,        \* None
  Protocols,    \* protocol versions the host understands
  HostProtocol, \* the one it starts with
  Intervals,    \* arguments of with_ledger_close_interval
  Labels,       \* labels, and actors' names
  Blank,        \* those that are only whitespace
  Batches,      \* arguments of try_addresses
  Lists,        \* arguments of try_actors: sequences of names
  MAX_ADDRESS_BATCH_SIZE,
  MaxCounter,   \* u64::MAX, the most addresses a stream holds
  MaxHosts,     \* bound: hosts built in a test
  MaxSequence   \* bound: how far a test moves a ledger

ASSUME EnvAssumption ==
  /\ Defaults \subseteq [sequence_number : (0..MaxSequence) \cup {Unset},
                         protocol_version : Protocols \cup {Unset}]
  /\ Unset \notin Protocols \cup Nat
  /\ HostProtocol \in Protocols
  /\ Intervals \subseteq Nat
  /\ Blank \subseteq Labels
  /\ Batches \subseteq Nat
  /\ Lists \subseteq Seq(Labels)
  /\ MAX_ADDRESS_BATCH_SIZE \in Nat
  /\ MaxCounter \in Nat
  /\ MaxHosts \in Nat
  /\ MaxSequence \in Nat

VARIABLES
  hosts,  \* the ledger of every host built, the oldest first
  envs    \* the environment in each of Envs, or NoEnv

vars == <<hosts, envs>>

NoEnv == [seed |-> Unset]

Built == {e \in Envs : envs[e] # NoEnv}

(* address(): the seed and the position in the stream. *)
AddressAt(seed, n) == <<seed, n>>

Option(set) == set \cup {Unset}

--------------------------------------------------------------------------------
(* Construction *)

fresh_env_with_defaults(d) ==
  [sequence |-> IF d.sequence_number = Unset THEN 0 ELSE d.sequence_number,
   protocol |-> IF d.protocol_version = Unset THEN HostProtocol
                                              ELSE d.protocol_version]

NextHost == Len(hosts) + 1

(* labels: address_to_label and label_to_address, the latter as the set of *)
(* its pairs.  poisoned: of the mutex around them.  issued: a ghost, what  *)
(* the caller was given since the stream began.                            *)
FreshEnv(seed, interval, d) ==
  [host |-> NextHost, seed |-> seed, close_interval_secs |-> interval,
   ledger_defaults |-> d, address_counter |-> 0, address_to_label |-> <<>>,
   label_to_address |-> {}, poisoned |-> FALSE, issued |-> <<>>]

Build(e, t, ledger) ==
  /\ NextHost <= MaxHosts
  /\ envs' = [envs EXCEPT ![e] = t]
  /\ hosts' = Append(hosts, ledger)

(* new, with_seed, with_ledger_defaults, with_ledger_defaults_and_seed: a  *)
(* random seed may be any.                                                 *)
with_ledger_defaults_and_seed(e, d, seed) ==
  Build(e, FreshEnv(seed, Unset, d), fresh_env_with_defaults(d))

NoDefaults == [sequence_number |-> Unset, protocol_version |-> Unset]

(* with_protocol_version: pinned on the ledger alone. *)
with_protocol_version(e, seed, p) ==
  Build(e, FreshEnv(seed, Unset, NoDefaults),
        [fresh_env_with_defaults(NoDefaults) EXCEPT !.protocol = p])

(* Mutant: a second handle on the same host. *)
clone_config_by_handle(from, e) ==
  /\ from \in Built
  /\ envs' = [envs EXCEPT ![e] =
               [FreshEnv(envs[from].seed, envs[from].close_interval_secs,
                         envs[from].ledger_defaults) EXCEPT !.host = envs[from].host]]
  /\ UNCHANGED hosts

clone_config(from, e) ==
  LET t == envs[from]
  IN  /\ from \in Built
      /\ Build(e, FreshEnv(t.seed, t.close_interval_secs, t.ledger_defaults),
               fresh_env_with_defaults(t.ledger_defaults))

(* Mutants: the stream goes on where it was; the labels stay. *)
StartedOverMidStream(t) ==
  [t EXCEPT !.host = NextHost,
            !.issued = <<>>,
            !.address_to_label = IF t.poisoned THEN @ ELSE <<>>,
            !.label_to_address = IF t.poisoned THEN @ ELSE {}]

StartedOverLabelled(t) ==
  [t EXCEPT !.host = NextHost, !.issued = <<>>, !.address_counter = 0]

(* reset clears the labels only if get_mut returns Ok: a poisoned mutex    *)
(* keeps them, and stays poisoned.                                         *)
StartedOver(t) ==
  [t EXCEPT !.host = NextHost,
            !.address_counter = 0,
            !.issued = <<>>,
            !.address_to_label = IF t.poisoned THEN @ ELSE <<>>,
            !.label_to_address = IF t.poisoned THEN @ ELSE {}]

reset(e) ==
  /\ e \in Built
  /\ Build(e, StartedOver(envs[e]), fresh_env_with_defaults(envs[e].ledger_defaults))

(* It takes the environment by value: a refusal drops it. *)
with_ledger_close_interval(e, secs) ==
  /\ e \in Built
  /\ envs' = [envs EXCEPT ![e] =
               IF secs = 0 THEN NoEnv ELSE [@ EXCEPT !.close_interval_secs = secs]]
  /\ UNCHANGED hosts

--------------------------------------------------------------------------------
(* Addresses *)

Stream(t, n) == [i \in 1..n |-> AddressAt(t.seed, t.address_counter + i)]

Left(t) == MaxCounter - t.address_counter

(* Mutant: the counter runs on past the end of the stream. *)
DrawnUnchecked(t, n) ==
  [t EXCEPT !.address_counter = @ + n, !.issued = @ \o Stream(t, n)]

(* n calls of address(), which panics once the stream is exhausted: what a *)
(* batch had drawn by then is lost.                                        *)
Drawn(t, n) ==
  IF n <= Left(t)
    THEN [t EXCEPT !.address_counter = @ + n, !.issued = @ \o Stream(t, n)]
    ELSE [t EXCEPT !.address_counter = MaxCounter]

Becomes(e, t) ==
  /\ envs' = [envs EXCEPT ![e] = t]
  /\ UNCHANGED hosts

address(e) ==
  /\ e \in Built
  /\ Becomes(e, Drawn(envs[e], 1))

(* An empty batch and one too large are refused before any is drawn. *)
try_addresses(e, n) ==
  /\ e \in Built
  /\ Becomes(e, IF n = 0 \/ n > MAX_ADDRESS_BATCH_SIZE THEN envs[e]
                                                       ELSE Drawn(envs[e], n))

(* Mutant: drawn name by name, and refused at the first bad one. *)
try_actors_in_one_pass(e, names) ==
  LET good(i) == names[i] \notin Blank /\ \A j \in 1..(i - 1) : names[j] # names[i]
      bad     == {i \in DOMAIN names : ~good(i)}
      first   == CHOOSE i \in bad : \A j \in bad : i <= j
  IN  /\ e \in Built
      /\ Becomes(e, IF bad = {} THEN Drawn(envs[e], Len(names))
                    ELSE [envs[e] EXCEPT !.address_counter =
                            Drawn(envs[e], first - 1).address_counter])

(* try_actor, and try_actors for all its names before it draws. *)
try_actors(e, names) ==
  LET good == /\ \A i \in DOMAIN names : names[i] \notin Blank
              /\ \A i, j \in DOMAIN names : names[i] = names[j] => i = j
  IN  /\ e \in Built
      /\ Becomes(e, IF good THEN Drawn(envs[e], Len(names)) ELSE envs[e])

Labelled(t) == {p[1] : p \in t.label_to_address}

(* Mutant: no look at the labels in use. *)
WithLabelUnchecked(t, l) ==
  LET a == AddressAt(t.seed, t.address_counter + 1)
  IN  IF l \in Blank \/ Left(t) = 0 THEN t
      ELSE [Drawn(t, 1) EXCEPT
              !.address_to_label = Append(@, <<a, l>>),
              !.label_to_address = {p \in @ : p[1] # l} \cup {<<l, a>>}]

(* address_with_label: a label in use, or an exhausted stream, panics with *)
(* the labels locked, which poisons them.                                  *)
WithLabel(t, l) ==
  LET a == AddressAt(t.seed, t.address_counter + 1)
  IN  IF l \in Blank THEN t
      ELSE IF l \in Labelled(t) \/ Left(t) = 0 THEN [t EXCEPT !.poisoned = TRUE]
      ELSE [Drawn(t, 1) EXCEPT !.address_to_label = Append(@, <<a, l>>),
                               !.label_to_address = @ \cup {<<l, a>>}]

address_with_label(e, l) ==
  /\ e \in Built
  /\ Becomes(e, WithLabel(envs[e], l))

(* The first pair of the address; nothing if there is none. *)
label_of(t, a) ==
  LET at == {i \in DOMAIN t.address_to_label : t.address_to_label[i][1] = a}
  IN  IF at = {} THEN Unset
      ELSE t.address_to_label[CHOOSE i \in at : \A j \in at : i <= j][2]

address_for_label(t, l) ==
  IF l \in Labelled(t) THEN (CHOOSE p \in t.label_to_address : p[1] = l)[2]
                       ELSE Unset

--------------------------------------------------------------------------------
(* A handle on a host, from env() or cloned from it, moves that host's     *)
(* ledger, whether or not an environment still owns it.                    *)
MoveLedger(h) ==
  /\ hosts[h].sequence < MaxSequence
  /\ hosts' = [hosts EXCEPT ![h].sequence = @ + 1]
  /\ UNCHANGED envs

Init ==
  /\ hosts = <<>>
  /\ envs = [e \in Envs |-> NoEnv]

Next ==
  \/ \E e \in Envs, seed \in Seeds :
       \/ \E d \in Defaults : with_ledger_defaults_and_seed(e, d, seed)
       \/ \E p \in Protocols : with_protocol_version(e, seed, p)
  \/ \E from, e \in Envs : clone_config(from, e)
  \/ \E e \in Envs :
       \/ reset(e)
       \/ address(e)
       \/ \E secs \in Intervals : with_ledger_close_interval(e, secs)
       \/ \E n \in Batches : try_addresses(e, n)
       \/ \E names \in Lists : try_actors(e, names)
       \/ \E l \in Labels : address_with_label(e, l)
  \/ \E h \in DOMAIN hosts : MoveLedger(h)

Spec == Init /\ [][Next]_vars

--------------------------------------------------------------------------------
(* Properties *)

Addresses == Seeds \X (1..MaxCounter)

Env == [host : 1..MaxHosts, seed : Seeds, close_interval_secs : Option(Intervals \ {0}),
        ledger_defaults : Defaults \cup {NoDefaults}, address_counter : 0..MaxCounter,
        address_to_label : Seq(Addresses \X (Labels \ Blank)),
        label_to_address : SUBSET ((Labels \ Blank) \X Addresses),
        poisoned : BOOLEAN, issued : Seq(Addresses)]

(* Types; an environment never has a zero close interval, a counter past   *)
(* u64::MAX, a blank label or a host that was not built.                   *)
TypeOK ==
  /\ hosts \in Seq([sequence : 0..MaxSequence, protocol : Protocols])
  /\ Len(hosts) <= MaxHosts
  /\ envs \in [Envs -> Env \cup {NoEnv}]
  /\ \A e \in Built : envs[e].host \in DOMAIN hosts

(* No two environments share a host: whatever is done to one, or through a *)
(* handle it gave out before a reset, no other sees.                       *)
HostsApart ==
  \A e, f \in Built : envs[e].host = envs[f].host => e = f

(* The addresses callers were given are the stream from its start, in      *)
(* order and without a gap: a refused batch draws none, a reset starts it  *)
(* over.  Two environments with one seed therefore issue the same ones.    *)
(* Only a batch that runs into the end of the stream loses some.           *)
StreamWithoutGaps ==
  \A e \in Built :
    LET t == envs[e]
    IN  /\ t.issued = [i \in 1..Len(t.issued) |-> AddressAt(t.seed, i)]
        /\ Len(t.issued) <= t.address_counter
        /\ t.address_counter < MaxCounter => Len(t.issued) = t.address_counter

(* Neither index of the labels has a pair that the other lacks, and no     *)
(* label two addresses, even in an environment whose labels were poisoned. *)
LabelIndexesAgree ==
  \A e \in Built :
    LET t     == envs[e]
        pairs == {t.address_to_label[i] : i \in DOMAIN t.address_to_label}
    IN  /\ \A l \in Labels, a \in Addresses :
             <<a, l>> \in pairs <=> <<l, a>> \in t.label_to_address
        /\ \A p, q \in t.label_to_address : p[1] = q[1] => p = q
        /\ Cardinality(pairs) = Len(t.address_to_label)

(* The label of the address of a label is that label. *)
RoundTrip(t) ==
  \A l \in Labelled(t) : label_of(t, address_for_label(t, l)) = l

(* It is in every environment whose lock was never poisoned. *)
LabelsRoundTrip ==
  \A e \in Built : ~envs[e].poisoned => RoundTrip(envs[e])

(* e is now what clone_config would have made of it, on a new host. *)
IsClone(e) ==
  LET t == envs[e]
  IN  /\ envs'[e] = FreshEnv(t.seed, t.close_interval_secs, t.ledger_defaults)
      /\ hosts'[envs'[e].host] = fresh_env_with_defaults(t.ledger_defaults)

(* An environment whose labels were never poisoned is, after a reset, the  *)
(* very one clone_config would have made of it.                            *)
ResetIsCloneConfig ==
  [][\A e \in Envs : reset(e) /\ ~envs[e].poisoned => IsClone(e)]_vars

--------------------------------------------------------------------------------
(* What the documentation says and the code does not do *)

(* e is now, for whoever calls it, what clone_config would have made of    *)
(* it.  Whether its lock is poisoned no call tells: each recovers it.      *)
LooksCloned(e) ==
  LET t == envs[e]
  IN  /\ [envs'[e] EXCEPT !.poisoned = FALSE]
            = FreshEnv(t.seed, t.close_interval_secs, t.ledger_defaults)
      /\ hosts'[envs'[e].host] = fresh_env_with_defaults(t.ledger_defaults)

(* "After `reset`, this environment behaves exactly like                   *)
(* TestEnv::clone_config of itself would have" (env.rs:517).               *)
AlwaysCloneConfig ==
  [][\A e \in Envs : reset(e) => LooksCloned(e)]_vars

================================================================================
