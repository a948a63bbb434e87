---------------------------- MODULE ContractStorage ----------------------------
(***************************************************************************)
(* The storage entries of a contract as the testkit sees them through the  *)
(* SDK's test host: each lives until a ledger sequence, after which a      *)
(* temporary entry is gone and any other is archived until its next use.   *)
(* The host is not part of this repository; what is modelled is what       *)
(* crates/testkit/src/ttl/expiry.rs uses and documents of it.              *)
(***************************************************************************)
EXTENDS Integers

CONSTANTS
  Keys,              \* the entries of the contract under test
  KindOf,            \* the StorageKind of each
  Values,            \* what a contract stores
  NoValue,           \* nothing: the value of an absent entry
  MaxSequence,       \* u32::MAX, the largest ledger sequence
  MinTempTtl,        \* min_temp_entry_ttl
  MinPersistentTtl,  \* min_persistent_entry_ttl
  MaxTtls            \* the max_entry_ttl settings a ledger may have

StorageKind == {"Temporary", "Persistent", "Instance"}

ASSUME StorageAssumption ==
  /\ KindOf \in [Keys -> StorageKind]
  /\ NoValue \notin Values
  /\ MaxSequence \in Nat
  /\ MinTempTtl \in Nat \ {0}
  /\ MinPersistentTtl \in Nat \ {0}
  /\ MaxTtls \subseteq 0..MaxSequence
  /\ \A m \in MaxTtls : MinTempTtl <= m /\ MinPersistentTtl <= m

VARIABLES
  sequence,       \* the ledger sequence
  max_entry_ttl,  \* the ledger's cap on a TTL
  store           \* the entry under each key

storageVars == <<sequence, max_entry_ttl, store>>

Entry == [value : Values \cup {NoValue}, live_until : 0..MaxSequence]

Stored(k) == store[k].value # NoValue

Live(k) == Stored(k) /\ sequence <= store[k].live_until

Temporary(k) == KindOf[k] = "Temporary"

(* An entry that is not temporary outlives its TTL in the archive. *)
Archived(k) == Stored(k) /\ ~Live(k) /\ ~Temporary(k)

(* ttl_of_val: the ledgers the entry stays live after this one.  The SDK   *)
(* panics for an entry that is not live, so every use is guarded by Live.  *)
ttl_of(k) == store[k].live_until - sequence

(* The last live ledger of an entry written, or restored, now. *)
FirstLiveUntil(k) ==
  sequence + (IF Temporary(k) THEN MinTempTtl ELSE MinPersistentTtl) - 1

LiveUntil(k) == IF Live(k) THEN store[k].live_until ELSE FirstLiveUntil(k)

--------------------------------------------------------------------------------
(* What a contract call does to an entry *)

Set(k, v) ==
  /\ LiveUntil(k) <= MaxSequence
  /\ store' = [store EXCEPT ![k] = [value |-> v, live_until |-> LiveUntil(k)]]

(* Reading an archived entry restores it; a temporary one is just absent.  *)
Get(k) ==
  \/ /\ ~Archived(k)
     /\ UNCHANGED store
  \/ /\ Archived(k)
     /\ FirstLiveUntil(k) <= MaxSequence
     /\ store' = [store EXCEPT ![k].live_until = FirstLiveUntil(k)]

(* extend_ttl never shortens a TTL, nor takes it past the ledger's cap.    *)
Extend(k, extend_to) ==
  /\ Live(k)
  /\ extend_to < max_entry_ttl
  /\ sequence + extend_to <= MaxSequence
  /\ sequence + extend_to > store[k].live_until
  /\ store' = [store EXCEPT ![k].live_until = sequence + extend_to]

Remove(k) ==
  store' = [store EXCEPT ![k] = [value |-> NoValue, live_until |-> 0]]

(* What a contract reads under the key at this ledger. *)
Observed(k) == IF Live(k) THEN store[k].value ELSE NoValue
================================================================================
