------------------------------ MODULE TestEnvProofs ----------------------------
(***************************************************************************)
(* What the environments of a test guarantee, for any number of them, any  *)
(* seeds, labels and ends of a stream: hosts of their own, address streams *)
(* without gaps, and labels whose two indexes agree, through construction, *)
(* clone_config, reset and poisoned locks.                                 *)
(***************************************************************************)
EXTENDS TestEnv, FiniteSetTheorems, TLAPS

USE EnvAssumption

Ledgers == [sequence : 0..MaxSequence, protocol : Protocols]

Pairs == Addresses \X (Labels \ Blank)

(* The stream so far, unless a batch ran into its end. *)
StreamInv(t) ==
  /\ t.issued = [i \in 1..Len(t.issued) |-> AddressAt(t.seed, i)]
  /\ Len(t.issued) <= t.address_counter
  /\ t.address_counter < MaxCounter => Len(t.issued) = t.address_counter

(* The second index holds the pairs of the first, the other way round. *)
IndexesInv(t) ==
  /\ \A i \in 1..Len(t.address_to_label) :
       <<t.address_to_label[i][2], t.address_to_label[i][1]>> \in t.label_to_address
  /\ \A p \in t.label_to_address : \E i \in 1..Len(t.address_to_label) :
       t.address_to_label[i] = <<p[2], p[1]>>

LabelsDistinct(t) ==
  \A i, j \in 1..Len(t.address_to_label) :
    t.address_to_label[i][2] = t.address_to_label[j][2] => i = j

(* The labelled addresses are distinct ones of the stream so far, unless   *)
(* the labels outlived a reset, as poisoned ones do.                       *)
AddressesInv(t) ==
  ~t.poisoned =>
    /\ \A i \in 1..Len(t.address_to_label) :
         t.address_to_label[i][1][2] <= t.address_counter
    /\ \A i, j \in 1..Len(t.address_to_label) :
         t.address_to_label[i][1] = t.address_to_label[j][1] => i = j

(* In one environment the positions of the stream stand for its addresses. *)
SeedInv(t) ==
  ~t.poisoned => \A i \in 1..Len(t.address_to_label) : t.address_to_label[i][1][1] = t.seed

EnvInv(t) ==
  /\ t \in Env
  /\ StreamInv(t)
  /\ IndexesInv(t)
  /\ LabelsDistinct(t)
  /\ AddressesInv(t)
  /\ SeedInv(t)

Inv ==
  /\ hosts \in Seq(Ledgers)
  /\ Len(hosts) <= MaxHosts
  /\ envs \in [Envs -> Env \cup {NoEnv}]
  /\ \A e \in Built : EnvInv(envs[e]) /\ envs[e].host \in 1..Len(hosts)
  /\ HostsApart

--------------------------------------------------------------------------------
(* Facts about the values *)

(* No environment is mistaken for none. *)
LEMMA NoEnvIsNone == NoEnv \notin Env
<1>1. SUFFICES ASSUME NoEnv \in Env PROVE FALSE
  OBVIOUS
<1>2. DOMAIN NoEnv = {"seed"}
  BY DEF NoEnv
<1>3. "host" \in DOMAIN NoEnv
  BY <1>1 DEF Env
<1> QED BY <1>2, <1>3

(* An environment that is one is typed. *)
LEMMA BuiltTyped ==
  ASSUME Inv, NEW e \in Built
  PROVE  e \in Envs /\ envs[e] \in Env /\ EnvInv(envs[e])
         /\ envs[e].host \in 1..Len(hosts)
BY DEF Inv, Built

(* A sequence followed by another. *)
LEMMA Joined ==
  ASSUME NEW S, NEW s \in Seq(S), NEW r \in Seq(S)
  PROVE  Len(s \o r) = Len(s) + Len(r)
OBVIOUS

(* A stream holds addresses. *)
LEMMA StreamTyped ==
  ASSUME NEW t \in Env, NEW n \in Nat, n <= Left(t)
  PROVE  /\ Stream(t, n) \in Seq(Addresses)
         /\ Len(Stream(t, n)) = n
         /\ \A i \in 1..n : Stream(t, n)[i] = AddressAt(t.seed, t.address_counter + i)
<1>1. t.seed \in Seeds /\ t.address_counter \in Nat /\ t.address_counter + n <= MaxCounter
  BY DEF Env, Left
<1>2. ASSUME NEW i \in 1..n
      PROVE  AddressAt(t.seed, t.address_counter + i) \in Addresses
  <2>1. t.address_counter + i \in 1..MaxCounter
    BY <1>1
  <2> QED BY <1>1, <2>1 DEF AddressAt, Addresses
<1>3. Stream(t, n) \in [1..n -> Addresses]
  BY <1>2 DEF Stream
<1> QED BY <1>3 DEF Stream

(* The ledger of a new host. *)
LEMMA FreshLedgerTyped ==
  ASSUME NEW d \in Defaults \cup {NoDefaults}
  PROVE  fresh_env_with_defaults(d) \in Ledgers
<1>1. /\ d.sequence_number \in (0..MaxSequence) \cup {Unset}
      /\ d.protocol_version \in Protocols \cup {Unset}
  BY DEF NoDefaults
<1>2. 0 \in 0..MaxSequence
  OBVIOUS
<1> QED BY <1>1, <1>2 DEF fresh_env_with_defaults, Ledgers

--------------------------------------------------------------------------------
(* What each operation makes of one environment *)

(* A new environment has issued and labelled nothing. *)
LEMMA FreshInv ==
  ASSUME NEW seed \in Seeds, NEW interval \in Option(Intervals \ {0}),
         NEW d \in Defaults \cup {NoDefaults},
         Len(hosts) \in Nat, NextHost <= MaxHosts
  PROVE  EnvInv(FreshEnv(seed, interval, d))
<1> DEFINE t == FreshEnv(seed, interval, d)
<1>1. NextHost \in 1..MaxHosts /\ 0 \in 0..MaxCounter
  BY DEF NextHost
<1>2. /\ <<>> \in Seq(Addresses \X (Labels \ Blank)) /\ <<>> \in Seq(Addresses)
      /\ Len(<<>>) = 0
  OBVIOUS
<1>3. t \in Env
  BY <1>1, <1>2 DEF FreshEnv, Env
<1>4. t.issued = <<>> /\ t.address_to_label = <<>> /\ t.label_to_address = {}
      /\ t.address_counter = 0
  BY DEF FreshEnv
<1> HIDE DEF t
<1>5. t.issued = [i \in 1..Len(t.issued) |-> AddressAt(t.seed, i)]
  BY <1>2, <1>4
<1>6. StreamInv(t)
  BY <1>2, <1>4, <1>5 DEF StreamInv
<1>7. IndexesInv(t) /\ LabelsDistinct(t) /\ AddressesInv(t) /\ SeedInv(t)
  BY <1>2, <1>4 DEF IndexesInv, LabelsDistinct, AddressesInv, SeedInv
<1> QED BY <1>3, <1>6, <1>7 DEF EnvInv, t

(* A reset starts the stream over; what labels a poisoned lock keeps agree *)
(* as before.                                                              *)
LEMMA StartedOverInv ==
  ASSUME NEW t, EnvInv(t), Len(hosts) \in Nat, NextHost <= MaxHosts
  PROVE  EnvInv(StartedOver(t))
<1> DEFINE u == StartedOver(t)
<1>1. NextHost \in 1..MaxHosts /\ 0 \in 0..MaxCounter /\ t \in Env
  BY DEF NextHost, EnvInv
<1>2. /\ <<>> \in Seq(Addresses \X (Labels \ Blank)) /\ <<>> \in Seq(Addresses)
      /\ Len(<<>>) = 0
  OBVIOUS
<1>3. u \in Env
  BY <1>1, <1>2 DEF StartedOver, Env
<1>4. /\ u.issued = <<>> /\ u.address_counter = 0 /\ u.poisoned = t.poisoned
      /\ u.address_to_label = IF t.poisoned THEN t.address_to_label ELSE <<>>
      /\ u.label_to_address = IF t.poisoned THEN t.label_to_address ELSE {}
  BY <1>1 DEF StartedOver, Env
<1> HIDE DEF u
<1>5. u.issued = [i \in 1..Len(u.issued) |-> AddressAt(u.seed, i)]
  BY <1>2, <1>4
<1>6. StreamInv(u)
  BY <1>2, <1>4, <1>5 DEF StreamInv
<1>7. IndexesInv(u) /\ LabelsDistinct(u)
  <2>1. IndexesInv(t) /\ LabelsDistinct(t)
    BY DEF EnvInv
  <2>2. CASE t.poisoned
    <3>1. u.address_to_label = t.address_to_label /\ u.label_to_address = t.label_to_address
      BY <1>4, <2>2
    <3>2. IndexesInv(u)
      BY <2>1, <3>1 DEF IndexesInv
    <3>3. LabelsDistinct(u)
      BY <2>1, <3>1 DEF LabelsDistinct
    <3> QED BY <3>2, <3>3
  <2>3. CASE ~t.poisoned
    <3>1. u.address_to_label = <<>> /\ u.label_to_address = {}
      BY <1>4, <2>3
    <3>2. IndexesInv(u)
      BY <1>2, <3>1 DEF IndexesInv
    <3>3. LabelsDistinct(u)
      BY <1>2, <3>1 DEF LabelsDistinct
    <3> QED BY <3>2, <3>3
  <2> QED BY <2>2, <2>3
<1>8. AddressesInv(u) /\ SeedInv(u)
  BY <1>2, <1>4 DEF AddressesInv, SeedInv
<1> QED BY <1>3, <1>6, <1>7, <1>8 DEF EnvInv, u

(* What does not touch the labels, nor takes the stream back, keeps what   *)
(* holds of them.                                                          *)
LEMMA LabelsKept ==
  ASSUME NEW t \in Env, NEW u \in Env,
         IndexesInv(t), LabelsDistinct(t), AddressesInv(t), SeedInv(t),
         u.seed = t.seed, t.poisoned => u.poisoned,
         u.address_to_label = t.address_to_label,
         u.label_to_address = t.label_to_address,
         t.address_counter <= u.address_counter
  PROVE  IndexesInv(u) /\ LabelsDistinct(u) /\ AddressesInv(u) /\ SeedInv(u)
<1>1. IndexesInv(u)
  BY DEF IndexesInv
<1>2. LabelsDistinct(u)
  BY DEF LabelsDistinct
<1>3. SeedInv(u)
  BY DEF SeedInv
<1>4. AddressesInv(u)
  <2> SUFFICES ASSUME ~u.poisoned
               PROVE  /\ \A i \in 1..Len(t.address_to_label) :
                           t.address_to_label[i][1][2] <= u.address_counter
                      /\ \A i, j \in 1..Len(t.address_to_label) :
                           t.address_to_label[i][1] = t.address_to_label[j][1] => i = j
    BY DEF AddressesInv
  <2>1. /\ \A i \in 1..Len(t.address_to_label) :
              t.address_to_label[i][1][2] <= t.address_counter
        /\ \A i, j \in 1..Len(t.address_to_label) :
              t.address_to_label[i][1] = t.address_to_label[j][1] => i = j
    BY DEF AddressesInv
  <2>2. t.address_counter \in Nat /\ u.address_counter \in Nat
        /\ t.address_to_label \in Seq(Pairs)
    BY DEF Env, Pairs
  <2>3. ASSUME NEW i \in 1..Len(t.address_to_label)
        PROVE  t.address_to_label[i][1][2] <= u.address_counter
    <3>1. t.address_to_label[i] \in Pairs
      BY <2>2
    <3>2. t.address_to_label[i][1][2] \in Nat
      BY <3>1 DEF Pairs, Addresses
    <3>3. t.address_to_label[i][1][2] <= t.address_counter
      BY <2>1
    <3> QED BY <2>2, <3>2, <3>3
  <2> QED BY <2>1, <2>3
<1> QED BY <1>1, <1>2, <1>3, <1>4

(* Addresses drawn go on where the stream was. *)
LEMMA DrawnInv ==
  ASSUME NEW t, EnvInv(t), NEW n \in Nat
  PROVE  /\ EnvInv(Drawn(t, n))
         /\ Drawn(t, n).host = t.host
<1> DEFINE u == Drawn(t, n)
<1>1. t \in Env /\ t.address_counter \in 0..MaxCounter /\ t.issued \in Seq(Addresses)
      /\ t.address_to_label \in Seq(Pairs)
  BY DEF EnvInv, Env, Pairs
<1>2. /\ u.host = t.host /\ u.seed = t.seed /\ u.poisoned = t.poisoned
      /\ u.address_to_label = t.address_to_label
      /\ u.label_to_address = t.label_to_address
      /\ u.address_counter = IF n <= Left(t) THEN t.address_counter + n ELSE MaxCounter
      /\ u.issued = IF n <= Left(t) THEN t.issued \o Stream(t, n) ELSE t.issued
  BY <1>1 DEF Drawn, Env
<1>3. u.address_counter \in 0..MaxCounter /\ t.address_counter <= u.address_counter
  BY <1>1, <1>2 DEF Left
<1>4. u.issued \in Seq(Addresses)
  BY <1>1, <1>2, StreamTyped
<1>5. u \in Env
  BY <1>1, <1>3, <1>4 DEF Drawn, Env
<1>a. /\ Len(t.issued) <= t.address_counter
      /\ t.address_counter < MaxCounter => Len(t.issued) = t.address_counter
      /\ Len(t.issued) \in Nat
  BY <1>1 DEF EnvInv, StreamInv
<1>b. IndexesInv(t) /\ LabelsDistinct(t) /\ AddressesInv(t) /\ SeedInv(t)
  BY DEF EnvInv
<1> HIDE DEF u
<1>c. IndexesInv(u) /\ LabelsDistinct(u) /\ AddressesInv(u) /\ SeedInv(u)
  BY <1>1, <1>2, <1>3, <1>5, <1>b, LabelsKept
<1>6. ASSUME n <= Left(t) PROVE StreamInv(u)
  <2>1. /\ Len(Stream(t, n)) = n
        /\ \A i \in 1..n : Stream(t, n)[i] = AddressAt(t.seed, t.address_counter + i)
        /\ Stream(t, n) \in Seq(Addresses)
    BY <1>1, <1>6, StreamTyped
  <2> DEFINE more == Stream(t, n)
  <2>2. u.issued = t.issued \o more
    BY <1>2, <1>6
  <2>0. more \in Seq(Addresses) /\ Len(more) = n
    BY <2>1
  <2> HIDE DEF more
  <2>3. Len(u.issued) = Len(t.issued) + n
    <3>1. Len(t.issued \o more) = Len(t.issued) + Len(more)
      BY <1>1, <2>0, Joined
    <3> QED BY <2>0, <2>2, <3>1
  <2>4. ASSUME NEW i \in 1..Len(u.issued)
        PROVE  u.issued[i] = AddressAt(u.seed, i)
    <3>1. CASE i <= Len(t.issued)
      <4>1. i \in 1..Len(t.issued)
        BY <1>a, <3>1
      <4>2. u.issued[i] = t.issued[i]
        BY <1>1, <2>1, <2>2, <4>1 DEF more
      <4>3. t.issued[i] = AddressAt(t.seed, i)
        BY <4>1 DEF EnvInv, StreamInv
      <4> QED BY <1>2, <4>2, <4>3
    <3>2. CASE i > Len(t.issued)
      <4>1. /\ i - Len(t.issued) \in 1..n
            /\ t.address_counter + n <= MaxCounter
        BY <1>1, <1>6, <1>a, <2>3, <3>2 DEF Left
      <4>2. t.address_counter = Len(t.issued)
        BY <1>1, <1>a, <4>1
      <4>3. u.issued[i] = more[i - Len(t.issued)]
        BY <1>1, <1>a, <2>1, <2>2, <2>3, <3>2, <4>1 DEF more
      <4>4. t.address_counter + (i - Len(t.issued)) = i
        BY <1>a, <4>2
      <4> QED BY <1>2, <2>1, <4>1, <4>3, <4>4 DEF more
    <3> QED BY <1>a, <3>1, <3>2
  <2>5. u.issued = [i \in 1..Len(u.issued) |-> AddressAt(u.seed, i)]
    BY <1>4, <2>4
  <2>6. u.address_counter = t.address_counter + n
    BY <1>2, <1>6
  <2>7. /\ Len(u.issued) <= u.address_counter
        /\ u.address_counter < MaxCounter => Len(u.issued) = u.address_counter
    BY <1>1, <1>a, <2>3, <2>6
  <2> QED BY <2>5, <2>7 DEF StreamInv
<1>7. ASSUME ~(n <= Left(t)) PROVE StreamInv(u)
  <2>1. u.address_counter = MaxCounter /\ u.issued = t.issued /\ u.seed = t.seed
    BY <1>2, <1>7
  <2>2. t.issued = [i \in 1..Len(t.issued) |-> AddressAt(t.seed, i)]
    BY DEF EnvInv, StreamInv
  <2>3. u.issued = [i \in 1..Len(u.issued) |-> AddressAt(u.seed, i)]
    BY <2>1, <2>2
  <2>4. Len(u.issued) <= u.address_counter /\ ~(u.address_counter < MaxCounter)
    BY <1>1, <1>a, <2>1
  <2> QED BY <2>3, <2>4 DEF StreamInv
<1>8. EnvInv(u)
  BY <1>5, <1>c, <1>6, <1>7 DEF EnvInv
<1> QED BY <1>2, <1>8 DEF u

(* A label is refused, or given to the next address of the stream.         *)
LEMMA WithLabelInv ==
  ASSUME NEW t, EnvInv(t), NEW l \in Labels
  PROVE  /\ EnvInv(WithLabel(t, l))
         /\ WithLabel(t, l).host = t.host
<1>1. /\ t \in Env /\ t.address_counter \in 0..MaxCounter
      /\ t.address_to_label \in Seq(Pairs)
      /\ t.label_to_address \in SUBSET ((Labels \ Blank) \X Addresses)
      /\ Len(t.address_to_label) \in Nat /\ t.seed \in Seeds
  BY DEF EnvInv, Env, Pairs
<1>2. CASE l \in Blank
  BY <1>2 DEF WithLabel
<1>3. CASE l \notin Blank /\ (l \in Labelled(t) \/ Left(t) = 0)
  <2> DEFINE u == [t EXCEPT !.poisoned = TRUE]
  <2>1. WithLabel(t, l) = u
    BY <1>3 DEF WithLabel
  <2>2. /\ u \in Env /\ u.host = t.host /\ u.seed = t.seed /\ u.poisoned
        /\ u.address_to_label = t.address_to_label
        /\ u.label_to_address = t.label_to_address
        /\ u.address_counter = t.address_counter /\ u.issued = t.issued
    BY <1>1 DEF Env
  <2> HIDE DEF u
  <2>3. StreamInv(u)
    BY <2>2 DEF EnvInv, StreamInv
  <2>4. t.address_counter <= u.address_counter
    BY <1>1, <2>2
  <2>5. IndexesInv(u) /\ LabelsDistinct(u) /\ AddressesInv(u) /\ SeedInv(u)
    BY <1>1, <2>2, <2>4, LabelsKept DEF EnvInv
  <2> QED BY <2>1, <2>2, <2>3, <2>5 DEF EnvInv
<1>4. CASE l \notin Blank /\ l \notin Labelled(t) /\ Left(t) # 0
  <2> DEFINE a == AddressAt(t.seed, t.address_counter + 1)
             d == Drawn(t, 1)
             u == [d EXCEPT !.address_to_label = Append(@, <<a, l>>),
                            !.label_to_address = @ \cup {<<l, a>>}]
             k == Len(t.address_to_label)
  <2>1. WithLabel(t, l) = u
    BY <1>4 DEF WithLabel
  <2>2. EnvInv(d) /\ d.host = t.host /\ d \in Env
    BY DrawnInv DEF EnvInv
  <2>3. 1 <= Left(t) /\ t.address_counter + 1 \in 1..MaxCounter
    BY <1>1, <1>4 DEF Left
  <2>4. /\ d.seed = t.seed /\ d.poisoned = t.poisoned
        /\ d.address_to_label = t.address_to_label
        /\ d.label_to_address = t.label_to_address
        /\ d.address_counter = t.address_counter + 1
    BY <1>1, <2>3 DEF Drawn, Env
  <2>5. a \in Addresses /\ a[1] = t.seed /\ a[2] = t.address_counter + 1
        /\ <<a, l>> \in Pairs /\ <<a, l>>[1] = a /\ <<a, l>>[2] = l
        /\ <<l, a>> \in (Labels \ Blank) \X Addresses
    BY <1>1, <1>4, <2>3 DEF AddressAt, Addresses, Pairs
  <2> HIDE DEF a, d
  <2>6. /\ u \in Env /\ u.host = t.host /\ u.seed = t.seed /\ u.poisoned = t.poisoned
        /\ u.address_to_label = Append(t.address_to_label, <<a, l>>)
        /\ u.label_to_address = t.label_to_address \cup {<<l, a>>}
        /\ u.address_counter = t.address_counter + 1 /\ u.issued = d.issued
    <3>1. Append(t.address_to_label, <<a, l>>) \in Seq(Addresses \X (Labels \ Blank))
      BY <1>1, <2>5 DEF Pairs
    <3> QED BY <1>1, <2>2, <2>4, <2>5, <3>1 DEF Env
  <2>7. StreamInv(u)
    <3>1. StreamInv(d) /\ u.issued = d.issued /\ u.seed = d.seed
          /\ u.address_counter = d.address_counter
      BY <2>2, <2>4, <2>6 DEF EnvInv
    <3> HIDE DEF u
    <3> QED BY <3>1 DEF StreamInv
  <2> HIDE DEF u
  <2>8. /\ Len(u.address_to_label) = k + 1 /\ u.address_to_label[k + 1] = <<a, l>>
        /\ \A i \in 1..k : u.address_to_label[i] = t.address_to_label[i]
    BY <1>1, <2>5, <2>6
  <2>9. k \in Nat /\ \A i \in 1..(k + 1) : i \in 1..k \/ i = k + 1
    BY <1>1
  <2>10. \A i \in 1..k : t.address_to_label[i] \in Pairs
    BY <1>1
  <2>11. /\ \A i \in 1..k :
               <<t.address_to_label[i][2], t.address_to_label[i][1]>> \in t.label_to_address
         /\ \A p \in t.label_to_address : \E i \in 1..k :
               t.address_to_label[i] = <<p[2], p[1]>>
    BY DEF EnvInv, IndexesInv
  <2> HIDE DEF k
  <2>12. IndexesInv(u)
    <3>1. ASSUME NEW i \in 1..(k + 1)
          PROVE  <<u.address_to_label[i][2], u.address_to_label[i][1]>> \in u.label_to_address
      <4>1. CASE i \in 1..k
        BY <2>6, <2>8, <2>11, <4>1
      <4>2. CASE i = k + 1
        BY <2>5, <2>6, <2>8, <4>2
      <4> QED BY <2>9, <4>1, <4>2
    <3>2. ASSUME NEW p \in u.label_to_address
          PROVE  \E i \in 1..(k + 1) : u.address_to_label[i] = <<p[2], p[1]>>
      <4>1. CASE p \in t.label_to_address
        <5>1. PICK i \in 1..k : t.address_to_label[i] = <<p[2], p[1]>>
          BY <2>11, <4>1
        <5>2. i \in 1..(k + 1) /\ u.address_to_label[i] = t.address_to_label[i]
          BY <2>8, <2>9
        <5> QED BY <5>1, <5>2
      <4>2. CASE p = <<l, a>>
        <5>1. k + 1 \in 1..(k + 1) /\ p[1] = l /\ p[2] = a
          BY <2>9, <4>2
        <5> QED BY <2>8, <5>1
      <4> QED BY <2>6, <4>1, <4>2
    <3> QED BY <2>8, <3>1, <3>2 DEF IndexesInv
  <2>13. ASSUME NEW i \in 1..k PROVE t.address_to_label[i][2] # l
    <3>1. <<t.address_to_label[i][2], t.address_to_label[i][1]>> \in t.label_to_address
      BY <2>11
    <3>2. <<t.address_to_label[i][2], t.address_to_label[i][1]>>[1]
            = t.address_to_label[i][2]
      OBVIOUS
    <3> QED BY <1>4, <3>1, <3>2 DEF Labelled
  <2>14. LabelsDistinct(u)
    <3>1. \A i, j \in 1..k : t.address_to_label[i][2] = t.address_to_label[j][2] => i = j
      BY DEF EnvInv, LabelsDistinct, k
    <3>2. ASSUME NEW i \in 1..(k + 1), NEW j \in 1..(k + 1),
                 u.address_to_label[i][2] = u.address_to_label[j][2]
          PROVE  i = j
      BY <2>5, <2>8, <2>9, <2>13, <3>1, <3>2
    <3> QED BY <2>8, <3>2 DEF LabelsDistinct
  <2>15. AddressesInv(u) /\ SeedInv(u)
    <3>1. CASE u.poisoned
      BY <3>1 DEF AddressesInv, SeedInv
    <3>2. CASE ~u.poisoned
      <4>1. /\ \A i \in 1..k : t.address_to_label[i][1][2] <= t.address_counter
            /\ \A i, j \in 1..k :
                  t.address_to_label[i][1] = t.address_to_label[j][1] => i = j
            /\ \A i \in 1..k : t.address_to_label[i][1][1] = t.seed
        BY <2>6, <3>2 DEF EnvInv, AddressesInv, SeedInv, k
      <4>2. ASSUME NEW i \in 1..k
            PROVE  /\ t.address_to_label[i][1][2] <= t.address_counter + 1
                   /\ t.address_to_label[i][1] # a
        <5>1. t.address_to_label[i][1][2] \in Nat
          BY <2>10 DEF Pairs, Addresses
        <5>2. t.address_to_label[i][1][2] <= t.address_counter
          BY <4>1
        <5>3. /\ t.address_to_label[i][1][2] <= t.address_counter + 1
              /\ t.address_to_label[i][1][2] # t.address_counter + 1
          BY <1>1, <5>1, <5>2
        <5> QED BY <2>5, <5>3
      <4>3. ASSUME NEW i \in 1..(k + 1)
            PROVE  /\ u.address_to_label[i][1][2] <= u.address_counter
                   /\ u.address_to_label[i][1][1] = u.seed
        <5>1. CASE i \in 1..k
          <6>1. u.address_to_label[i] = t.address_to_label[i]
            BY <2>8, <5>1
          <6>2. u.address_to_label[i][1][2] <= u.address_counter
            BY <2>6, <4>2, <5>1, <6>1
          <6>3. u.address_to_label[i][1][1] = u.seed
            BY <2>6, <4>1, <5>1, <6>1
          <6> QED BY <6>2, <6>3
        <5>2. CASE i = k + 1
          <6>1. u.address_to_label[i][1] = a
            BY <2>5, <2>8, <5>2
          <6>2. a[2] <= u.address_counter
            BY <1>1, <2>5, <2>6
          <6> QED BY <2>5, <2>6, <6>1, <6>2
        <5> QED BY <2>9, <5>1, <5>2
      <4>4. ASSUME NEW i \in 1..(k + 1), NEW j \in 1..(k + 1),
                   u.address_to_label[i][1] = u.address_to_label[j][1]
            PROVE  i = j
        BY <2>5, <2>8, <2>9, <4>1, <4>2, <4>4
      <4> QED BY <2>8, <4>3, <4>4 DEF AddressesInv, SeedInv
    <3> QED BY <3>1, <3>2
  <2> QED BY <2>1, <2>6, <2>7, <2>12, <2>14, <2>15 DEF EnvInv
<1> QED BY <1>2, <1>3, <1>4

(* A close interval changes nothing else.                                  *)
LEMMA IntervalInv ==
  ASSUME NEW t, EnvInv(t), NEW secs \in Intervals \ {0}
  PROVE  /\ EnvInv([t EXCEPT !.close_interval_secs = secs])
         /\ [t EXCEPT !.close_interval_secs = secs].host = t.host
<1> DEFINE u == [t EXCEPT !.close_interval_secs = secs]
<1>1. t \in Env
  BY DEF EnvInv
<1>2. /\ u \in Env /\ u.host = t.host /\ u.seed = t.seed /\ u.poisoned = t.poisoned
      /\ u.address_to_label = t.address_to_label
      /\ u.label_to_address = t.label_to_address
      /\ u.address_counter = t.address_counter /\ u.issued = t.issued
  BY <1>1 DEF Env, Option
<1> HIDE DEF u
<1>3. StreamInv(u)
  BY <1>2 DEF EnvInv, StreamInv
<1>4. t.address_counter <= u.address_counter
  BY <1>1, <1>2 DEF Env
<1>5. IndexesInv(u) /\ LabelsDistinct(u) /\ AddressesInv(u) /\ SeedInv(u)
  BY <1>1, <1>2, <1>4, LabelsKept DEF EnvInv
<1>6. EnvInv(u)
  BY <1>2, <1>3, <1>5 DEF EnvInv
<1> QED BY <1>2, <1>6 DEF u

--------------------------------------------------------------------------------
(* What a step makes of all of them *)

(* An environment replaced by one on the same host.                        *)
LEMMA BecomesInv ==
  ASSUME Inv, NEW e \in Built, NEW t, EnvInv(t), t.host = envs[e].host, Becomes(e, t)
  PROVE  Inv'
<1>1. /\ hosts' = hosts /\ envs' = [envs EXCEPT ![e] = t]
      /\ e \in Envs /\ envs \in [Envs -> Env \cup {NoEnv}]
  BY BuiltTyped DEF Becomes, Inv
<1>2. t \in Env /\ t # NoEnv
  BY NoEnvIsNone DEF EnvInv
<1>3. envs' \in [Envs -> Env \cup {NoEnv}] /\ envs'[e] = t
      /\ \A f \in Envs : f # e => envs'[f] = envs[f]
  BY <1>1, <1>2
<1>4. Built' = Built
  BY <1>1, <1>2, <1>3 DEF Built
<1>5. ASSUME NEW f \in Built'
      PROVE  /\ EnvInv(envs'[f]) /\ envs'[f].host \in 1..Len(hosts)
             /\ envs'[f].host = envs[f].host
  BY <1>1, <1>3, <1>4, <1>5, BuiltTyped
<1>6. HostsApart'
  BY <1>4, <1>5 DEF HostsApart, Inv
<1>7. (\A f \in Built : EnvInv(envs[f]) /\ envs[f].host \in 1..Len(hosts))'
  BY <1>1, <1>5
<1> QED BY <1>1, <1>3, <1>6, <1>7 DEF Inv

(* An environment, new or started over, on a host built for it.            *)
LEMMA BuildInv ==
  ASSUME Inv, NEW e \in Envs, NEW t, NEW ledger \in Ledgers,
         NextHost <= MaxHosts => EnvInv(t), t.host = NextHost, Build(e, t, ledger)
  PROVE  Inv'
<1>1. /\ hosts' = Append(hosts, ledger) /\ envs' = [envs EXCEPT ![e] = t]
      /\ envs \in [Envs -> Env \cup {NoEnv}] /\ hosts \in Seq(Ledgers)
      /\ Len(hosts) + 1 <= MaxHosts /\ Len(hosts) \in Nat /\ EnvInv(t)
      /\ t.host = Len(hosts) + 1
  BY DEF Build, NextHost, Inv
<1>2. t \in Env /\ t # NoEnv
  BY <1>1, NoEnvIsNone DEF EnvInv
<1>3. envs' \in [Envs -> Env \cup {NoEnv}] /\ envs'[e] = t
      /\ \A f \in Envs : f # e => envs'[f] = envs[f]
  BY <1>1, <1>2
<1>4. \A f \in Built' : f = e \/ (f \in Built /\ envs'[f] = envs[f])
  BY <1>3 DEF Built
<1>5. hosts' \in Seq(Ledgers) /\ Len(hosts') = Len(hosts) + 1 /\ Len(hosts') <= MaxHosts
  BY <1>1
<1>6. \A f \in Built : envs[f].host \in 1..Len(hosts) /\ EnvInv(envs[f])
  BY BuiltTyped
<1>7. ASSUME NEW f \in Built'
      PROVE  EnvInv(envs'[f]) /\ envs'[f].host \in 1..Len(hosts')
  <2>1. CASE f = e
    <3>1. t.host \in 1..Len(hosts')
      BY <1>1, <1>5
    <3> QED BY <1>1, <1>3, <2>1, <3>1
  <2>2. CASE f \in Built /\ envs'[f] = envs[f]
    <3>1. envs[f].host \in 1..Len(hosts')
      BY <1>1, <1>5, <1>6, <2>2
    <3> QED BY <1>6, <2>2, <3>1
  <2> QED BY <1>4, <2>1, <2>2
<1>8. HostsApart'
  <2>1. \A f \in Built : envs[f].host # t.host
    BY <1>1, <1>6
  <2>2. \A f, g \in Built : envs[f].host = envs[g].host => f = g
    BY DEF Inv, HostsApart
  <2>3. ASSUME NEW f \in Built', NEW g \in Built', envs'[f].host = envs'[g].host
        PROVE  f = g
    BY <1>3, <1>4, <2>1, <2>2, <2>3
  <2> QED BY <2>3 DEF HostsApart
<1>9. (\A f \in Built : EnvInv(envs[f]) /\ envs[f].host \in 1..Len(hosts))'
  BY <1>7
<1> QED BY <1>3, <1>5, <1>8, <1>9 DEF Inv

(* An environment dropped.                                                 *)
LEMMA DroppedInv ==
  ASSUME Inv, NEW e \in Envs, envs' = [envs EXCEPT ![e] = NoEnv], UNCHANGED hosts
  PROVE  Inv'
<1>1. /\ envs' \in [Envs -> Env \cup {NoEnv}] /\ envs'[e] = NoEnv
      /\ \A f \in Envs : f # e => envs'[f] = envs[f]
  BY DEF Inv
<1>2. ASSUME NEW f \in Built' PROVE f \in Built /\ envs'[f] = envs[f]
  BY <1>1, <1>2 DEF Built
<1>3. (\A f \in Built : EnvInv(envs[f]) /\ envs[f].host \in 1..Len(hosts))'
  BY <1>2, BuiltTyped
<1>4. HostsApart'
  BY <1>2 DEF Inv, HostsApart
<1> QED BY <1>1, <1>3, <1>4 DEF Inv

(* A handle moves a ledger, and no environment.                            *)
LEMMA MoveInv ==
  ASSUME Inv, NEW h \in DOMAIN hosts, MoveLedger(h)
  PROVE  Inv'
<1>0. hosts \in Seq(Ledgers) /\ h \in 1..Len(hosts) /\ hosts[h] \in Ledgers
  BY DEF Inv
<1>1. /\ hosts \in Seq(Ledgers) /\ h \in 1..Len(hosts) /\ hosts[h] \in Ledgers
      /\ hosts[h].sequence < MaxSequence /\ hosts[h].sequence \in 0..MaxSequence
      /\ envs' = envs
  BY <1>0 DEF MoveLedger, Ledgers
<1>2. hosts[h].sequence + 1 \in 0..MaxSequence
  BY <1>1
<1>3. [hosts[h] EXCEPT !.sequence = hosts[h].sequence + 1] \in Ledgers
  BY <1>1, <1>2 DEF Ledgers
<1>4. hosts' = [hosts EXCEPT ![h] = [hosts[h] EXCEPT !.sequence = hosts[h].sequence + 1]]
  BY DEF MoveLedger
<1>5. hosts' \in Seq(Ledgers) /\ Len(hosts') = Len(hosts)
  BY <1>1, <1>3, <1>4
<1>6. (\A f \in Built : EnvInv(envs[f]) /\ envs[f].host \in 1..Len(hosts))'
  BY <1>1, <1>5 DEF Inv, Built
<1>7. HostsApart'
  BY <1>1 DEF Inv, HostsApart, Built
<1> QED BY <1>1, <1>5, <1>6, <1>7 DEF Inv

--------------------------------------------------------------------------------
(* The invariant *)

LEMMA InitInv == Init => Inv
<1> SUFFICES ASSUME Init PROVE Inv
  OBVIOUS
<1>1. hosts = <<>> /\ Len(<<>>) = 0 /\ <<>> \in Seq(Ledgers)
      /\ envs = [e \in Envs |-> NoEnv]
  BY DEF Init
<1>2. Built = {}
  BY <1>1 DEF Built
<1> QED BY <1>1, <1>2 DEF Inv, HostsApart

LEMMA NextInv ==
  ASSUME Inv, [Next]_vars
  PROVE  Inv'
<1>1. Len(hosts) \in Nat
  BY DEF Inv
<1>2. ASSUME NEW e \in Envs, NEW seed \in Seeds, NEW d \in Defaults,
             with_ledger_defaults_and_seed(e, d, seed)
      PROVE  Inv'
  <2>1. NextHost <= MaxHosts => EnvInv(FreshEnv(seed, Unset, d))
    BY <1>1, FreshInv DEF Option
  <2>2. FreshEnv(seed, Unset, d).host = NextHost
    BY DEF FreshEnv
  <2> QED BY <1>2, <2>1, <2>2, FreshLedgerTyped, BuildInv DEF with_ledger_defaults_and_seed
<1>3. ASSUME NEW e \in Envs, NEW seed \in Seeds, NEW p \in Protocols,
             with_protocol_version(e, seed, p)
      PROVE  Inv'
  <2>1. NextHost <= MaxHosts => EnvInv(FreshEnv(seed, Unset, NoDefaults))
    BY <1>1, FreshInv DEF Option
  <2>2. FreshEnv(seed, Unset, NoDefaults).host = NextHost
    BY DEF FreshEnv
  <2>3. [fresh_env_with_defaults(NoDefaults) EXCEPT !.protocol = p] \in Ledgers
    BY FreshLedgerTyped DEF Ledgers
  <2> QED BY <1>3, <2>1, <2>2, <2>3, BuildInv DEF with_protocol_version
<1>4. ASSUME NEW from \in Envs, NEW e \in Envs, clone_config(from, e)
      PROVE  Inv'
  <2> DEFINE t == envs[from]
             u == FreshEnv(t.seed, t.close_interval_secs, t.ledger_defaults)
  <2>1. t \in Env
    BY <1>4, BuiltTyped DEF clone_config
  <2>2. /\ t.seed \in Seeds /\ t.close_interval_secs \in Option(Intervals \ {0})
        /\ t.ledger_defaults \in Defaults \cup {NoDefaults}
    BY <2>1 DEF Env
  <2>3. u.host = NextHost
    BY DEF FreshEnv
  <2>4. Build(e, u, fresh_env_with_defaults(t.ledger_defaults))
    BY <1>4 DEF clone_config
  <2>5. NextHost <= MaxHosts => EnvInv(u)
    BY <1>1, <2>2, FreshInv
  <2> HIDE DEF t, u
  <2> QED BY <2>2, <2>3, <2>4, <2>5, FreshLedgerTyped, BuildInv
<1>5. ASSUME NEW e \in Envs, reset(e)
      PROVE  Inv'
  <2> DEFINE t == envs[e]
             u == StartedOver(t)
  <2>1. t \in Env /\ EnvInv(t)
    BY <1>5, BuiltTyped DEF reset
  <2>2. t.ledger_defaults \in Defaults \cup {NoDefaults} /\ u.host = NextHost
    BY <2>1 DEF Env, StartedOver
  <2>3. Build(e, u, fresh_env_with_defaults(t.ledger_defaults))
    BY <1>5 DEF reset
  <2>4. NextHost <= MaxHosts => EnvInv(u)
    BY <1>1, <2>1, StartedOverInv
  <2> HIDE DEF t, u
  <2> QED BY <2>2, <2>3, <2>4, FreshLedgerTyped, BuildInv
<1>6. ASSUME NEW e \in Envs, NEW n \in Nat, e \in Built, Becomes(e, Drawn(envs[e], n))
      PROVE  Inv'
  BY <1>6, BuiltTyped, DrawnInv, BecomesInv
<1>7. ASSUME NEW e \in Envs, e \in Built, Becomes(e, envs[e])
      PROVE  Inv'
  BY <1>7, BuiltTyped, BecomesInv
<1>8. ASSUME NEW e \in Envs, NEW secs \in Intervals, with_ledger_close_interval(e, secs)
      PROVE  Inv'
  <2>1. e \in Built /\ UNCHANGED hosts
    BY <1>8 DEF with_ledger_close_interval
  <2>2. CASE secs = 0
    <3>1. envs' = [envs EXCEPT ![e] = NoEnv]
      BY <1>8, <2>2 DEF with_ledger_close_interval
    <3> QED BY <2>1, <3>1, DroppedInv
  <2>3. CASE secs # 0
    <3> DEFINE u == [envs[e] EXCEPT !.close_interval_secs = secs]
    <3>1. envs' = [envs EXCEPT ![e] = u]
      BY <1>8, <2>3 DEF with_ledger_close_interval
    <3>2. EnvInv(u) /\ u.host = envs[e].host
      BY <2>1, <2>3, BuiltTyped, IntervalInv
    <3> HIDE DEF u
    <3> QED BY <2>1, <3>1, <3>2, BecomesInv DEF Becomes
  <2> QED BY <2>2, <2>3
<1>9. ASSUME NEW e \in Envs, NEW n \in Batches, try_addresses(e, n)
      PROVE  Inv'
  <2>1. e \in Built /\ n \in Nat
    BY <1>9 DEF try_addresses
  <2>2. Becomes(e, envs[e]) \/ Becomes(e, Drawn(envs[e], n))
    BY <1>9 DEF try_addresses
  <2> QED BY <1>6, <1>7, <2>1, <2>2
<1>10. ASSUME NEW e \in Envs, NEW names \in Lists, try_actors(e, names)
       PROVE  Inv'
  <2>1. e \in Built /\ Len(names) \in Nat
    BY <1>10 DEF try_actors
  <2>2. Becomes(e, envs[e]) \/ Becomes(e, Drawn(envs[e], Len(names)))
    BY <1>10 DEF try_actors
  <2> QED BY <1>6, <1>7, <2>1, <2>2
<1>11. ASSUME NEW e \in Envs, NEW l \in Labels, address_with_label(e, l)
       PROVE  Inv'
  BY <1>11, BuiltTyped, WithLabelInv, BecomesInv DEF address_with_label
<1>12. CASE UNCHANGED vars
  BY <1>12 DEF vars, Inv, HostsApart, Built
<1>13. ASSUME NEW e \in Envs, address(e)
       PROVE  Inv'
  BY <1>6, <1>13 DEF address
<1> QED BY <1>2, <1>3, <1>4, <1>5, <1>8, <1>9, <1>10, <1>11, <1>12, <1>13, MoveInv
        DEF Next

LEMMA AlwaysInv == Spec => []Inv
<1>1. Inv /\ [Next]_vars => Inv'
  BY NextInv
<1> QED BY <1>1, InitInv, PTL DEF Spec

--------------------------------------------------------------------------------
(* Theorems *)

(* Types hold in every state, and every environment's host was built: no   *)
(* operation leaves a counter past u64::MAX or a blank label.              *)
THEOREM TypeCorrect == Spec => []TypeOK
<1>1. Inv => TypeOK
  <2> SUFFICES ASSUME Inv PROVE TypeOK
    OBVIOUS
  <2>1. hosts \in Seq([sequence : 0..MaxSequence, protocol : Protocols])
        /\ DOMAIN hosts = 1..Len(hosts)
    BY DEF Inv, Ledgers
  <2> QED BY <2>1 DEF Inv, TypeOK
<1> QED BY <1>1, AlwaysInv, PTL

(* Construction, clone_config and reset give every environment a host that *)
(* no other has.                                                           *)
THEOREM HostsStayApart == Spec => []HostsApart
<1>1. Inv => HostsApart
  BY DEF Inv
<1> QED BY <1>1, AlwaysInv, PTL

(* What address, try_addresses, try_actors and address_with_label give out *)
(* is the seed's stream from its start, without a gap.                     *)
THEOREM StreamsHaveNoGaps == Spec => []StreamWithoutGaps
<1>1. Inv => StreamWithoutGaps
  BY DEF Inv, EnvInv, StreamInv, StreamWithoutGaps
<1> QED BY <1>1, AlwaysInv, PTL

(* The two indexes of the labels hold the same pairs, and no label two     *)
(* addresses.                                                              *)
THEOREM IndexesAgree == Spec => []LabelIndexesAgree
<1>1. ASSUME NEW t, EnvInv(t)
      PROVE  LET pairs == {t.address_to_label[i] : i \in DOMAIN t.address_to_label}
             IN  /\ \A l \in Labels, a \in Addresses :
                      <<a, l>> \in pairs <=> <<l, a>> \in t.label_to_address
                 /\ \A p, q \in t.label_to_address : p[1] = q[1] => p = q
                 /\ Cardinality(pairs) = Len(t.address_to_label)
  <2> DEFINE s     == t.address_to_label
             k     == Len(s)
             pairs == {s[i] : i \in DOMAIN s}
  <2>1. /\ s \in Seq(Pairs) /\ k \in Nat /\ DOMAIN s = 1..k
        /\ t.label_to_address \in SUBSET ((Labels \ Blank) \X Addresses)
    BY <1>1 DEF EnvInv, Env, Pairs
  <2>2. /\ \A i \in 1..k : <<s[i][2], s[i][1]>> \in t.label_to_address
        /\ \A p \in t.label_to_address : \E i \in 1..k : s[i] = <<p[2], p[1]>>
        /\ \A i, j \in 1..k : s[i][2] = s[j][2] => i = j
    BY <1>1 DEF EnvInv, IndexesInv, LabelsDistinct
  <2>3. \A i \in 1..k : s[i] \in Pairs
    BY <2>1
  <2> HIDE DEF s, k
  <2>4. ASSUME NEW l \in Labels, NEW a \in Addresses
        PROVE  <<a, l>> \in pairs <=> <<l, a>> \in t.label_to_address
    <3>1. ASSUME <<a, l>> \in pairs PROVE <<l, a>> \in t.label_to_address
      <4>1. PICK i \in 1..k : s[i] = <<a, l>>
        BY <2>1, <3>1
      <4>2. s[i][1] = a /\ s[i][2] = l
        BY <4>1
      <4> QED BY <2>2, <4>2
    <3>2. ASSUME <<l, a>> \in t.label_to_address PROVE <<a, l>> \in pairs
      <4>1. PICK i \in 1..k : s[i] = <<<<l, a>>[2], <<l, a>>[1]>>
        BY <2>2, <3>2
      <4> QED BY <2>1, <4>1
    <3> QED BY <3>1, <3>2
  <2>5. ASSUME NEW p \in t.label_to_address, NEW q \in t.label_to_address, p[1] = q[1]
        PROVE  p = q
    <3>1. PICK i \in 1..k : s[i] = <<p[2], p[1]>>
      BY <2>2
    <3>2. PICK j \in 1..k : s[j] = <<q[2], q[1]>>
      BY <2>2
    <3>3. s[i][2] = p[1] /\ s[j][2] = q[1] /\ s[i][1] = p[2] /\ s[j][1] = q[2]
      BY <3>1, <3>2
    <3>4. i = j
      BY <2>2, <2>5, <3>3
    <3> QED BY <2>1, <2>5, <3>3, <3>4
  <2>6. Cardinality(pairs) = k
    <3> DEFINE f == [i \in 1..k |-> s[i]]
    <3>1. f \in [1..k -> pairs]
      BY <2>1
    <3>2. \A p \in pairs : \E i \in 1..k : f[i] = p
      BY <2>1
    <3>3. \A i, j \in 1..k : f[i] = f[j] => i = j
      BY <2>2
    <3> HIDE DEF f
    <3>4. f \in Bijection(1..k, pairs)
      BY <3>1, <3>2, <3>3 DEF Bijection, Injection, Surjection, IsInjective
    <3>5. ExistsBijection(1..k, pairs)
      BY <3>4 DEF ExistsBijection
    <3> QED BY <2>1, <3>5, FS_CountingElements
  <2> QED BY <2>4, <2>5, <2>6 DEF s, k
<1>2. Inv => LabelIndexesAgree
  BY <1>1 DEF Inv, LabelIndexesAgree
<1> QED BY <1>2, AlwaysInv, PTL

(* Unless the labels' lock was poisoned, the label of a label's address is *)
(* that label.                                                             *)
THEOREM LabelsComeBack == Spec => []LabelsRoundTrip
<1>1. ASSUME NEW t, EnvInv(t), ~t.poisoned PROVE RoundTrip(t)
  <2> DEFINE s == t.address_to_label
             k == Len(s)
  <2>1. /\ s \in Seq(Pairs) /\ k \in Nat /\ DOMAIN s = 1..k
        /\ t.label_to_address \in SUBSET ((Labels \ Blank) \X Addresses)
    BY <1>1 DEF EnvInv, Env, Pairs
  <2>2. /\ \A p \in t.label_to_address : \E i \in 1..k : s[i] = <<p[2], p[1]>>
        /\ \A i, j \in 1..k : s[i][1] = s[j][1] => i = j
    BY <1>1 DEF EnvInv, IndexesInv, AddressesInv
  <2> HIDE DEF s, k
  <2>3. ASSUME NEW l \in Labelled(t)
        PROVE  label_of(t, address_for_label(t, l)) = l
    <3> DEFINE p == CHOOSE q \in t.label_to_address : q[1] = l
               a == address_for_label(t, l)
               at == {i \in DOMAIN s : s[i][1] = a}
               c == CHOOSE i \in at : \A j \in at : i <= j
    <3>1. p \in t.label_to_address /\ p[1] = l
      BY DEF Labelled
    <3>2. a = p[2]
      BY DEF address_for_label
    <3> HIDE DEF p, a
    <3>3. PICK i \in 1..k : s[i] = <<p[2], p[1]>>
      BY <2>2, <3>1
    <3>4. s[i][1] = a /\ s[i][2] = l
      BY <3>1, <3>2, <3>3
    <3>5. at = {i}
      BY <2>1, <2>2, <3>4
    <3>6. i <= i
      BY <2>1
    <3>7. c = i
      BY <3>5, <3>6
    <3>8. label_of(t, a) = s[c][2]
      BY <3>5 DEF label_of, s
    <3> QED BY <3>4, <3>7, <3>8 DEF a
  <2> QED BY <2>3 DEF RoundTrip
<1>2. Inv => LabelsRoundTrip
  BY <1>1 DEF Inv, LabelsRoundTrip
<1> QED BY <1>2, AlwaysInv, PTL

(* A reset of an environment whose lock was never poisoned makes of it     *)
(* what clone_config would have.                                           *)
THEOREM ResetClones == Spec => ResetIsCloneConfig
<1>1. ASSUME Inv, NEW e \in Envs, reset(e), ~envs[e].poisoned
      PROVE  IsClone(e)
  <2> DEFINE t == envs[e]
             ledger == fresh_env_with_defaults(t.ledger_defaults)
  <2>1. t \in Env /\ envs \in [Envs -> Env \cup {NoEnv}] /\ hosts \in Seq(Ledgers)
    BY <1>1, BuiltTyped DEF reset, Inv
  <2>2. envs' = [envs EXCEPT ![e] = StartedOver(t)] /\ hosts' = Append(hosts, ledger)
    BY <1>1 DEF reset, Build
  <2>3. StartedOver(t) = FreshEnv(t.seed, t.close_interval_secs, t.ledger_defaults)
    <3>1. t.poisoned = FALSE
      BY <1>1, <2>1 DEF Env
    <3> DEFINE u == StartedOver(t)
    <3>2. EnvInv(t) /\ Len(hosts) \in Nat /\ NextHost <= MaxHosts
      BY <1>1, <2>1, BuiltTyped DEF reset, Build
    <3>3. u \in Env
      BY <3>2, StartedOverInv DEF EnvInv
    <3> HIDE DEF t
    <3>4. /\ u.host = NextHost /\ u.seed = t.seed /\ u.poisoned = FALSE
          /\ u.close_interval_secs = t.close_interval_secs
          /\ u.ledger_defaults = t.ledger_defaults /\ u.address_counter = 0
          /\ u.address_to_label = <<>> /\ u.label_to_address = {} /\ u.issued = <<>>
      BY <2>1, <3>1 DEF StartedOver, Env
    <3> HIDE DEF u
    <3>5. u = [host |-> u.host, seed |-> u.seed,
               close_interval_secs |-> u.close_interval_secs,
               ledger_defaults |-> u.ledger_defaults,
               address_counter |-> u.address_counter,
               address_to_label |-> u.address_to_label,
               label_to_address |-> u.label_to_address,
               poisoned |-> u.poisoned, issued |-> u.issued]
      BY <3>3 DEF Env
    <3>6. u = FreshEnv(t.seed, t.close_interval_secs, t.ledger_defaults)
      BY <3>4, <3>5 DEF FreshEnv
    <3> QED BY <3>6 DEF u
  <2>4. envs'[e] = FreshEnv(t.seed, t.close_interval_secs, t.ledger_defaults)
    BY <2>1, <2>2, <2>3
  <2>5. envs'[e].host = Len(hosts) + 1
    BY <2>4 DEF FreshEnv, NextHost
  <2> HIDE DEF ledger
  <2>6. hosts'[Len(hosts) + 1] = ledger
    BY <2>1, <2>2
  <2> QED BY <2>4, <2>5, <2>6 DEF IsClone, ledger
<1>2. Inv => [\A e \in Envs : reset(e) /\ ~envs[e].poisoned => IsClone(e)]_vars
  BY <1>1
<1> QED BY <1>2, AlwaysInv, PTL DEF Spec, ResetIsCloneConfig
================================================================================
