---------------------------- MODULE QuickstartProofs ---------------------------
(***************************************************************************)
(* Theorems about the test of Quickstart, for any number of actors,        *)
(* holders and escrows: whatever the test calls, each escrow keeps its     *)
(* one-time promise, and a locked one is never short of what it owes.      *)
(***************************************************************************)
EXTENDS Quickstart, SequenceTheorems, TLAPS

Fold == INSTANCE FoldLemmas WITH op <- Applied

USE TokenAssumption, EscrowAssumption, EmptyAssumption, QuickstartAssumption

(* The part of the types that the escrows depend on, and half of Solvent.  *)
Inv ==
  /\ balances \in [Holders -> 0..MaxAmount]
  /\ EscrowTypeOK
  /\ Covered

(* What a step may do to the contracts, as the escrows see it. *)
Moves(h, n) ==
  /\ balances'[h] = balances[h] + n
  /\ \A e \in Escrows \ {h} : balances'[e] = balances[e]

Typed == balances' \in [Holders -> 0..MaxAmount]

(* Somebody mints, sends or burns: no escrow loses anything.               *)
Gift ==
  /\ UNCHANGED storage
  /\ \/ \A e \in Escrows : balances'[e] = balances[e]
     \/ \E e \in Escrows, n \in Nat \ {0} : Moves(e, n)

Locks(e) ==
  \E s \in Deposited :
    /\ IsEmpty(e) /\ ~s.settled
    /\ storage' = [storage EXCEPT ![e] = s]
    /\ Moves(e, s.amount)

Pays(e) ==
  /\ IsLocked(e)
  /\ storage' = Settled(e)
  /\ Moves(e, -storage[e].amount)

Effect == Typed /\ (Gift \/ \E e \in Escrows : Locks(e) \/ Pays(e))

--------------------------------------------------------------------------------
(* The effects of the asset contract *)

LEMMA NothingMoves ==
  ASSUME Inv, UNCHANGED contracts
  PROVE  Effect
BY DEF Inv, contracts, tokenVars, Effect, Typed, Gift

LEMMA MintMoves ==
  ASSUME Inv, NEW to \in Holders, NEW amount \in Int, mint_raw(to, amount),
         UNCHANGED storage
  PROVE  Effect
<1>1. CASE ~CanCredit(to, amount)
  BY <1>1 DEF Inv, mint_raw, Effect, Typed, Gift
<1>2. CASE CanCredit(to, amount)
  <2>1. /\ amount \in Nat /\ balances' = [balances EXCEPT ![to] = @ + amount]
        /\ balances[to] + amount \in 0..MaxAmount
    BY <1>2 DEF Inv, mint_raw, CanCredit, Credited
  <2>2. Typed
    BY <2>1 DEF Inv, Typed
  <2>3. CASE to \in Escrows /\ amount # 0
    <3>1. Moves(to, amount)
      BY <2>1, <2>3 DEF Inv, Moves
    <3> QED BY <2>1, <2>2, <2>3, <3>1 DEF Effect, Gift
  <2>4. CASE ~(to \in Escrows /\ amount # 0)
    <3>1. \A e \in Escrows : balances'[e] = balances[e]
      BY <2>1, <2>4 DEF Inv
    <3> QED BY <2>2, <3>1 DEF Effect, Gift
  <2> QED BY <2>3, <2>4
<1> QED BY <1>1, <1>2

(* A transfer between two holders, one of whom is no escrow.               *)
LEMMA TransferMoves ==
  ASSUME Inv, NEW payer \in Holders, NEW to \in Holders, payer # to,
         NEW amount \in Int, transfer(payer, to, amount)
  PROVE  /\ Typed /\ amount \in Nat
         /\ balances' = [h \in Holders |->
              IF h = payer THEN balances[h] - amount
              ELSE IF h = to THEN balances[h] + amount ELSE balances[h]]
<1>1. /\ amount \in Nat /\ balances[payer] >= amount
      /\ balances[to] + amount <= MaxAmount
  BY DEF transfer, CanTransfer, CanDebit, CanCredit
<1>2. balances' = [[balances EXCEPT ![payer] = @ + (-amount)]
                                   EXCEPT ![to] = @ + amount]
  BY DEF transfer, Transferred, Credited
<1>3. balances \in [Holders -> 0..MaxAmount]
  BY DEF Inv
<1>4. balances' = [h \in Holders |->
              IF h = payer THEN balances[h] - amount
              ELSE IF h = to THEN balances[h] + amount ELSE balances[h]]
  BY <1>1, <1>2, <1>3
<1>5. Typed
  BY <1>1, <1>3, <1>4 DEF Typed
<1> QED BY <1>1, <1>4, <1>5

LEMMA SendMoves ==
  ASSUME Inv, NEW payer \in Actors, NEW to \in Holders, NEW amount \in Int,
         transfer(payer, to, amount), UNCHANGED storage
  PROVE  Effect
<1>1. CASE payer = to
  <2>1. balances' = balances
    BY <1>1 DEF Inv, transfer, CanTransfer, CanDebit, Transferred, Credited
  <2> QED BY <2>1 DEF Inv, Effect, Typed, Gift
<1>2. CASE payer # to /\ to \in Escrows /\ amount # 0
  <2>1. Moves(to, amount)
    BY <1>2, TransferMoves DEF Moves
  <2> QED BY <1>2, <2>1, TransferMoves DEF Effect, Gift
<1>3. CASE payer # to /\ ~(to \in Escrows /\ amount # 0)
  <2>1. \A e \in Escrows : balances'[e] = balances[e]
    BY <1>3, TransferMoves DEF Inv
  <2> QED BY <1>3, <2>1, TransferMoves DEF Effect, Gift
<1> QED BY <1>1, <1>2, <1>3

LEMMA BurnMoves ==
  ASSUME Inv, NEW h \in Actors, NEW amount \in Int, burn(h, amount),
         UNCHANGED storage
  PROVE  Effect
<1>1. /\ amount \in Nat /\ balances[h] >= amount
      /\ balances' = [balances EXCEPT ![h] = @ + (-amount)]
  BY DEF burn, CanDebit, Credited
<1>2. Typed
  BY <1>1 DEF Inv, Typed
<1>3. \A e \in Escrows : balances'[e] = balances[e]
  BY <1>1 DEF Inv
<1> QED BY <1>2, <1>3 DEF Effect, Gift

--------------------------------------------------------------------------------
(* The effects of the escrow contract *)

LEMMA DepositLocks ==
  ASSUME Inv, NEW e \in Escrows, NEW buyer \in Actors, NEW seller \in Actors,
         NEW amount \in Int, deposit(e, buyer, seller, amount)
  PROVE  Effect
<1> DEFINE s == [buyer |-> buyer, seller |-> seller, amount |-> amount,
                 settled |-> FALSE]
<1>1. /\ IsEmpty(e) /\ amount > 0 /\ transfer(buyer, e, amount)
      /\ storage' = [storage EXCEPT ![e] = s]
  BY DEF deposit, CanDeposit
<1>2. balances[e] \in 0..MaxAmount /\ balances[e] + amount <= MaxAmount
  BY <1>1 DEF Inv, transfer, CanTransfer, CanCredit
<1>3. s \in Deposited
  BY <1>1, <1>2 DEF Deposited
<1>4. Moves(e, amount) /\ Typed
  BY <1>1, TransferMoves DEF Moves
<1>5. Locks(e)
  BY <1>1, <1>3, <1>4 DEF Locks
<1> QED BY <1>4, <1>5 DEF Effect

LEMMA PayOutPays ==
  ASSUME Inv, NEW e \in Escrows, NEW to \in Actors, PayOut(e, to)
  PROVE  Effect
<1>1. IsLocked(e) /\ storage' = Settled(e) /\ transfer(e, to, storage[e].amount)
  BY DEF PayOut, CanPayOut
<1>2. storage[e] \in Deposited
  BY <1>1 DEF Inv, EscrowTypeOK, IsLocked
<1>3. storage[e].amount \in Int
  BY <1>2 DEF Deposited
<1> DEFINE owed == storage[e].amount
<1>4. /\ Typed
      /\ balances' = [h \in Holders |->
           IF h = e THEN balances[h] - owed
           ELSE IF h = to THEN balances[h] + owed ELSE balances[h]]
  <2> HIDE DEF owed
  <2>1. owed \in Int /\ transfer(e, to, owed)
    BY <1>1, <1>3 DEF owed
  <2> QED BY <2>1, TransferMoves
<1>5. balances[e] \in Int
  BY DEF Inv
<1>6. Moves(e, -owed)
  BY <1>3, <1>4, <1>5 DEF Moves
<1> QED BY <1>1, <1>4, <1>6 DEF Effect, Pays

LEMMA PartiesAreActors ==
  ASSUME Inv, NEW e \in Escrows, IsLocked(e)
  PROVE  storage[e].seller \in Actors /\ storage[e].buyer \in Actors
BY DEF Inv, EscrowTypeOK, IsLocked, Deposited

(* Every call of the test, from the kit or its own, has one of the effects. *)
LEMMA NextHasEffect ==
  ASSUME Inv, Next
  PROVE  Effect
<1>1. ASSUME NEW h \in Holders, NEW n \in Mints, MintRaw(h, n)
      PROVE  Effect
  BY <1>1, MintMoves DEF MintRaw
<1>2. ASSUME NEW h \in Holders, NEW n \in Mints, Mint(h, n)
      PROVE  Effect
  <2>1. InBaseUnits(n) \in Int
    BY DEF InBaseUnits
  <2>2. CASE MintRaw(h, InBaseUnits(n))
    BY <2>1, <2>2, MintMoves DEF MintRaw
  <2>3. CASE UNCHANGED contracts
    BY <2>3, NothingMoves
  <2> QED BY <1>2, <2>2, <2>3 DEF Mint
<1>3. ASSUME NEW h \in Holders, NEW n \in Amounts, AssertBalance(h, n)
      PROVE  Effect
  BY <1>3, NothingMoves DEF AssertBalance
<1>4. ASSUME EnterEventsDuring \/ LeaveEventsDuring \/ TakeLog
      PROVE  Effect
  BY <1>4, NothingMoves DEF EnterEventsDuring, LeaveEventsDuring, TakeLog
<1>5. Traps => Effect
  BY NothingMoves DEF Traps
<1>6. ASSUME NEW h \in Actors, NEW n \in Amounts, Burn(h, n)
      PROVE  Effect
  BY <1>5, <1>6, BurnMoves DEF Burn
<1>7. ASSUME NEW h \in Actors, NEW to \in Holders, NEW n \in Amounts,
             Transfer(h, to, n)
      PROVE  Effect
  BY <1>5, <1>7, SendMoves DEF Transfer
<1>8. ASSUME NEW e \in Escrows, NEW buyer \in Actors,
             NEW seller \in Actors, NEW n \in Offers,
             Deposit(e, buyer, seller, n)
      PROVE  Effect
  BY <1>5, <1>8, DepositLocks DEF Deposit
<1>9. ASSUME NEW e \in Escrows, Release(e)
      PROVE  Effect
  BY <1>5, <1>9, PayOutPays, PartiesAreActors DEF Release
<1>10. ASSUME NEW e \in Escrows, Refund(e)
       PROVE  Effect
  BY <1>5, <1>10, PayOutPays, PartiesAreActors DEF Refund
<1>11. ASSUME NEW e \in Escrows, WithdrawUnchecked(e)
       PROVE  Effect
  BY <1>5, <1>11, PayOutPays, PartiesAreActors DEF WithdrawUnchecked
<1>12. Kit => Effect
  BY <1>1, <1>2, <1>3, <1>4 DEF Kit
<1>13. Calls => Effect
  BY <1>5, <1>6, <1>7, <1>8, <1>9, <1>10, <1>11 DEF Calls, Unauthorized
<1> QED BY <1>12, <1>13 DEF Next

--------------------------------------------------------------------------------
(* Invariance *)

LEMMA InitInv == Init => Inv
BY DEF Init, TokenInit, EscrowInit, Inv, EscrowTypeOK, Covered, IsLocked

LEMMA EffectKeepsInv ==
  ASSUME Inv, Effect
  PROVE  Inv'
<1>1. Typed
  BY DEF Effect
<1>2. CASE Gift
  <2>1. \A e \in Escrows : balances'[e] >= balances[e]
    BY <1>2 DEF Gift, Moves, Inv
  <2> QED BY <1>1, <1>2, <2>1 DEF Gift, Inv, Typed, EscrowTypeOK, Covered, IsLocked, Deposited
<1>3. ASSUME NEW e \in Escrows, Locks(e)
      PROVE  Inv'
  <2>1. PICK s \in Deposited : /\ storage' = [storage EXCEPT ![e] = s]
                               /\ Moves(e, s.amount)
    BY <1>3 DEF Locks
  <2>2. EscrowTypeOK'
    BY <2>1 DEF Inv, EscrowTypeOK
  <2>3. ASSUME NEW d \in Escrows, IsLocked(d)'
        PROVE  balances'[d] >= storage'[d].amount
    BY <2>1, <2>3 DEF Inv, EscrowTypeOK, Covered, IsLocked, Moves, Deposited
  <2> QED BY <1>1, <2>2, <2>3 DEF Inv, Typed, Covered
<1>4. ASSUME NEW e \in Escrows, Pays(e)
      PROVE  Inv'
  <2>1. /\ storage[e] \in Deposited
        /\ storage' = [storage EXCEPT ![e] = [storage[e] EXCEPT !.settled = TRUE]]
        /\ Moves(e, -storage[e].amount)
    BY <1>4 DEF Pays, Settled, Inv, EscrowTypeOK, IsLocked
  <2>2. [storage[e] EXCEPT !.settled = TRUE] \in Deposited
    BY <2>1 DEF Deposited
  <2>3. EscrowTypeOK'
    BY <2>1, <2>2 DEF Inv, EscrowTypeOK
  <2>4. ~IsLocked(e)'
    BY <2>1 DEF Inv, EscrowTypeOK, IsLocked, Deposited
  <2>5. ASSUME NEW d \in Escrows, IsLocked(d)'
        PROVE  balances'[d] >= storage'[d].amount
    BY <2>1, <2>4, <2>5 DEF Inv, EscrowTypeOK, Covered, IsLocked, Moves
  <2> QED BY <1>1, <2>3, <2>5 DEF Inv, Typed, Covered
<1> QED BY <1>2, <1>3, <1>4 DEF Effect

LEMMA StutterKeepsInv ==
  ASSUME Inv, UNCHANGED vars
  PROVE  Inv'
BY DEF vars, tokenVars, Inv, EscrowTypeOK, Covered, IsLocked, Deposited

(* Whatever the test calls, every holder's balance fits, every escrow's    *)
(* storage is whole, and a locked escrow holds at least what it owes.      *)
THEOREM InvHolds == Spec => []Inv
<1>1. Inv /\ [Next]_vars => Inv'
  BY NextHasEffect, EffectKeepsInv, StutterKeepsInv
<1> QED BY <1>1, InitInv, PTL DEF Spec

(* No sequence of calls leaves a locked escrow short of what it owes.      *)
THEOREM AlwaysCovered == Spec => []Covered
<1>1. Inv => Covered
  BY DEF Inv
<1> QED BY <1>1, InvHolds, PTL

--------------------------------------------------------------------------------
(* The promise *)

LEMMA InitPromises == Init => Promise!Init
BY DEF Init, TokenInit, EscrowInit, Promise!Init, Phase, IsEmpty

(* The state of the promise, as the escrows' storage and balances give it. *)
phase == [e \in Escrows |-> Phase(e)]
locked == [e \in Escrows |-> IF IsEmpty(e) THEN 0 ELSE storage[e].amount]
held == [e \in Escrows |-> balances[e]]

LEMMA SameStorage ==
  ASSUME UNCHANGED storage
  PROVE  UNCHANGED <<phase, locked>>
BY DEF phase, locked, Phase, IsEmpty, IsLocked

LEMMA MovesHeld ==
  ASSUME Inv, NEW e \in Escrows, NEW n \in Int, Moves(e, n)
  PROVE  held' = [held EXCEPT ![e] = @ + n]
BY DEF Inv, Moves, held

LEMMA PaidUp ==
  ASSUME NEW s \in Deposited
  PROVE  LET p == [s EXCEPT !.settled = TRUE]
         IN  /\ p \in Deposited /\ p.settled = TRUE
             /\ p.amount = s.amount /\ p.amount \in Int
<1>1. [s EXCEPT !.settled = TRUE] \in Deposited
  BY DEF Deposited
<1>2. [s EXCEPT !.settled = TRUE].settled = TRUE
  BY DEF Deposited
<1>3. [s EXCEPT !.settled = TRUE].amount = s.amount
  BY DEF Deposited
<1>4. s.amount \in Int
  BY DEF Deposited
<1> QED BY <1>1, <1>2, <1>3, <1>4

LEMMA EffectPromises ==
  ASSUME Inv, Effect
  PROVE  [Promise!Next]_(Promise!vars)
<1>1. CASE Gift /\ \A e \in Escrows : balances'[e] = balances[e]
  <2>1. UNCHANGED <<phase, locked, held>>
    BY <1>1, SameStorage DEF Gift, held
  <2> QED BY <2>1 DEF Promise!vars, phase, locked, held
<1>2. ASSUME Gift, NEW e \in Escrows, NEW n \in Nat \ {0}, Moves(e, n)
      PROVE  Promise!Next
  <2>1. UNCHANGED <<phase, locked>> /\ held' = [held EXCEPT ![e] = @ + n]
    BY <1>2, SameStorage, MovesHeld DEF Gift
  <2>2. held \in [Escrows -> Int]
    BY DEF Inv, held
  <2>3. held'[e] > held[e] /\ held' = [held EXCEPT ![e] = held'[e]]
    BY <2>1, <2>2
  <2>4. Promise!Given(e)
    BY <2>1, <2>3 DEF Promise!Given, phase, locked, held
  <2> QED BY <2>4 DEF Promise!Next
<1>3. ASSUME NEW e \in Escrows, Locks(e)
      PROVE  Promise!Next
  <2>1. PICK s \in Deposited : /\ IsEmpty(e) /\ ~s.settled
                               /\ storage' = [storage EXCEPT ![e] = s]
                               /\ Moves(e, s.amount)
    BY <1>3 DEF Locks
  <2>2. s.amount \in Nat \ {0} /\ s # Empty
    BY DEF Deposited
  <2>3. storage'[e] = s /\ \A d \in Escrows \ {e} : storage'[d] = storage[d]
    BY <2>1 DEF Inv, EscrowTypeOK
  <2>4. phase[e] = "empty" /\ phase' = [phase EXCEPT ![e] = "locked"]
    BY <2>1, <2>2, <2>3 DEF phase, Phase, IsEmpty, IsLocked
  <2>5. locked'[e] = s.amount /\ locked' = [locked EXCEPT ![e] = locked'[e]]
    BY <2>2, <2>3 DEF locked, IsEmpty
  <2>6. held' = [held EXCEPT ![e] = @ + locked'[e]]
    BY <2>1, <2>2, <2>5, MovesHeld
  <2>7. Promise!Lock(e)
    BY <2>2, <2>4, <2>5, <2>6 DEF Promise!Lock, phase, locked, held
  <2> QED BY <2>7 DEF Promise!Next
<1>4. ASSUME NEW e \in Escrows, Pays(e)
      PROVE  Promise!Next
  <2>1. /\ IsLocked(e) /\ storage[e] \in Deposited
        /\ storage' = [storage EXCEPT ![e] = [storage[e] EXCEPT !.settled = TRUE]]
        /\ Moves(e, -storage[e].amount)
    BY <1>4 DEF Pays, Settled, Inv, EscrowTypeOK, IsLocked
  <2> DEFINE paid == [storage[e] EXCEPT !.settled = TRUE]
  <2>2. /\ paid \in Deposited /\ paid.settled = TRUE
        /\ paid.amount = storage[e].amount /\ paid.amount \in Int
    BY <2>1, PaidUp
  <2>3. storage'[e] = paid /\ \A d \in Escrows \ {e} : storage'[d] = storage[d]
    BY <2>1 DEF Inv, EscrowTypeOK
  <2> HIDE DEF paid
  <2>4. ~IsEmpty(e) /\ ~IsEmpty(e)'
    BY <2>1, <2>2, <2>3 DEF IsEmpty
  <2>5. phase[e] = "locked" /\ phase' = [phase EXCEPT ![e] = "settled"]
    BY <2>1, <2>2, <2>3, <2>4 DEF phase, Phase, IsEmpty, IsLocked
  <2>6. UNCHANGED locked /\ locked[e] = storage[e].amount
    BY <2>2, <2>3, <2>4 DEF locked, IsEmpty
  <2>7. held' = [held EXCEPT ![e] = @ + (-locked[e])]
    BY <2>1, <2>2, <2>6, MovesHeld
  <2>8. held' = [held EXCEPT ![e] = @ - locked[e]]
    BY <2>2, <2>6, <2>7 DEF Inv, held
  <2>9. Promise!Settle(e)
    BY <2>5, <2>6, <2>8 DEF Promise!Settle, phase, locked, held
  <2> QED BY <2>9 DEF Promise!Next
<1> QED BY <1>1, <1>2, <1>3, <1>4 DEF Effect, Gift

(* Every escrow locks once, pays once, and exactly what was locked, for    *)
(* any number of actors and escrows, in a test that calls the contracts    *)
(* and the kit in any order (quickstart's lib.rs).                         *)
THEOREM ImplementsPromise == Spec => PaysOnce
<1>1. Inv /\ [Next]_vars => [Promise!Next]_(Promise!vars)
  <2>1. Inv /\ Next => [Promise!Next]_(Promise!vars)
    BY NextHasEffect, EffectPromises
  <2>2. UNCHANGED vars => UNCHANGED Promise!vars
    <3>1. UNCHANGED vars => UNCHANGED <<phase, locked, held>>
      BY SameStorage DEF vars, tokenVars, held
    <3> QED BY <3>1 DEF Promise!vars, phase, locked, held
  <2> QED BY <2>1, <2>2
<1> QED BY <1>1, InvHolds, InitPromises, PTL DEF Spec, PaysOnce, Promise!Spec

--------------------------------------------------------------------------------
(* The log *)

Topics ==
  {<<"deposit">>, <<"release">>}
    \cup {<<"mint", h>> : h \in Holders} \cup {<<"burn", h>> : h \in Holders}
    \cup {<<"transfer", h, to>> : h \in Holders, to \in Holders}

Events == [contract : Escrows \cup {Token}, topics : Topics, data : Int]

Closures == [before : [Holders -> Int], calls : Nat, published : Seq(Events)]

(* A closure's events end with what the host holds, once it made a call.   *)
LogInv ==
  /\ events \in Seq(Events) /\ returned \in Seq(Events)
  /\ during = NoClosure \/ during \in Closures
  /\ during # NoClosure =>
       /\ during.calls = 0 => during.published = <<>>
       /\ during.calls = 1 => events = during.published
       /\ during.calls > 0 => \E u \in Seq(Events) : during.published = u \o events

LEMMA EndIsSuffix ==
  ASSUME NEW S, NEW u \in Seq(S), NEW s \in Seq(S)
  PROVE  IsSuffix(s, u \o s)
<1> DEFINE t == u \o s
           m == Len(u)
           n == Len(s)
           rs == [i \in 1..n |-> s[(n - i) + 1]]
           rt == [i \in 1..(m + n) |-> t[((m + n) - i) + 1]]
<1>1. /\ t \in Seq(S) /\ Len(t) = m + n /\ m \in Nat /\ n \in Nat
      /\ \A j \in 1..n : t[m + j] = s[j]
  BY ConcatProperties
<1>2. rs = Reverse(s) /\ rt = Reverse(t)
  BY <1>1 DEF Reverse
<1>3. rs \in Seq(S) /\ Len(rs) = n
  <2>1. rs \in [1..n -> S]
    BY <1>1
  <2> QED BY <2>1, <1>1
<1>4. rt \in Seq(S) /\ Len(rt) = m + n
  <2>1. rt \in [1..(m + n) -> S]
    BY <1>1
  <2> QED BY <2>1, <1>1
<1>5. \A i \in 1..n : rt[i] = rs[i]
  <2> TAKE i \in 1..n
  <2>1. (n - i) + 1 \in 1..n /\ ((m + n) - i) + 1 = m + ((n - i) + 1)
    BY <1>1
  <2>2. rt[i] = t[m + ((n - i) + 1)] /\ rs[i] = s[(n - i) + 1]
    BY <1>1, <2>1
  <2> QED BY <1>1, <2>1, <2>2
<1> HIDE DEF rs, rt
<1>6. SubSeq(rs, 1, n) = SubSeq(rt, 1, n)
  BY <1>1, <1>3, <1>4, <1>5
<1> QED BY <1>1, <1>2, <1>3, <1>4, <1>6 DEF IsSuffix, IsPrefix

LEMMA EventsAreTyped ==
  /\ \A h \in Holders, n \in Int :
       MintEvent(h, n) \in Events /\ BurnEvent(h, n) \in Events
  /\ \A h, to \in Holders, n \in Int : TransferEvent(h, to, n) \in Events
  /\ \A e \in Escrows, n \in Int : /\ Event(e, <<"deposit">>, n) \in Events
                                   /\ Event(e, <<"release">>, n) \in Events
<1>1. \A h \in Holders, n \in Int : MintEvent(h, n) \in Events
  BY DEF MintEvent, Event, Events, Topics
<1>2. \A h \in Holders, n \in Int : BurnEvent(h, n) \in Events
  BY DEF BurnEvent, Event, Events, Topics
<1>3. \A h, to \in Holders, n \in Int : TransferEvent(h, to, n) \in Events
  BY DEF TransferEvent, Event, Events, Topics
<1>4. \A e \in Escrows, n \in Int : Event(e, <<"deposit">>, n) \in Events
  BY DEF Event, Events, Topics
<1>5. \A e \in Escrows, n \in Int : Event(e, <<"release">>, n) \in Events
  BY DEF Event, Events, Topics
<1> QED BY <1>1, <1>2, <1>3, <1>4, <1>5

LEMMA ShortLogs ==
  /\ <<>> \in Seq(Events)
  /\ \A d \in Events : <<d>> \in Seq(Events)
  /\ \A d1, d2 \in Events : <<d1, d2>> \in Seq(Events)
OBVIOUS

--------------------------------------------------------------------------------
(* What the filters make of a log *)

(* The body of the recursive function behind a filter of the log, for the  *)
(* places K of the events that pass.                                       *)
WhereBody(f, log, K) ==
  [n \in 0..Len(log) |->
     IF n = 0 THEN <<>> ELSE IF n \in K THEN Append(f[n - 1], log[n]) ELSE f[n - 1]]

LEMMA WhereExists ==
  ASSUME NEW log, NEW K, Len(log) \in 0..2
  PROVE  \E f : f = WhereBody(f, log, K)
<1> DEFINE one == IF 1 \in K THEN Append(<<>>, log[1]) ELSE <<>>
           two == IF 2 \in K THEN Append(one, log[2]) ELSE one
           m == Len(log)
           f == [n \in 0..m |-> IF n = 0 THEN <<>> ELSE IF n = 1 THEN one ELSE two]
<1>1. \A n \in 0..m : n = 0 \/ n = 1 \/ n = 2
  <2>1. m \in 0..2
    OBVIOUS
  <2> HIDE DEF m
  <2> QED BY <2>1
<1>2. m >= 1 => f[0] = <<>>
  OBVIOUS
<1>3. m >= 2 => f[1] = one
  OBVIOUS
<1>4. ASSUME NEW n \in 0..m
      PROVE  f[n] = IF n = 0 THEN <<>> ELSE IF n \in K THEN Append(f[n - 1], log[n]) ELSE f[n - 1]
  <2>1. CASE n = 0
    BY <2>1
  <2>2. CASE n = 1
    <3>1. m >= 1 /\ f[1] = one /\ 1 - 1 = 0
      BY <2>2
    <3> HIDE DEF f, m
    <3> QED BY <1>2, <2>2, <3>1
  <2>3. CASE n = 2
    <3>1. m >= 2 /\ f[2] = two /\ 2 - 1 = 1
      BY <2>3
    <3> HIDE DEF f, m, one
    <3> QED BY <1>3, <2>3, <3>1
  <2> QED BY <1>1, <2>1, <2>2, <2>3
<1>5. f = WhereBody(f, log, K)
  <2>1. f = [n \in 0..m |-> f[n]]
    OBVIOUS
  <2> HIDE DEF f
  <2> QED BY <1>4, <2>1 DEF WhereBody
<1> QED BY <1>5

LEMMA WhereIsBody ==
  ASSUME NEW log, NEW K, Len(log) \in 0..2
  PROVE  \E f : f = WhereBody(f, log, K) /\ Where(log, K) = f[Len(log)]
<1> DEFINE g == CHOOSE f : f = WhereBody(f, log, K)
<1>1. Where(log, K) = g[Len(log)]
  BY DEF Where, WhereBody
<1>2. g = WhereBody(g, log, K)
  BY WhereExists
<1> HIDE DEF g
<1> QED BY <1>1, <1>2

LEMMA FromIsWhere ==
  ASSUME NEW log, NEW c, Len(log) \in 0..2
  PROVE  \E f : /\ f = WhereBody(f, log, {n \in 1..Len(log) : log[n].contract = c})
                /\ from(log, c) = f[Len(log)]
BY WhereIsBody DEF from

LEMMA WithTopicIsWhere ==
  ASSUME NEW log, NEW topic, Len(log) \in 0..2
  PROVE  \E f : /\ f = WhereBody(f, log, {n \in 1..Len(log) : Contains(log[n].topics, topic)})
                /\ with_topic(log, topic) = f[Len(log)]
BY WhereIsBody DEF with_topic

LEMMA AppendToOne ==
  ASSUME NEW x, NEW y
  PROVE  Append(<<x>>, y) = <<x, y>>
<1> DEFINE s == <<x>>
           r == Append(s, y)
<1>1. s \in Seq({x, y}) /\ Len(s) = 1 /\ s[1] = x
  OBVIOUS
<1> HIDE DEF s
<1>2. y \in {x, y}
  OBVIOUS
<1> DEFINE S == {x, y}
<1> HIDE DEF S
<1>3. r \in Seq(S) /\ Len(r) = 2 /\ r[1] = x /\ r[2] = y
  <2>1. s \in Seq(S) /\ y \in S
    BY <1>1, <1>2 DEF S
  <2>2. /\ r \in Seq(S) /\ Len(r) = Len(s) + 1 /\ r[Len(s) + 1] = y
        /\ \A i \in 1..Len(s) : r[i] = s[i]
    BY <2>1, AppendProperties
  <2> HIDE DEF r
  <2> QED BY <1>1, <2>2
<1>4. r = <<x, y>>
  <2> HIDE DEF r
  <2> QED BY <1>3
<1> QED BY <1>4 DEF r, s

(* What a filter makes of the logs of a single call. *)
LEMMA ShortWhere ==
  ASSUME NEW log, NEW K, Len(log) \in 0..2, NEW f, f = WhereBody(f, log, K)
  PROVE  /\ Len(log) = 0 => f[Len(log)] = <<>>
         /\ Len(log) = 1 => f[Len(log)] = IF 1 \in K THEN <<log[1]>> ELSE <<>>
         /\ Len(log) = 2 => f[Len(log)] =
              IF 1 \in K THEN IF 2 \in K THEN <<log[1], log[2]>> ELSE <<log[1]>>
              ELSE IF 2 \in K THEN <<log[2]>> ELSE <<>>
<1> DEFINE m == Len(log)
<1>1. m \in 0..2
  OBVIOUS
<1>2. \A n \in 0..m :
        f[n] = IF n = 0 THEN <<>> ELSE IF n \in K THEN Append(f[n - 1], log[n]) ELSE f[n - 1]
  BY DEF WhereBody
<1> HIDE DEF m
<1>3. f[0] = <<>>
  BY <1>1, <1>2
<1>4. ASSUME m >= 1 PROVE f[1] = IF 1 \in K THEN <<log[1]>> ELSE <<>>
  <2>1. f[1] = IF 1 \in K THEN Append(f[0], log[1]) ELSE f[0]
    <3>1. 1 \in 0..m /\ 1 - 1 = 0 /\ 1 # 0
      BY <1>1, <1>4
    <3> QED BY <1>2, <3>1
  <2> QED BY <1>3, <2>1
<1>5. ASSUME m = 2
      PROVE  f[2] = IF 1 \in K THEN IF 2 \in K THEN <<log[1], log[2]>> ELSE <<log[1]>>
                    ELSE IF 2 \in K THEN <<log[2]>> ELSE <<>>
  <2>1. f[2] = IF 2 \in K THEN Append(f[1], log[2]) ELSE f[1]
    <3>1. 2 \in 0..m /\ 2 - 1 = 1 /\ 2 # 0
      BY <1>1, <1>5
    <3> QED BY <1>2, <3>1
  <2>2. f[1] = IF 1 \in K THEN <<log[1]>> ELSE <<>>
    BY <1>4, <1>5
  <2>3. CASE 1 \in K
    BY <2>1, <2>2, <2>3, AppendToOne
  <2>4. CASE 1 \notin K
    BY <2>1, <2>2, <2>4
  <2> QED BY <2>3, <2>4
<1>6. m = 0 => f[m] = <<>>
  BY <1>3
<1>7. m = 1 => f[m] = IF 1 \in K THEN <<log[1]>> ELSE <<>>
  BY <1>4
<1>8. m = 2 => f[m] = IF 1 \in K THEN IF 2 \in K THEN <<log[1], log[2]>> ELSE <<log[1]>>
                      ELSE IF 2 \in K THEN <<log[2]>> ELSE <<>>
  BY <1>5
<1> QED BY <1>6, <1>7, <1>8 DEF m

LEMMA ShortFrom ==
  ASSUME NEW c
  PROVE  /\ from(<<>>, c) = <<>>
         /\ \A d : from(<<d>>, c) = IF d.contract = c THEN <<d>> ELSE <<>>
         /\ \A d1, d2 : from(<<d1, d2>>, c) =
              IF d1.contract = c THEN IF d2.contract = c THEN <<d1, d2>> ELSE <<d1>>
              ELSE IF d2.contract = c THEN <<d2>> ELSE <<>>
<1>1. from(<<>>, c) = <<>>
  <2> DEFINE log == <<>>
             K == {n \in 1..Len(log) : log[n].contract = c}
  <2>1. Len(log) = 0 /\ Len(log) \in 0..2
    OBVIOUS
  <2> HIDE DEF log
  <2>2. PICK f : f = WhereBody(f, log, K) /\ from(log, c) = f[Len(log)]
    BY <2>1, FromIsWhere
  <2> HIDE DEF K
  <2>3. from(log, c) = <<>>
    BY <2>1, <2>2, ShortWhere
  <2> QED BY <2>3 DEF log
<1>2. ASSUME NEW d PROVE from(<<d>>, c) = IF d.contract = c THEN <<d>> ELSE <<>>
  <2> DEFINE log == <<d>>
  <2>1. Len(log) = 1 /\ log[1] = d /\ 1 \in 0..2 /\ 1 \in 1..1
    OBVIOUS
  <2> HIDE DEF log
  <2>2. Len(log) \in 0..2
    BY <2>1
  <2>3. PICK f : /\ f = WhereBody(f, log, {n \in 1..Len(log) : log[n].contract = c})
                 /\ from(log, c) = f[Len(log)]
    BY <2>2, FromIsWhere
  <2>4. from(log, c) = IF 1 \in {n \in 1..Len(log) : log[n].contract = c}
                       THEN <<log[1]>> ELSE <<>>
    BY <2>1, <2>2, <2>3, ShortWhere
  <2>5. 1 \in {n \in 1..Len(log) : log[n].contract = c} <=> d.contract = c
    BY <2>1
  <2> QED BY <2>1, <2>4, <2>5 DEF log
<1>3. ASSUME NEW d1, NEW d2
      PROVE  from(<<d1, d2>>, c) =
               IF d1.contract = c THEN IF d2.contract = c THEN <<d1, d2>> ELSE <<d1>>
               ELSE IF d2.contract = c THEN <<d2>> ELSE <<>>
  <2> DEFINE log == <<d1, d2>>
             K == {n \in 1..Len(log) : log[n].contract = c}
  <2>1. Len(log) = 2 /\ log[1] = d1 /\ log[2] = d2 /\ 2 \in 0..2 /\ 1 \in 1..2 /\ 2 \in 1..2
    OBVIOUS
  <2> HIDE DEF log
  <2>2. Len(log) \in 0..2
    BY <2>1
  <2>3. (1 \in K <=> d1.contract = c) /\ (2 \in K <=> d2.contract = c)
    BY <2>1
  <2>4. PICK f : f = WhereBody(f, log, K) /\ from(log, c) = f[Len(log)]
    BY <2>2, FromIsWhere
  <2> HIDE DEF K
  <2>5. from(log, c) =
          IF 1 \in K THEN IF 2 \in K THEN <<log[1], log[2]>> ELSE <<log[1]>>
          ELSE IF 2 \in K THEN <<log[2]>> ELSE <<>>
    BY <2>1, <2>2, <2>4, ShortWhere
  <2> QED BY <2>1, <2>3, <2>5 DEF log
<1> QED BY <1>1, <1>2, <1>3

LEMMA ShortWithTopic ==
  ASSUME NEW topic
  PROVE  /\ with_topic(<<>>, topic) = <<>>
         /\ \A d : with_topic(<<d>>, topic) =
              IF Contains(d.topics, topic) THEN <<d>> ELSE <<>>
<1>1. with_topic(<<>>, topic) = <<>>
  <2> DEFINE log == <<>>
             K == {n \in 1..Len(log) : Contains(log[n].topics, topic)}
  <2>1. Len(log) = 0 /\ Len(log) \in 0..2
    OBVIOUS
  <2> HIDE DEF log
  <2>2. PICK f : f = WhereBody(f, log, K) /\ with_topic(log, topic) = f[Len(log)]
    BY <2>1, WithTopicIsWhere
  <2> HIDE DEF K
  <2>3. with_topic(log, topic) = <<>>
    BY <2>1, <2>2, ShortWhere
  <2> QED BY <2>3 DEF log
<1>2. ASSUME NEW d
      PROVE  with_topic(<<d>>, topic) = IF Contains(d.topics, topic) THEN <<d>> ELSE <<>>
  <2> DEFINE log == <<d>>
             K == {n \in 1..Len(log) : Contains(log[n].topics, topic)}
  <2>1. Len(log) = 1 /\ log[1] = d /\ 1 \in 0..2 /\ 1 \in 1..1
    OBVIOUS
  <2> HIDE DEF log
  <2>2. Len(log) \in 0..2
    BY <2>1
  <2>3. 1 \in K <=> Contains(d.topics, topic)
    BY <2>1
  <2>4. PICK f : f = WhereBody(f, log, K) /\ with_topic(log, topic) = f[Len(log)]
    BY <2>2, WithTopicIsWhere
  <2> HIDE DEF K
  <2>5. with_topic(log, topic) = IF 1 \in K THEN <<log[1]>> ELSE <<>>
    BY <2>1, <2>2, <2>4, ShortWhere
  <2> QED BY <2>1, <2>3, <2>5 DEF log
<1> QED BY <1>1, <1>2

--------------------------------------------------------------------------------
(* What a call publishes *)

(* The events of a call account for what it does to the balances.          *)
Accounts(p) == balances' = Fold!Folded(balances, p)

(* What a log tells of the escrows while the host holds it as well. *)
Tells(log) ==
  \A e \in Escrows :
    LET mine == from(log, e)
    IN  /\ assert_emitted(mine, "deposit") =>
             /\ IsLocked(e)
             /\ CanDecode(with_topic(mine, "deposit"))
             /\ decode_one(with_topic(mine, "deposit")) = storage[e].amount
             /\ assert_none(mine, "release")
        /\ assert_emitted(mine, "release") => ~IsEmpty(e) /\ ~IsLocked(e)

LEMMA ShortFolds ==
  ASSUME NEW b
  PROVE  /\ Fold!Folded(b, <<>>) = b
         /\ \A d \in Events : Fold!Folded(b, <<d>>) = Applied(b, d)
         /\ \A d1, d2 \in Events :
              Fold!Folded(b, <<d1, d2>>) = Applied(Applied(b, d1), d2)
<1>1. Fold!Folded(b, <<>>) = b
  BY Fold!FoldOfNone
<1>2. ASSUME NEW d \in Events PROVE Fold!Folded(b, <<d>>) = Applied(b, d)
  <2>1. <<>> \in Seq(Events) /\ Append(<<>>, d) = <<d>>
    OBVIOUS
  <2>2. Fold!Folded(b, Append(<<>>, d)) = Applied(Fold!Folded(b, <<>>), d)
    BY <2>1, Fold!FoldOfAppend
  <2> QED BY <1>1, <2>1, <2>2
<1>3. ASSUME NEW d1 \in Events, NEW d2 \in Events
      PROVE  Fold!Folded(b, <<d1, d2>>) = Applied(Applied(b, d1), d2)
  <2>1. <<d1>> \in Seq(Events) /\ Append(<<d1>>, d2) = <<d1, d2>>
    BY AppendToOne
  <2>2. Fold!Folded(b, Append(<<d1>>, d2)) = Applied(Fold!Folded(b, <<d1>>), d2)
    BY <2>1, Fold!FoldOfAppend
  <2> QED BY <1>2, <2>1, <2>2
<1> QED BY <1>1, <1>2, <1>3

LEMMA AppliedEvents ==
  ASSUME NEW b
  PROVE  /\ \A h, n : Applied(b, MintEvent(h, n)) = Credited(b, h, n)
         /\ \A h, n : Applied(b, BurnEvent(h, n)) = Credited(b, h, -n)
         /\ \A h, to, n : Applied(b, TransferEvent(h, to, n)) = Transferred(b, h, to, n)
         /\ \A e \in Escrows, topic \in {"deposit", "release"} :
              \A n : Applied(b, Event(e, <<topic>>, n)) = b
<1>1. \A h, n : Applied(b, MintEvent(h, n)) = Credited(b, h, n)
  BY DEF Applied, MintEvent, Event
<1>2. \A h, n : Applied(b, BurnEvent(h, n)) = Credited(b, h, -n)
  BY DEF Applied, BurnEvent, Event
<1>3. \A h, to, n : Applied(b, TransferEvent(h, to, n)) = Transferred(b, h, to, n)
  BY DEF Applied, TransferEvent, Event
<1>4. \A e \in Escrows, topic \in {"deposit", "release"} :
        \A n : Applied(b, Event(e, <<topic>>, n)) = b
  <2> SUFFICES ASSUME NEW e \in Escrows, NEW topic \in {"deposit", "release"}, NEW n
               PROVE  Applied(b, Event(e, <<topic>>, n)) = b
    OBVIOUS
  <2>1. /\ Event(e, <<topic>>, n).contract # Token
        /\ Event(e, <<topic>>, n).topics[1] \in {"deposit", "release"}
    BY DEF Event
  <2> QED BY <2>1 DEF Applied
<1> QED BY <1>1, <1>2, <1>3, <1>4

(* A call that publishes no event of an escrow says nothing of one. *)
LEMMA SilentCall ==
  /\ Tells(<<>>)'
  /\ \A d : d.contract = Token => Tells(<<d>>)'
<1>1. \A topic : assert_none(<<>>, topic)
  BY ShortWithTopic DEF assert_none
<1>2. \A log : (\A e \in Escrows : from(log, e) = <<>>) => Tells(log)'
  BY <1>1 DEF Tells, assert_emitted
<1>3. \A e \in Escrows : from(<<>>, e) = <<>>
  BY ShortFrom
<1>4. \A d : d.contract = Token => \A e \in Escrows : from(<<d>>, e) = <<>>
  BY ShortFrom
<1> QED BY <1>2, <1>3, <1>4

(* A log holds one event of escrows, with the only topic it has.           *)
SpeaksOf(log, e, topic, d) ==
  /\ from(log, e) = <<d>>
  /\ \A other \in Escrows : other # e => from(log, other) = <<>>
  /\ with_topic(<<d>>, topic) = <<d>>
  /\ \A t : t # topic => assert_none(<<d>>, t)

LEMMA OneOfEscrow ==
  ASSUME NEW e \in Escrows, NEW d1, d1.contract = Token, NEW topic, NEW n
  PROVE  LET d == Event(e, <<topic>>, n)
         IN  SpeaksOf(<<d1, d>>, e, topic, d)
<1> DEFINE d == Event(e, <<topic>>, n)
<1>1. d.contract = e /\ d.topics = <<topic>> /\ d.data = n
  BY DEF Event
<1>2. \A t : Contains(<<topic>>, t) <=> t = topic
  <2>1. Len(<<topic>>) = 1 /\ <<topic>>[1] = topic
    OBVIOUS
  <2>2. \A i : i \in 1..1 <=> i = 1
    OBVIOUS
  <2> QED BY <2>1, <2>2 DEF Contains
<1> HIDE DEF d
<1>3. from(<<d1, d>>, e) = <<d>>
  BY <1>1, ShortFrom
<1>4. \A other \in Escrows : other # e => from(<<d1, d>>, other) = <<>>
  BY <1>1, ShortFrom
<1>5. with_topic(<<d>>, topic) = <<d>>
  BY <1>1, <1>2, ShortWithTopic
<1>6. \A t : t # topic => assert_none(<<d>>, t)
  BY <1>1, <1>2, ShortWithTopic DEF assert_none
<1> QED BY <1>3, <1>4, <1>5, <1>6 DEF d, SpeaksOf

LEMMA NoEventTells == \A topic : ~assert_emitted(<<>>, topic)
BY ShortWithTopic DEF assert_none, assert_emitted

LEMMA DepositTells ==
  ASSUME NEW e \in Escrows, NEW d1, d1.contract = Token, NEW n,
         IsLocked(e)', storage'[e].amount = n
  PROVE  Tells(<<d1, Event(e, <<"deposit">>, n)>>)'
<1> DEFINE d == Event(e, <<"deposit">>, n)
<1>1. SpeaksOf(<<d1, d>>, e, "deposit", d) /\ d.data = n
  BY OneOfEscrow DEF Event
<1> HIDE DEF d
<1>2. CanDecode(<<d>>) /\ decode_one(<<d>>) = n
  BY <1>1 DEF CanDecode, decode_one
<1> QED BY <1>1, <1>2, NoEventTells DEF SpeaksOf, Tells, assert_emitted, d

LEMMA ReleaseTells ==
  ASSUME NEW e \in Escrows, NEW d1, d1.contract = Token, NEW n,
         ~IsEmpty(e)', ~IsLocked(e)'
  PROVE  Tells(<<d1, Event(e, <<"release">>, n)>>)'
<1> DEFINE d == Event(e, <<"release">>, n)
<1>1. SpeaksOf(<<d1, d>>, e, "release", d)
  BY OneOfEscrow
<1> HIDE DEF d
<1> QED BY <1>1, NoEventTells DEF SpeaksOf, Tells, assert_emitted, d

(* What a step may do to the log. *)
LogEffect ==
  \/ \E p \in Seq(Events), panics \in BOOLEAN :
       Invoked(p, panics) /\ Accounts(p) /\ Tells(p)'
  \/ /\ UNCHANGED contracts
     /\ \/ PanicsBeforeCall \/ EnterClosure(balances) \/ events_during
        \/ Capture \/ UNCHANGED logVars

LEMMA SilentInLog ==
  ASSUME NEW panics \in BOOLEAN, Invoked(<<>>, panics), UNCHANGED contracts
  PROVE  LogEffect
<1>1. <<>> \in Seq(Events) /\ Accounts(<<>>) /\ Tells(<<>>)'
  BY ShortLogs, ShortFolds, SilentCall DEF Accounts, contracts, tokenVars
<1> QED BY <1>1 DEF LogEffect

LEMMA TrapsInLog == Traps => LogEffect
BY SilentInLog DEF Traps

LEMMA ReturnsInLog ==
  ASSUME NEW p \in Seq(Events), NEW panics \in BOOLEAN, Invoked(p, panics),
         Accounts(p), Tells(p)'
  PROVE  LogEffect
BY DEF LogEffect

(* A call that publishes one event of the token. *)
LEMMA TokenCallInLog ==
  ASSUME NEW d \in Events, d.contract = Token, NEW panics \in BOOLEAN,
         Invoked(<<d>>, panics), balances' = Applied(balances, d)
  PROVE  LogEffect
<1>1. <<d>> \in Seq(Events) /\ Accounts(<<d>>) /\ Tells(<<d>>)'
  BY ShortLogs, ShortFolds, SilentCall DEF Accounts
<1> QED BY <1>1, ReturnsInLog

(* A transfer of the token followed by an event of the escrow. *)
LEMMA EscrowCallAccounts ==
  ASSUME NEW h \in Holders, NEW to \in Holders, NEW e \in Escrows, NEW n \in Int,
         NEW topic \in {"deposit", "release"},
         transfer(h, to, n)
  PROVE  LET p == <<TransferEvent(h, to, n), Event(e, <<topic>>, n)>>
         IN  p \in Seq(Events) /\ Accounts(p)
<1> DEFINE d1 == TransferEvent(h, to, n)
           d2 == Event(e, <<topic>>, n)
<1>1. d1 \in Events /\ d2 \in Events
  BY EventsAreTyped
<1>2. balances' = Applied(balances, d1)
  BY AppliedEvents DEF transfer
<1>3. ASSUME NEW b PROVE Applied(b, d2) = b
  <2>1. \A t \in {"deposit", "release"} : \A m : Applied(b, Event(e, <<t>>, m)) = b
    BY AppliedEvents
  <2> QED BY <2>1
<1> HIDE DEF d1, d2
<1>4. <<d1, d2>> \in Seq(Events) /\ Accounts(<<d1, d2>>)
  BY <1>1, <1>2, <1>3, ShortLogs, ShortFolds DEF Accounts
<1> QED BY <1>4 DEF d1, d2

LEMMA LockedAmount ==
  ASSUME Inv, NEW e \in Escrows, IsLocked(e)
  PROVE  storage[e].amount \in Int
BY DEF Inv, EscrowTypeOK, IsLocked, Deposited

(* A payout leaves the escrow settled. *)
LEMMA PayOutSettles ==
  ASSUME Inv, NEW e \in Escrows, NEW to, PayOut(e, to)
  PROVE  ~IsEmpty(e)' /\ ~IsLocked(e)'
<1>1. /\ IsLocked(e) /\ storage[e] \in Deposited
      /\ storage' = [storage EXCEPT ![e] = [storage[e] EXCEPT !.settled = TRUE]]
  BY DEF PayOut, CanPayOut, Settled, Inv, EscrowTypeOK, IsLocked
<1> DEFINE paid == [storage[e] EXCEPT !.settled = TRUE]
<1>2. paid \in Deposited /\ paid.settled = TRUE
  BY <1>1, PaidUp
<1>3. storage'[e] = paid
  BY <1>1 DEF Inv, EscrowTypeOK
<1> HIDE DEF paid
<1> QED BY <1>2, <1>3 DEF IsEmpty, IsLocked

LEMMA NextInLog ==
  ASSUME Inv, Next
  PROVE  LogEffect
<1>0. /\ Actors \subseteq Holders /\ Escrows \subseteq Holders
      /\ Amounts \subseteq Int /\ Mints \subseteq Int /\ Offers \subseteq Int
  OBVIOUS
<1>1. ASSUME NEW h \in Holders, NEW n \in Int, MintRaw(h, n)
      PROVE  LogEffect
  <2> DEFINE panics == ~Tracks(h, n)
  <2>1. PICK q \in BOOLEAN : q = panics
    OBVIOUS
  <2> HIDE DEF panics
  <2>2. CASE CanCredit(h, n)
    <3>1. Invoked(<<MintEvent(h, n)>>, q) /\ balances' = Credited(balances, h, n)
      BY <1>1, <2>1, <2>2 DEF MintRaw, mint_raw, panics
    <3>2. MintEvent(h, n) \in Events /\ MintEvent(h, n).contract = Token
      BY EventsAreTyped DEF MintEvent, Event
    <3>3. balances' = Applied(balances, MintEvent(h, n))
      BY <3>1, AppliedEvents
    <3> QED BY <3>1, <3>2, <3>3, TokenCallInLog
  <2>3. CASE ~CanCredit(h, n)
    <3>1. Invoked(<<>>, q)
      BY <1>1, <2>1, <2>3 DEF MintRaw, panics
    <3>2. UNCHANGED contracts
      BY <1>1, <2>3 DEF MintRaw, mint_raw, Tracks, contracts, tokenVars
    <3> QED BY <3>1, <3>2, SilentInLog
  <2> QED BY <2>2, <2>3
<1>2. ASSUME NEW h \in Holders, NEW n \in Mints, Mint(h, n)
      PROVE  LogEffect
  <2>1. InBaseUnits(n) \in Int
    BY <1>0 DEF InBaseUnits
  <2>2. MintRaw(h, InBaseUnits(n)) \/ (PanicsBeforeCall /\ UNCHANGED contracts)
    BY <1>2 DEF Mint
  <2> QED BY <1>1, <2>1, <2>2 DEF LogEffect
<1>3. ASSUME NEW h \in Holders, NEW n \in Amounts, AssertBalance(h, n)
      PROVE  LogEffect
  <2>1. PICK q \in BOOLEAN : q = (balances[h] # n)
    OBVIOUS
  <2> QED BY <1>3, <2>1, SilentInLog DEF AssertBalance
<1>4. EnterEventsDuring \/ LeaveEventsDuring \/ TakeLog => LogEffect
  BY DEF EnterEventsDuring, LeaveEventsDuring, TakeLog, LogEffect
<1>5. ASSUME NEW h \in Actors, NEW n \in Amounts, Burn(h, n)
      PROVE  LogEffect
  <2>1. CASE burn(h, n) /\ Returns(<<BurnEvent(h, n)>>)
    <3>1. BurnEvent(h, n) \in Events /\ BurnEvent(h, n).contract = Token
      BY <1>0, EventsAreTyped DEF BurnEvent, Event
    <3>2. balances' = Applied(balances, BurnEvent(h, n))
      BY <2>1, AppliedEvents DEF burn
    <3> QED BY <2>1, <3>1, <3>2, TokenCallInLog DEF Returns
  <2> QED BY <1>5, <2>1, TrapsInLog DEF Burn
<1>6. ASSUME NEW h \in Holders, NEW to \in Holders, NEW n \in Int,
             transfer(h, to, n), Returns(<<TransferEvent(h, to, n)>>)
      PROVE  LogEffect
  <2>1. TransferEvent(h, to, n) \in Events /\ TransferEvent(h, to, n).contract = Token
    BY EventsAreTyped DEF TransferEvent, Event
  <2>2. balances' = Applied(balances, TransferEvent(h, to, n))
    BY <1>6, AppliedEvents DEF transfer
  <2> QED BY <1>6, <2>1, <2>2, TokenCallInLog DEF Returns
<1>7. ASSUME NEW h \in Actors, NEW to \in Holders, NEW n \in Amounts,
             Transfer(h, to, n)
      PROVE  LogEffect
  BY <1>0, <1>6, <1>7, TrapsInLog DEF Transfer
<1>8. ASSUME NEW e \in Escrows, NEW buyer \in Actors,
             NEW seller \in Actors, NEW n \in Offers,
             Deposit(e, buyer, seller, n)
      PROVE  LogEffect
  <2> DEFINE p == <<TransferEvent(buyer, e, n), Event(e, <<"deposit">>, n)>>
  <2>1. CASE deposit(e, buyer, seller, n) /\ Returns(p)
    <3>1. /\ transfer(buyer, e, n)
          /\ storage'[e] = [buyer |-> buyer, seller |-> seller, amount |-> n,
                            settled |-> FALSE]
          /\ n > 0
      BY <2>1 DEF deposit, CanDeposit, Inv, EscrowTypeOK
    <3>2. p \in Seq(Events) /\ Accounts(p)
      BY <1>0, <3>1, EscrowCallAccounts
    <3>3. storage'[e].amount = n /\ ~storage'[e].settled
      BY <3>1
    <3>4. IsLocked(e)'
      <4>1. balances[e] \in 0..MaxAmount /\ balances[e] + n <= MaxAmount
        BY <3>1 DEF Inv, transfer, CanTransfer, CanCredit
      <4>2. storage'[e] \in Deposited
        BY <1>0, <3>1, <4>1 DEF Deposited
      <4> QED BY <3>3, <4>2 DEF IsLocked
    <3>5. TransferEvent(buyer, e, n).contract = Token
      BY DEF TransferEvent, Event
    <3>6. Tells(p)'
      BY <3>3, <3>4, <3>5, DepositTells
    <3> HIDE DEF p
    <3> QED BY <2>1, <3>2, <3>6, ReturnsInLog DEF Returns
  <2> QED BY <1>8, <2>1, TrapsInLog DEF Deposit
<1>9. ASSUME NEW e \in Escrows, NEW to \in Actors, PayOut(e, to),
             \/ Returns(<<TransferEvent(e, to, storage[e].amount)>>)
             \/ Returns(<<TransferEvent(e, to, storage[e].amount),
                          Event(e, <<"release">>, storage[e].amount)>>)
      PROVE  LogEffect
  <2>1. PICK n \in Int : n = storage[e].amount
    BY <1>9, LockedAmount DEF PayOut, CanPayOut
  <2>2. transfer(e, to, n)
    BY <1>9, <2>1 DEF PayOut
  <2>3. CASE Returns(<<TransferEvent(e, to, n)>>)
    BY <1>0, <1>6, <2>2, <2>3
  <2> DEFINE p == <<TransferEvent(e, to, n), Event(e, <<"release">>, n)>>
  <2>4. CASE Returns(p)
    <3>1. p \in Seq(Events) /\ Accounts(p)
      BY <1>0, <2>2, EscrowCallAccounts
    <3>2. TransferEvent(e, to, n).contract = Token
      BY DEF TransferEvent, Event
    <3>3. Tells(p)'
      BY <1>9, <3>2, PayOutSettles, ReleaseTells
    <3> HIDE DEF p
    <3> QED BY <2>4, <3>1, <3>3, ReturnsInLog DEF Returns
  <2> QED BY <1>9, <2>1, <2>3, <2>4
<1>10. ASSUME NEW e \in Escrows,
              Release(e) \/ Refund(e) \/ WithdrawUnchecked(e)
       PROVE  LogEffect
  BY <1>9, <1>10, TrapsInLog, PartiesAreActors DEF Release, Refund, WithdrawUnchecked
<1>11. Kit => LogEffect
  BY <1>0, <1>1, <1>2, <1>3, <1>4 DEF Kit
<1>12. Calls => LogEffect
  BY <1>5, <1>7, <1>8, <1>10, TrapsInLog DEF Calls, Unauthorized
<1> QED BY <1>11, <1>12 DEF Next

--------------------------------------------------------------------------------
(* What the log keeps *)

LEMMA InitLog == Init => LogInv
BY DEF Init, LogInit, LogInv, NoClosure

LEMMA InvokedKeepsLog ==
  ASSUME LogInv, NEW p \in Seq(Events), NEW panics \in BOOLEAN, Invoked(p, panics)
  PROVE  LogInv'
<1>1. events' = p /\ returned' = returned /\ returned \in Seq(Events)
  BY DEF Invoked, Kept, LogInv
<1>3. CASE during' = NoClosure
  BY <1>1, <1>3 DEF LogInv
<1>4. CASE during' # NoClosure
  <2>1. /\ during # NoClosure /\ during \in Closures
        /\ during' = [during EXCEPT !.calls = @ + 1, !.published = @ \o p]
    BY <1>4 DEF Invoked, LogInv
  <2> DEFINE calls == during.calls + 1
             published == during.published \o p
  <2>2. /\ during.calls \in Nat /\ during.published \in Seq(Events)
        /\ calls \in Nat /\ published \in Seq(Events)
    BY <2>1, ConcatProperties DEF Closures
  <2>3. /\ during' = [during EXCEPT !.calls = calls, !.published = published]
        /\ during \in Closures
    BY <2>1
  <2> HIDE DEF calls, published
  <2>4. /\ during' \in Closures
        /\ during'.calls = calls /\ during'.published = published
    BY <2>2, <2>3 DEF Closures
  <2> USE DEF calls, published
  <2>5. calls = 1 => p = published
    <3>1. calls = 1 => during.published = <<>>
      BY <2>1, <2>2 DEF LogInv
    <3> QED BY <3>1, <2>2, ConcatEmptySeq
  <2>6. \E u \in Seq(Events) : published = u \o p
    BY <2>2
  <2>7. calls # 0
    BY <2>2
  <2> HIDE DEF calls, published
  <2> QED BY <1>1, <2>4, <2>5, <2>6, <2>7 DEF LogInv
<1> QED BY <1>3, <1>4

LEMMA EffectKeepsLog ==
  ASSUME Inv, LogInv, LogEffect
  PROVE  LogInv'
<1>1. CASE PanicsBeforeCall
  BY <1>1 DEF PanicsBeforeCall, LogInv
<1>2. CASE EnterClosure(balances)
  <2>1. balances \in [Holders -> Int]
    BY DEF Inv
  <2>2. during' = [before |-> balances, calls |-> 0, published |-> <<>>]
    BY <1>2 DEF EnterClosure
  <2>3. during' \in Closures /\ during'.calls = 0 /\ during'.published = <<>>
    BY <2>1, <2>2 DEF Closures
  <2>4. UNCHANGED <<events, returned>>
    BY <1>2 DEF EnterClosure
  <2> QED BY <2>3, <2>4 DEF LogInv
<1>3. CASE events_during
  BY <1>3 DEF events_during, LogInv
<1>4. CASE Capture
  BY <1>4 DEF Capture, LogInv
<1>5. CASE UNCHANGED logVars
  BY <1>5 DEF logVars, LogInv
<1> QED BY <1>1, <1>2, <1>3, <1>4, <1>5, InvokedKeepsLog DEF LogEffect

LEMMA ReturnsTail ==
  ASSUME LogInv, events_during, during.calls > 0
  PROVE  /\ IsSuffix(returned', during.published)
         /\ during.calls = 1 => returned' = during.published
<1>1. during # NoClosure /\ returned' = events /\ events \in Seq(Events)
  BY DEF events_during, LogInv
<1>2. IsSuffix(events, during.published)
  BY <1>1, EndIsSuffix DEF LogInv
<1>3. during.calls = 1 => events = during.published
  BY <1>1 DEF LogInv
<1> QED BY <1>1, <1>2, <1>3

LEMMA LogInvHolds == Spec => []LogInv
<1>1. Inv /\ LogInv /\ [Next]_vars => LogInv'
  <2>1. Inv /\ LogInv /\ Next => LogInv'
    BY NextInLog, EffectKeepsLog
  <2>2. Inv /\ LogInv /\ UNCHANGED vars => LogInv'
    <3>1. UNCHANGED vars => UNCHANGED logVars /\ UNCHANGED contracts
      BY DEF vars, contracts
    <3> QED BY <3>1, EffectKeepsLog DEF LogEffect
  <2> QED BY <2>1, <2>2
<1> QED BY <1>1, InitLog, InvHolds, PTL DEF Spec

(* The log events_during returns is the end of what its closure published, *)
(* and all of it if that made a single call, for closures of any length    *)
(* that call anything and panic anywhere (capture.rs, events_during).      *)
THEOREM LogHolds == Spec => LogIsTail
<1>1. LogInv =>
        [events_during /\ during.calls > 0 =>
           /\ IsSuffix(returned', during.published)
           /\ during.calls = 1 => returned' = during.published]_logVars
  BY ReturnsTail
<1> QED BY <1>1, LogInvHolds, PTL DEF LogIsTail

--------------------------------------------------------------------------------
(* What a log says *)

(* A closure's events account for the balances so far. *)
AccountInv ==
  during # NoClosure => balances = Fold!Folded(during.before, during.published)

(* The host's log tells the state now, the test's what lasts of it.        *)
TellInv == Tells(events) /\ StillTells(returned)

LEMMA EffectAccounts ==
  ASSUME LogInv, AccountInv, LogEffect
  PROVE  AccountInv'
<1>1. ASSUME NEW p \in Seq(Events), NEW panics \in BOOLEAN, Invoked(p, panics), Accounts(p)
      PROVE  AccountInv'
  <2>2. CASE during' = NoClosure
    BY <2>2 DEF AccountInv
  <2>3. CASE during' # NoClosure
    <3>1. /\ during # NoClosure /\ during \in Closures
          /\ during' = [during EXCEPT !.calls = @ + 1, !.published = @ \o p]
      BY <1>1, <2>3 DEF Invoked, LogInv
    <3>2. /\ during'.before = during.before
          /\ during'.published = during.published \o p
          /\ during.published \in Seq(Events)
      BY <3>1 DEF Closures
    <3>3. balances = Fold!Folded(during.before, during.published)
      BY <3>1 DEF AccountInv
    <3>4. Fold!Folded(during.before, during.published \o p)
            = Fold!Folded(Fold!Folded(during.before, during.published), p)
      BY <1>1, <3>2, Fold!FoldOfConcat
    <3>5. balances' = Fold!Folded(during'.before, during'.published)
      BY <1>1, <3>2, <3>3, <3>4 DEF Accounts
    <3> QED BY <3>5 DEF AccountInv
  <2> QED BY <2>2, <2>3
<1>2. ASSUME UNCHANGED contracts, PanicsBeforeCall
      PROVE  AccountInv'
  BY <1>2 DEF PanicsBeforeCall, AccountInv
<1>3. ASSUME UNCHANGED contracts, EnterClosure(balances)
      PROVE  AccountInv'
  <2>1. /\ during'.before = balances /\ during'.published = <<>>
        /\ balances' = balances
    BY <1>3 DEF EnterClosure, contracts, tokenVars
  <2>2. Fold!Folded(balances, <<>>) = balances
    BY ShortFolds
  <2> QED BY <2>1, <2>2 DEF AccountInv
<1>4. ASSUME UNCHANGED contracts, events_during
      PROVE  AccountInv'
  BY <1>4 DEF events_during, AccountInv
<1>5. ASSUME UNCHANGED contracts, Capture \/ UNCHANGED logVars
      PROVE  AccountInv'
  BY <1>5 DEF contracts, tokenVars, Capture, logVars, AccountInv
<1> QED BY <1>1, <1>2, <1>3, <1>4, <1>5 DEF LogEffect

(* An escrow once deposited to stays so, in its amount; settled once, it   *)
(* stays settled.                                                          *)
OneWay(e) ==
  ~IsEmpty(e) => /\ ~IsEmpty(e)'
                 /\ storage'[e].amount = storage[e].amount
                 /\ ~IsLocked(e) => ~IsLocked(e)'

LEMMA EffectIsOneWay ==
  ASSUME Inv, Effect, NEW d \in Escrows
  PROVE  OneWay(d)
<1>1. CASE Gift
  BY <1>1 DEF Gift, OneWay, IsEmpty, IsLocked
<1>2. ASSUME NEW e \in Escrows, Locks(e)
      PROVE  OneWay(d)
  <2>1. IsEmpty(e) /\ (d # e => storage'[d] = storage[d])
    BY <1>2 DEF Locks, Inv, EscrowTypeOK
  <2> QED BY <2>1 DEF OneWay, IsEmpty, IsLocked
<1>3. ASSUME NEW e \in Escrows, Pays(e)
      PROVE  OneWay(d)
  <2>1. /\ storage[e] \in Deposited
        /\ storage' = [storage EXCEPT ![e] = [storage[e] EXCEPT !.settled = TRUE]]
    BY <1>3 DEF Pays, Settled, Inv, EscrowTypeOK, IsLocked
  <2> DEFINE paid == [storage[e] EXCEPT !.settled = TRUE]
  <2>2. paid \in Deposited /\ paid.settled = TRUE /\ paid.amount = storage[e].amount
    BY <2>1, PaidUp
  <2>3. storage'[d] = IF d = e THEN paid ELSE storage[d]
    BY <2>1 DEF Inv, EscrowTypeOK
  <2> HIDE DEF paid
  <2> QED BY <2>2, <2>3 DEF OneWay, IsEmpty, IsLocked
<1> QED BY <1>1, <1>2, <1>3 DEF Effect

LEMMA StillTellsLater ==
  ASSUME Inv, Effect, NEW log, StillTells(log), NEW p, p = returned', p = log
  PROVE  StillTells(returned)'
<1>1. \A e \in Escrows : OneWay(e)
  BY EffectIsOneWay
<1> QED BY <1>1 DEF StillTells, OneWay

LEMMA TellsStill == ASSUME NEW log, Tells(log) PROVE StillTells(log)
BY DEF Tells, StillTells, IsLocked, IsEmpty

LEMMA SameTells ==
  ASSUME UNCHANGED contracts, NEW p, events' = p, events = p
  PROVE  Tells(events)' <=> Tells(events)
BY DEF contracts, Tells, IsLocked, IsEmpty

LEMMA EffectTells ==
  ASSUME Inv, Effect, TellInv, LogEffect
  PROVE  TellInv'
<1>1. ASSUME UNCHANGED returned
      PROVE  StillTells(returned)'
  BY <1>1, StillTellsLater DEF TellInv
<1>2. ASSUME NEW p \in Seq(Events), NEW panics \in BOOLEAN, Invoked(p, panics), Tells(p)'
      PROVE  TellInv'
  <2>1. events' = p /\ UNCHANGED returned
    BY <1>2 DEF Invoked, Kept
  <2>2. Tells(events)'
    BY <1>2, <2>1 DEF Tells
  <2> QED BY <1>1, <2>1, <2>2 DEF TellInv
<1>3. ASSUME UNCHANGED contracts, PanicsBeforeCall \/ EnterClosure(balances) \/ UNCHANGED logVars
      PROVE  TellInv'
  <2>1. UNCHANGED events /\ UNCHANGED returned
    BY <1>3 DEF PanicsBeforeCall, EnterClosure, logVars
  <2> QED BY <1>1, <1>3, <2>1, SameTells DEF TellInv
<1>4. ASSUME UNCHANGED contracts, events_during \/ Capture
      PROVE  TellInv'
  <2>1. events' = events /\ returned' = events
    BY <1>4 DEF events_during, Capture
  <2>2. StillTells(returned)'
    BY <2>1, TellsStill, StillTellsLater DEF TellInv
  <2> QED BY <1>4, <2>1, <2>2, SameTells DEF TellInv
<1> QED BY <1>2, <1>3, <1>4 DEF LogEffect

LEMMA InitSays == Init => AccountInv /\ TellInv
<1> SUFFICES ASSUME Init PROVE AccountInv /\ TellInv
  OBVIOUS
<1>1. events = <<>> /\ during = NoClosure /\ returned = <<>>
  BY DEF Init, LogInit
<1>2. \A e \in Escrows : from(<<>>, e) = <<>>
  BY ShortFrom
<1>3. Tells(<<>>)
  BY <1>2, NoEventTells DEF Tells
<1> QED BY <1>1, <1>3, TellsStill DEF AccountInv, TellInv

SaysInv == Inv /\ LogInv /\ AccountInv /\ TellInv

LEMMA AlwaysSays == Spec => []SaysInv
<1>1. Init => SaysInv
  BY InitInv, InitLog, InitSays DEF SaysInv
<1>2. SaysInv /\ [Next]_vars => SaysInv'
  <2>1. SaysInv /\ Next => SaysInv'
    BY NextHasEffect, EffectKeepsInv, NextInLog, EffectKeepsLog, EffectAccounts,
       EffectTells DEF SaysInv
  <2>2. SaysInv /\ UNCHANGED vars => SaysInv'
    <3> SUFFICES ASSUME SaysInv, UNCHANGED vars PROVE SaysInv'
      OBVIOUS
    <3>1. UNCHANGED logVars /\ UNCHANGED contracts
      BY DEF vars, contracts
    <3>2. LogEffect /\ Effect
      BY <3>1, NothingMoves DEF LogEffect, SaysInv
    <3> QED BY <3>2, StutterKeepsInv, EffectKeepsLog, EffectAccounts, EffectTells DEF SaysInv
  <2> QED BY <2>1, <2>2
<1> QED BY <1>1, <1>2, PTL DEF Spec

LEMMA FoldIsFolded ==
  ASSUME NEW b, NEW p
  PROVE  FoldLeft(Applied, b, p) = Fold!Folded(b, p)
BY DEF FoldLeft, MapThenFoldSet, Max, Fold!Folded, Fold!FoldLeft,
   Fold!MapThenFoldSet, Fold!Max

(* What the host holds after a step is what it did to the balances. *)
LEMMA StepAccounts ==
  ASSUME LogEffect, <<events, balances>>' # <<events, balances>>
  PROVE  balances' = Fold!Folded(balances, events')
<1>1. ASSUME NEW p \in Seq(Events), NEW panics \in BOOLEAN, Invoked(p, panics), Accounts(p)
      PROVE  balances' = Fold!Folded(balances, events')
  BY <1>1 DEF Invoked, Kept, Accounts
<1>2. ASSUME UNCHANGED contracts,
             \/ PanicsBeforeCall \/ EnterClosure(balances) \/ events_during
             \/ Capture \/ UNCHANGED logVars
      PROVE  FALSE
  BY <1>2 DEF contracts, tokenVars, PanicsBeforeCall, EnterClosure, events_during,
     Capture, logVars
<1> QED BY <1>1, <1>2 DEF LogEffect

LEMMA ClosureAccounts ==
  ASSUME LogInv, AccountInv, events_during
  PROVE  /\ balances = Fold!Folded(during.before, during.published)
         /\ during.calls = 1 => balances = Fold!Folded(during.before, returned')
<1>1. during # NoClosure /\ returned' = events
  BY DEF events_during
<1>2. during.calls = 1 => events = during.published
  BY <1>1 DEF LogInv
<1> QED BY <1>1, <1>2 DEF AccountInv

(* The host's log accounts for every call, failed and half-failed ones     *)
(* included; a closure's events take the balances it found to those it     *)
(* left, and so does the log returned for a single call (sac.rs,           *)
(* capture.rs).                                                            *)
THEOREM EventsAccount == Spec => EventsAccountForBalances
<1>1. SaysInv /\ [Next]_vars =>
        [/\ <<events, balances>>' # <<events, balances>> =>
              balances' = FoldLeft(Applied, balances, events')
         /\ events_during =>
              /\ balances = FoldLeft(Applied, during.before, during.published)
              /\ during.calls = 1 =>
                   balances = FoldLeft(Applied, during.before, returned')]_vars
  BY NextInLog, StepAccounts, ClosureAccounts, FoldIsFolded DEF SaysInv
<1> QED BY <1>1, AlwaysSays, PTL DEF Spec, EventsAccountForBalances

(* A log the test keeps stays true of the escrows, whatever is called      *)
(* after it was taken, and a deposit the host still holds is locked        *)
(* (assertions.rs, lib.rs).                                                *)
THEOREM LogsTellState == Spec => []EventsTellState
<1>1. SaysInv => EventsTellState
  BY DEF SaysInv, TellInv, Tells, EventsTellState
<1> QED BY <1>1, AlwaysSays, PTL

--------------------------------------------------------------------------------
(* The types *)

Counts == total_tracked \in 0..MaxAmount /\ burned \in 0..MaxBurned

CallsWithin == during = NoClosure \/ during.calls \in 0..MaxCalls

LEMMA MintCounts ==
  ASSUME Inv, Counts, NEW to \in Holders, NEW amount \in Int, mint_raw(to, amount)
  PROVE  Counts'
BY DEF Counts, mint_raw, Tracks, CanCredit

LEMMA TransferCounts ==
  ASSUME Counts, NEW payer, NEW to, NEW amount, transfer(payer, to, amount)
  PROVE  Counts'
BY DEF Counts, transfer

LEMMA SameCounts == Counts /\ UNCHANGED contracts => Counts'
BY DEF Counts, contracts, tokenVars

LEMMA NextCounts ==
  ASSUME Inv, Counts, Next
  PROVE  Counts'
<1>0. Amounts \subseteq Int /\ Mints \subseteq Int
  OBVIOUS
<1>1. ASSUME NEW h \in Holders, NEW n \in Mints, MintRaw(h, n) \/ Mint(h, n)
      PROVE  Counts'
  <2>1. n \in Int /\ InBaseUnits(n) \in Int
    BY <1>0 DEF InBaseUnits
  <2> QED BY <1>1, <2>1, MintCounts, SameCounts DEF Mint, MintRaw
<1>2. ASSUME NEW h \in Actors, NEW n \in Amounts, Burn(h, n)
      PROVE  Counts'
  <2>1. CASE Traps
    BY <2>1, SameCounts DEF Traps
  <2>2. CASE burn(h, n) /\ burned + n <= MaxBurned
    BY <1>0, <2>2 DEF Counts, burn, CanDebit
  <2> QED BY <1>2, <2>1, <2>2 DEF Burn
<1>3. Traps => Counts'
  BY SameCounts DEF Traps
<1>4. ASSUME NEW h, NEW to, NEW n, Transfer(h, to, n)
      PROVE  Counts'
  BY <1>3, <1>4, TransferCounts DEF Transfer
<1>5. ASSUME NEW e, NEW buyer, NEW seller, NEW n,
             Deposit(e, buyer, seller, n)
      PROVE  Counts'
  BY <1>3, <1>5, TransferCounts DEF Deposit, deposit
<1>6. ASSUME NEW e,
             Release(e) \/ Refund(e) \/ WithdrawUnchecked(e)
      PROVE  Counts'
  <2>1. ASSUME NEW to, PayOut(e, to)
        PROVE  Counts'
    BY <2>1, TransferCounts DEF PayOut
  <2> QED BY <1>3, <1>6, <2>1 DEF Release, Refund, WithdrawUnchecked
<1>7. Kit => Counts'
  BY <1>1, SameCounts DEF Kit, AssertBalance, EnterEventsDuring, LeaveEventsDuring,
     TakeLog
<1>8. Calls => Counts'
  BY <1>2, <1>3, <1>4, <1>5, <1>6 DEF Calls, Unauthorized
<1> QED BY <1>7, <1>8 DEF Next

LEMMA LogEffectCalls ==
  ASSUME LogInv, CallsWithin, LogEffect
  PROVE  CallsWithin'
<1> USE LogAssumption
<1>1. ASSUME NEW p, NEW panics, Invoked(p, panics)
      PROVE  CallsWithin'
  <2>1. CASE during' = NoClosure
    BY <1>1, <2>1 DEF Invoked, CallsWithin
  <2>2. CASE during' # NoClosure
    <3>1. /\ during # NoClosure /\ during.calls < MaxCalls
          /\ during' = [during EXCEPT !.calls = @ + 1, !.published = @ \o p]
          /\ during \in Closures
      BY <1>1, <2>2 DEF Invoked, CanCall, LogInv
    <3>2. during'.calls = during.calls + 1 /\ during.calls \in Nat
      BY <3>1 DEF Closures
    <3>3. during'.calls \in 0..MaxCalls
      BY <3>1, <3>2
    <3> QED BY <1>1, <3>3 DEF Invoked, CallsWithin
  <2> QED BY <2>1, <2>2
<1>2. CASE PanicsBeforeCall
  BY <1>2 DEF PanicsBeforeCall, CallsWithin
<1>3. CASE EnterClosure(balances)
  <2>1. during'.calls = 0
    BY <1>3 DEF EnterClosure
  <2> QED BY <2>1 DEF CallsWithin
<1>4. CASE events_during
  BY <1>4 DEF events_during, CallsWithin
<1>5. CASE Capture \/ UNCHANGED logVars
  BY <1>5 DEF Capture, logVars, CallsWithin
<1> QED BY <1>1, <1>2, <1>3, <1>4, <1>5 DEF LogEffect

TypeInv == Inv /\ LogInv /\ Counts /\ CallsWithin

LEMMA TypesFollow == TypeInv => TypeOK
<1> SUFFICES ASSUME TypeInv PROVE TypeOK
  OBVIOUS
<1>1. TokenTypeOK /\ EscrowTypeOK
  BY DEF TypeInv, Inv, Counts, TokenTypeOK
<1>2. ASSUME NEW log \in {events, returned}, NEW i \in DOMAIN log
      PROVE  DOMAIN log[i] = {"contract", "topics", "data"}
  <2>1. log[i] \in Events
    BY DEF TypeInv, LogInv
  <2> QED BY <2>1 DEF Events
<1>3. LogTypeOK
  BY <1>2 DEF TypeInv, CallsWithin, LogTypeOK
<1> QED BY <1>1, <1>3 DEF TypeInv, TypeOK

(* Balances, counters, escrows, the log and its closure keep their types,  *)
(* for every width, every number of holders and every bound.               *)
THEOREM TypeCorrect == Spec => []TypeOK
<1>1. Init => TypeInv
  <2>1. Init => Counts
    BY DEF Init, TokenInit, Counts
  <2>2. Init => CallsWithin
    BY DEF Init, LogInit, CallsWithin
  <2> QED BY <2>1, <2>2, InitInv, InitLog DEF TypeInv
<1>2. TypeInv /\ [Next]_vars => TypeInv'
  <2>1. TypeInv /\ Next => TypeInv'
    <3> SUFFICES ASSUME TypeInv, Next PROVE TypeInv'
      OBVIOUS
    <3>1. Inv' /\ LogInv' /\ CallsWithin'
      BY NextHasEffect, EffectKeepsInv, NextInLog, EffectKeepsLog, LogEffectCalls
         DEF TypeInv
    <3>2. Counts'
      BY NextCounts DEF TypeInv
    <3> QED BY <3>1, <3>2 DEF TypeInv
  <2>2. TypeInv /\ UNCHANGED vars => TypeInv'
    <3> SUFFICES ASSUME TypeInv, UNCHANGED vars PROVE TypeInv'
      OBVIOUS
    <3>1. UNCHANGED logVars /\ UNCHANGED contracts
      BY DEF vars, contracts
    <3>2. Inv' /\ LogInv' /\ CallsWithin' /\ Counts'
      BY <3>1, StutterKeepsInv, EffectKeepsLog, LogEffectCalls, SameCounts
         DEF TypeInv, LogEffect
    <3> QED BY <3>1, <3>2 DEF TypeInv
  <2> QED BY <2>1, <2>2
<1> QED BY <1>1, <1>2, TypesFollow, PTL DEF Spec

--------------------------------------------------------------------------------
(* The supply *)

LEMMA SupplyIsTotal ==
  /\ Supply = Fold!Total(balances, Holders)
  /\ Supply' = Fold!Total(balances', Holders)
<1>1. Supply = Fold!Total(balances, Holders)
  BY DEF Supply, MapThenSumSet, MapThenFoldSet, Fold!Total, Fold!MapThenSumSet,
     Fold!MapThenFoldSet
<1>2. Supply' = Fold!Total(balances', Holders)
  BY DEF Supply, MapThenSumSet, MapThenFoldSet, Fold!Total, Fold!MapThenSumSet,
     Fold!MapThenFoldSet
<1> QED BY <1>1, <1>2

LEMMA HoldersAreFinite == Fold!IsFiniteSet(Holders)
BY DEF IsFiniteSet, Fold!IsFiniteSet

(* What crediting one holder does to the sum. *)
LEMMA CreditedTotal ==
  ASSUME NEW b \in [Holders -> Int], NEW h \in Holders, NEW amount \in Int
  PROVE  /\ Credited(b, h, amount) \in [Holders -> Int]
         /\ Fold!Total(b, Holders) \in Int
         /\ Fold!Total(Credited(b, h, amount), Holders) = Fold!Total(b, Holders) + amount
<1> DEFINE v == b[h] + amount
           t == Fold!Total(b, Holders)
           u == Fold!Total(Credited(b, h, amount), Holders)
<1>1. b[h] \in Int /\ v \in Int
  OBVIOUS
<1>2. Credited(b, h, amount) = [b EXCEPT ![h] = v]
  BY DEF Credited
<1> HIDE DEF v
<1>4. t \in Int
  BY HoldersAreFinite, Fold!TotalTyped
<1>5. u = t - b[h] + v
  <2> DEFINE c == Credited(b, h, amount)
  <2>1. c \in [Holders -> Int] /\ c[h] = v /\ \A y \in Holders \ {h} : b[y] = c[y]
    BY <1>1, <1>2
  <2> HIDE DEF c, u, t
  <2>2. Fold!Total(c, Holders) = Fold!Total(b, Holders) - b[h] + c[h]
    BY <2>1, HoldersAreFinite, Fold!TotalUpdated
  <2> QED BY <2>1, <2>2 DEF c, t, u
<1>6. Credited(b, h, amount) \in [Holders -> Int]
  BY <1>1, <1>2
<1> HIDE DEF t, u
<1>7. u = t + amount
  BY <1>1, <1>4, <1>5 DEF v
<1> QED BY <1>4, <1>6, <1>7 DEF t, u

SupplyInv == Counts /\ TrackedIsSupply

LEMMA SupplyTyped == Inv => Supply \in Int
<1> SUFFICES ASSUME Inv PROVE Supply \in Int
  OBVIOUS
<1>1. balances \in [Holders -> Int]
  BY DEF Inv
<1>2. Fold!Total(balances, Holders) \in Int
  BY <1>1, HoldersAreFinite, Fold!TotalTyped
<1> QED BY <1>2, SupplyIsTotal

LEMMA MintTracks ==
  ASSUME Inv, SupplyInv, NEW to \in Holders, NEW amount \in Int, mint_raw(to, amount)
  PROVE  TrackedIsSupply'
<1> DEFINE s == Supply
           t == Supply'
<1>1. balances \in [Holders -> Int]
  BY DEF Inv
<1>2. s \in Int
  BY SupplyTyped
<1>3. t = IF CanCredit(to, amount) THEN s + amount ELSE s
  <2>1. CASE CanCredit(to, amount)
    <3>1. balances' = Credited(balances, to, amount)
      BY <2>1 DEF mint_raw
    <3> QED BY <1>1, <2>1, <3>1, CreditedTotal, SupplyIsTotal
  <2>2. CASE ~CanCredit(to, amount)
    <3>1. balances' = balances
      BY <2>2 DEF mint_raw
    <3> QED BY <2>2, <3>1, SupplyIsTotal
  <2> QED BY <2>1, <2>2
<1>4. /\ burned' = burned /\ burned \in Int /\ total_tracked \in Int
      /\ total_tracked' = IF CanCredit(to, amount) /\ total_tracked + amount <= MaxAmount
                          THEN total_tracked + amount ELSE total_tracked
  BY DEF mint_raw, SupplyInv, Counts, Tracks
<1>5. CanCredit(to, amount) => amount >= 0
  BY DEF CanCredit
<1>6. IF s + burned <= MaxAmount THEN total_tracked = s + burned
                                 ELSE total_tracked < s + burned
  BY DEF SupplyInv, TrackedIsSupply
<1> HIDE DEF s, t
<1> DEFINE can == CanCredit(to, amount)
<1> HIDE DEF can
<1>7. IF t + burned <= MaxAmount THEN total_tracked' = t + burned
                                 ELSE total_tracked' < t + burned
  <2>1. CASE can
    BY <1>2, <1>3, <1>4, <1>5, <1>6, <2>1 DEF can
  <2>2. CASE ~can
    BY <1>2, <1>3, <1>4, <1>6, <2>2 DEF can
  <2> QED BY <2>1, <2>2
<1> QED BY <1>4, <1>7 DEF TrackedIsSupply, t

LEMMA TransferTracks ==
  ASSUME Inv, TrackedIsSupply, NEW payer \in Holders, NEW to \in Holders,
         NEW amount \in Int, transfer(payer, to, amount)
  PROVE  TrackedIsSupply'
<1> DEFINE b == Credited(balances, payer, -amount)
<1>1. balances \in [Holders -> Int] /\ -amount \in Int
  BY DEF Inv
<1>2. balances' = Credited(b, to, amount)
  BY DEF transfer, Transferred
<1>3. /\ b \in [Holders -> Int] /\ Fold!Total(balances, Holders) \in Int
      /\ Fold!Total(b, Holders) = Fold!Total(balances, Holders) + (-amount)
  BY <1>1, CreditedTotal
<1> HIDE DEF b
<1>4. Fold!Total(balances', Holders) = Fold!Total(b, Holders) + amount
  BY <1>2, <1>3, CreditedTotal
<1>5. Fold!Total(balances', Holders) = Fold!Total(balances, Holders)
  BY <1>3, <1>4
<1>6. Supply' = Supply /\ UNCHANGED <<total_tracked, burned>>
  BY <1>5, SupplyIsTotal DEF transfer
<1> QED BY <1>6 DEF TrackedIsSupply

LEMMA BurnTracks ==
  ASSUME Inv, SupplyInv, NEW h \in Holders, NEW amount \in Int, burn(h, amount)
  PROVE  TrackedIsSupply'
<1>1. balances \in [Holders -> Int] /\ -amount \in Int
  BY DEF Inv
<1>2. balances' = Credited(balances, h, -amount)
  BY DEF burn
<1>3. Supply \in Int /\ Supply' = Supply + (-amount)
  BY <1>1, <1>2, CreditedTotal, SupplyIsTotal
<1>4. burned' = burned + amount /\ burned \in Int /\ total_tracked' = total_tracked
  BY DEF burn, SupplyInv, Counts
<1>5. Supply' + burned' = Supply + burned
  BY <1>3, <1>4
<1> QED BY <1>4, <1>5 DEF SupplyInv, TrackedIsSupply

LEMMA SameTracks == TrackedIsSupply /\ UNCHANGED contracts => TrackedIsSupply'
<1> SUFFICES ASSUME TrackedIsSupply, UNCHANGED contracts PROVE TrackedIsSupply'
  OBVIOUS
<1>1. UNCHANGED <<balances, total_tracked, burned>>
  BY DEF contracts, tokenVars
<1>2. Supply' = Supply
  BY <1>1, SupplyIsTotal
<1> QED BY <1>1, <1>2 DEF TrackedIsSupply

LEMMA NextTracks ==
  ASSUME Inv, SupplyInv, Next
  PROVE  TrackedIsSupply'
<1>0. /\ Amounts \subseteq Int /\ Mints \subseteq Int /\ Offers \subseteq Int
      /\ Actors \subseteq Holders /\ Escrows \subseteq Holders /\ TrackedIsSupply
  BY DEF SupplyInv
<1>1. ASSUME NEW h \in Holders, NEW n \in Mints, MintRaw(h, n) \/ Mint(h, n)
      PROVE  TrackedIsSupply'
  <2>1. n \in Int /\ InBaseUnits(n) \in Int
    BY <1>0 DEF InBaseUnits
  <2> QED BY <1>0, <1>1, <2>1, MintTracks, SameTracks DEF Mint, MintRaw
<1>2. Traps => TrackedIsSupply'
  BY <1>0, SameTracks DEF Traps
<1>3. ASSUME NEW h \in Actors, NEW n \in Amounts, Burn(h, n)
      PROVE  TrackedIsSupply'
  BY <1>0, <1>2, <1>3, BurnTracks DEF Burn
<1>4. ASSUME NEW h \in Actors, NEW to \in Holders, NEW n \in Amounts,
             Transfer(h, to, n)
      PROVE  TrackedIsSupply'
  BY <1>0, <1>2, <1>4, TransferTracks DEF Transfer
<1>5. ASSUME NEW e \in Escrows, NEW buyer \in Actors, NEW seller \in Actors,
             NEW n \in Offers, Deposit(e, buyer, seller, n)
      PROVE  TrackedIsSupply'
  BY <1>0, <1>2, <1>5, TransferTracks DEF Deposit, deposit
<1>6. ASSUME NEW e \in Escrows,
             Release(e) \/ Refund(e) \/ WithdrawUnchecked(e)
      PROVE  TrackedIsSupply'
  <2>1. ASSUME NEW to \in Actors, PayOut(e, to)
        PROVE  TrackedIsSupply'
    <3>1. storage[e].amount \in Int
      BY <2>1, LockedAmount DEF PayOut, CanPayOut
    <3> QED BY <1>0, <2>1, <3>1, TransferTracks DEF PayOut
  <2> QED BY <1>2, <1>6, <2>1, PartiesAreActors DEF Release, Refund, WithdrawUnchecked
<1>7. Kit => TrackedIsSupply'
  BY <1>0, <1>1, SameTracks DEF Kit, AssertBalance, EnterEventsDuring, LeaveEventsDuring,
     TakeLog
<1>8. Calls => TrackedIsSupply'
  BY <1>2, <1>3, <1>4, <1>5, <1>6 DEF Calls, Unauthorized
<1> QED BY <1>7, <1>8 DEF Next

LEMMA InitTracks == Init => SupplyInv
<1> SUFFICES ASSUME Init PROVE SupplyInv
  OBVIOUS
<1>1. balances = [h \in Holders |-> 0] /\ total_tracked = 0 /\ burned = 0
  BY DEF Init, TokenInit
<1>2. Supply = 0
  BY <1>1, SupplyIsTotal, HoldersAreFinite, Fold!TotalOfZeroes
<1> QED BY <1>1, <1>2 DEF SupplyInv, Counts, TrackedIsSupply

(* total_tracked is the supply plus what holders burned, after any mints,  *)
(* refused ones and half-failed ones included, in whole or in base units,  *)
(* as long as what was minted fits an i128; beyond that it stays below     *)
(* (sac.rs, mint_raw).                                                     *)
THEOREM TracksTheSupply == Spec => []TrackedIsSupply
<1>1. Inv /\ SupplyInv /\ [Next]_vars => SupplyInv'
  <2>1. Inv /\ SupplyInv /\ Next => SupplyInv'
    BY NextCounts, NextTracks DEF SupplyInv
  <2>2. Inv /\ SupplyInv /\ UNCHANGED vars => SupplyInv'
    <3>1. UNCHANGED vars => UNCHANGED contracts
      BY DEF vars, contracts
    <3> QED BY <3>1, SameCounts, SameTracks DEF SupplyInv
  <2> QED BY <2>1, <2>2
<1>2. SupplyInv => TrackedIsSupply
  BY DEF SupplyInv
<1> QED BY <1>1, <1>2, InitTracks, InvHolds, PTL DEF Spec

(* No two balances exceed the supply, so that neither party's stands in    *)
(* the way of a payout while the supply fits.                              *)
LEMMA InvSolvent == Inv => Solvent
<1> SUFFICES ASSUME Inv, Supply <= MaxAmount, NEW e \in Escrows, IsLocked(e),
                    NEW to \in {storage[e].seller, storage[e].buyer}
             PROVE  CanPayOut(e, to)
  BY DEF Inv, Solvent
<1>1. to \in Actors /\ to # e /\ to \in Holders /\ e \in Holders
  BY PartiesAreActors
<1> DEFINE owed == storage[e].amount
<1>2. storage[e] \in Deposited
  BY DEF Inv, EscrowTypeOK, IsLocked
<1>3. owed \in Nat
  BY <1>2 DEF Deposited
<1>4. balances[e] >= owed
  BY DEF Inv, Covered
<1>5. balances \in [Holders -> Nat]
  BY DEF Inv
<1>6. Supply >= balances[e] + balances[to]
  <2>1. Fold!Total(balances, Holders) >= balances[e] + balances[to]
    BY <1>1, <1>5, HoldersAreFinite, Fold!TotalAtLeast
  <2> QED BY <2>1, SupplyIsTotal
<1>7. Supply \in Int /\ balances[e] \in Nat /\ balances[to] \in Nat
  BY <1>1, <1>5, SupplyTyped
<1> HIDE DEF owed
<1>8. balances[to] + owed <= MaxAmount /\ owed >= 0
  BY <1>3, <1>4, <1>6, <1>7
<1>9. CanTransfer(e, to, owed)
  BY <1>4, <1>8 DEF CanTransfer, CanDebit, CanCredit
<1> QED BY <1>9 DEF CanPayOut, owed

(* A locked escrow can always be settled either way, unless more was       *)
(* minted than an i128 holds (quickstart's lib.rs, release and refund).    *)
THEOREM AlwaysSolvent == Spec => []Solvent
BY InvSolvent, InvHolds, PTL

================================================================================
