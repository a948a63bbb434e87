------------------------------- MODULE Quickstart ------------------------------
(***************************************************************************)
(* A test as examples/quickstart writes them: the token double, the event  *)
(* log and escrow contracts on one host.  Each call of the test is one     *)
(* top-level invocation; a call that fails panics in the client, and       *)
(* unwinds the closure of events_during, unless it is made in its try_     *)
(* form.                                                                   *)
(***************************************************************************)
EXTENDS Escrow, EventLog

CONSTANTS
  Token,    \* the address of the asset contract
  Amounts,  \* to transfer, burn or expect of a balance
  Mints,    \* to mint, in whole or in base units
  Offers    \* to deposit

ASSUME QuickstartAssumption ==
  /\ Amounts \cup Mints \cup Offers \subseteq Int
  /\ Token \notin Escrows

vars == <<tokenVars, storage, logVars>>

contracts == <<tokenVars, storage>>

Event(contract, topics, data) ==
  [contract |-> contract, topics |-> topics, data |-> data]

MintEvent(to, amount) == Event(Token, <<"mint", to>>, amount)
BurnEvent(h, amount) == Event(Token, <<"burn", h>>, amount)
TransferEvent(h, to, amount) == Event(Token, <<"transfer", h, to>>, amount)

Returns(published) == Invoked(published, FALSE)

(* A failed call publishes nothing and changes nothing.  In its plain form *)
(* it panics out of the closure under way; in its try_ form, or where no   *)
(* closure runs and the test catches the panic, the test goes on.          *)
Traps ==
  /\ \/ Invoked(<<>>, FALSE)
     \/ during # NoClosure /\ Invoked(<<>>, TRUE)
  /\ UNCHANGED contracts

--------------------------------------------------------------------------------
(* The kit *)

MintRaw(to, amount) ==
  /\ mint_raw(to, amount)
  /\ Invoked(IF CanCredit(to, amount) THEN <<MintEvent(to, amount)>> ELSE <<>>,
             ~Tracks(to, amount))
  /\ UNCHANGED storage

(* A whole amount out of range in base units is a misuse: no call is made. *)
Mint(to, amount) ==
  IF InBaseUnits(amount) \in I128
    THEN MintRaw(to, InBaseUnits(amount))
    ELSE PanicsBeforeCall /\ UNCHANGED contracts

(* balance, and assert_balance on top of it: a query is a call as well.    *)
AssertBalance(of, expected) ==
  /\ Invoked(<<>>, balances[of] # expected)
  /\ UNCHANGED contracts

EnterEventsDuring == EnterClosure(balances) /\ UNCHANGED contracts

LeaveEventsDuring == events_during /\ UNCHANGED contracts

TakeLog == Capture /\ UNCHANGED contracts

--------------------------------------------------------------------------------
(* The test's own calls *)

(* Every call below but the last asks for somebody's signature, and a test *)
(* may mock that one, another or none, whether or not it has called        *)
(* mock_all_auths.  Without the one asked for, each fails alike; the       *)
(* actions that follow have it.                                            *)
Unauthorized == Traps

Transfer(h, to, amount) ==
  \/ /\ transfer(h, to, amount) /\ UNCHANGED storage
     /\ Returns(<<TransferEvent(h, to, amount)>>)
  \/ ~CanTransfer(h, to, amount) /\ Traps

Burn(h, amount) ==
  \/ /\ burned + amount <= MaxBurned
     /\ burn(h, amount) /\ UNCHANGED storage
     /\ Returns(<<BurnEvent(h, amount)>>)
  \/ ~CanDebit(h, amount) /\ Traps

Deposit(e, buyer, seller, amount) ==
  \/ /\ deposit(e, buyer, seller, amount)
     /\ Returns(<<TransferEvent(buyer, e, amount),
                  Event(e, <<"deposit">>, amount)>>)
  \/ ~CanDeposit(e, buyer, amount) /\ Traps

Release(e) ==
  LET s == storage[e]
  IN  \/ /\ IsLocked(e)
         /\ PayOut(e, s.seller)
         /\ Returns(<<TransferEvent(e, s.seller, s.amount),
                      Event(e, <<"release">>, s.amount)>>)
      \/ ~(IsLocked(e) /\ CanPayOut(e, s.seller)) /\ Traps

Refund(e) ==
  LET s == storage[e]
  IN  \/ /\ IsLocked(e)
         /\ PayOut(e, s.buyer)
         /\ Returns(<<TransferEvent(e, s.buyer, s.amount)>>)
      \/ ~(IsLocked(e) /\ CanPayOut(e, s.buyer)) /\ Traps

(* withdraw_unchecked: the deliberate bug, a payout nobody authorizes. *)
WithdrawUnchecked(e) ==
  LET s == storage[e]
  IN  \/ /\ IsLocked(e)
         /\ PayOut(e, s.seller)
         /\ Returns(<<TransferEvent(e, s.seller, s.amount)>>)
      \/ /\ ~(IsLocked(e) /\ CanPayOut(e, s.seller))
         /\ Traps

--------------------------------------------------------------------------------

Init == TokenInit /\ EscrowInit /\ LogInit

Kit ==
  \/ \E h \in Holders, n \in Mints : MintRaw(h, n) \/ Mint(h, n)
  \/ \E h \in Holders, n \in Amounts : AssertBalance(h, n)
  \/ EnterEventsDuring \/ LeaveEventsDuring \/ TakeLog

Calls ==
  \/ Unauthorized
  \/ \E h \in Actors, n \in Amounts :
       Burn(h, n) \/ \E to \in Holders : Transfer(h, to, n)
  \/ \E e \in Escrows :
       \/ Release(e) \/ Refund(e) \/ WithdrawUnchecked(e)
       \/ \E buyer, seller \in Actors, n \in Offers : Deposit(e, buyer, seller, n)

Next == Kit \/ Calls

Spec == Init /\ [][Next]_vars

--------------------------------------------------------------------------------
(* Properties *)

TypeOK == TokenTypeOK /\ EscrowTypeOK /\ LogTypeOK

(* The balances after an event, read off the event alone. *)
Applied(b, event) ==
  LET t == event.topics
  IN  CASE event.contract # Token -> b
        [] t[1] = "mint"     -> Credited(b, t[2], event.data)
        [] t[1] = "burn"     -> Credited(b, t[2], -event.data)
        [] t[1] = "transfer" -> Transferred(b, t[2], t[3], event.data)

(* What the host holds after a call accounts for every token it moved, and *)
(* nothing else does: of half-failed mints and of panics out of a closure  *)
(* too, whose events nobody is handed.  What a closure published takes the *)
(* balances it found to those it left, and so does the log events_during   *)
(* returns of a closure that made one call (sac.rs, capture.rs).           *)
EventsAccountForBalances ==
  [][/\ <<events, balances>>' # <<events, balances>> =>
          balances' = FoldLeft(Applied, balances, events')
     /\ events_during =>
          /\ balances = FoldLeft(Applied, during.before, during.published)
          /\ during.calls = 1 =>
               balances = FoldLeft(Applied, during.before, returned')]_vars

(* What a log goes on telling of the escrows, however old it is.           *)
StillTells(log) ==
  \A e \in Escrows :
    LET mine == from(log, e)
    IN  /\ assert_emitted(mine, "deposit") =>
             /\ ~IsEmpty(e)
             /\ CanDecode(with_topic(mine, "deposit"))
             /\ decode_one(with_topic(mine, "deposit")) = storage[e].amount
             /\ assert_none(mine, "release")
        /\ assert_emitted(mine, "release") => ~IsEmpty(e) /\ ~IsLocked(e)

(* A log the test keeps stays true of the escrow, whatever is called after *)
(* it was taken: the deposit seen there was the escrow's only one, and     *)
(* decode_one reads what it locked; a release seen there has settled it    *)
(* for good.  And while the host still holds the event of a deposit, that  *)
(* deposit is locked (assertions.rs, lib.rs).                              *)
EventsTellState ==
  /\ StillTells(returned)
  /\ \A e \in Escrows : assert_emitted(from(events, e), "deposit") => IsLocked(e)

================================================================================
