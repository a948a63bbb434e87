SPECIFICATION Spec
CONSTANTS
  session = session
  vote = vote
  balance = balance
  instance = instance
  Keys = {session, balance}
  KindOf <- MCKindOf
  Values = {v}
  NoValue = NoValue
  MaxSequence = 10
  MinTempTtl = 2
  MinPersistentTtl = 3
  MaxTtls = {5}
  LedgerCounts = {1}
  ExtendTos = {4}
  Expectations <- MCExpectations
  Rewinds = {}
INVARIANTS GoneOnceReached
