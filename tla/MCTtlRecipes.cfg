SPECIFICATION Spec
CONSTANTS
  session = session
  vote = vote
  balance = balance
  instance = instance
  Keys = {session, vote, balance}
  KindOf <- MCKindOf
  Values = {v}
  NoValue = NoValue
  MaxSequence = 6
  MinTempTtl = 1
  MinPersistentTtl = 2
  MaxTtls = {4}
  LedgerCounts = {1}
  ExtendTos = {3}
  Expectations <- MCExpectations
  Rewinds = {}
INVARIANTS TypeOK PassIsTruth
PROPERTIES SiblingsSurvive ExpireKillsAll
SYMMETRY MCSymmetry
