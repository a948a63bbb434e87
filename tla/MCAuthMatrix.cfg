SPECIFICATION Spec
CONSTANTS
  owner = owner
  stranger = stranger
  Addresses = {owner, stranger}
  MaxBalance = 4
  Uninitialized = Uninitialized
  Entries <- MCEntries
  Alloweds <- MCAlloweds
  MaxEntryPoints = 2
  MaxPurse = 4
  Buyer = owner
  Host = Host
INVARIANTS TypeOK ReportIsExact NoFalseAccusation FundedIsJudged
