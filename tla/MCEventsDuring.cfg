SPECIFICATION Spec
CONSTANTS
  alice = alice
  bob = bob
  escrow = escrow
  Actors = {alice, bob}
  Escrows = {escrow}
  Holders = {alice, bob, escrow}
  Token = Token
  Empty = Empty
  MaxAmount = 2
  Scale = 2
  MaxBurned = 1
  Amounts = {1, 2}
  Mints <- MCMints
  Offers = {0, 1, 2}
  MaxCalls = 2
PROPERTY ReturnsWhatRan
SYMMETRY MCSymmetry
