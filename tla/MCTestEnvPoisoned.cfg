SPECIFICATION Spec
CONSTANTS
  launch = launch
  latest = latest
  alice = alice
  bob = bob
  blank = blank
  Envs = {one}
  Seeds = {s}
  Defaults <- MCDefaults
  Unset = Unset
  Protocols = {launch, latest}
  HostProtocol = latest
  Intervals = {0, 2}
  Labels = {alice, bob, blank}
  Blank = {blank}
  Batches = {0, 2, 3}
  Lists <- MCLists
  MAX_ADDRESS_BATCH_SIZE = 2
  MaxCounter = 3
  MaxHosts = 3
  MaxSequence = 1
PROPERTIES AlwaysCloneConfig
CHECK_DEADLOCK FALSE
