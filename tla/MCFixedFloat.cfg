SPECIFICATION FairSpec
CONSTANTS
  alice = alice
  x = x
  None = None
  Orders = {x}
  Address <- MCAddress
  MaxOpen = 1
  MaxOpenPerAddress = 1
  Limit = 3
  Window = 2
  CallWeight = 1
  CreateWeight = 2
  Cycle = 2
INVARIANTS TypeOK WindowHolds
PROPERTIES SettledIsReferenced DepositIsNoticed
