SPECIFICATION FairSpec
CONSTANTS
  Unit = 2
  MaxUint = 63
  Regions <- MCRegions
  Requests = {2, 3, 6}
  NoFrame = NoFrame
INVARIANTS ListsAgree Partition Coalesced
PROPERTIES FreeReturns ImplementsAbs
