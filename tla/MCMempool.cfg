SPECIFICATION FairSpec
CONSTANTS
  Pool = 11
  Requests = {2, 4, 6}
INVARIANTS Tiled Coalesced
PROPERTIES BestFit CallsReturn
