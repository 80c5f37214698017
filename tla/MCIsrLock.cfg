SPECIFICATION FairSpec
CONSTANTS
  Depth = 2
INVARIANTS Balanced Exclusion WorkIsRemembered
PROPERTIES WorkIsDone
