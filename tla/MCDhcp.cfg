SPECIFICATION FairSpec
CONSTANTS
  Tries = 2
  SelectTimeout = 1
  RequestSend = 1
  RequestTimeout = 2
  RenewSend = 2
  LeaseMin = 4
  LeaseMax = 7
  Infinity = 100
  Grants <- MCGrants
  MaxAge = 9
INVARIANTS TypeOK AddressIffBound ExpiredIsDropped
PROPERTIES WaitEnds KeepsAsking
