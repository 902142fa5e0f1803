SPECIFICATION Spec
CONSTANTS
  MaxRequests = 2
  Reports = 2
  Gateways = 2
  Ttl = 2
  MaxHandling = 1
  CacheMax = 1
  MaxFaults = 2
  Null = Null
  Error = Error
  Ok = Ok
INVARIANTS AnswersAreOfTheirReport StalenessBounded ProbesAreLive
PROPERTY EventuallyRight
