SPECIFICATION ControlSpec
CONSTANTS
  whatsminer = whatsminer
  avalon = avalon
  p1 = p1
  p2 = p2
  Machines <- MCMachines
  Tokened <- MCTokened
  WebMethods <- MCWebMethods
  PoolEntries <- MCPoolEntries
  Configs <- MCConfigs
  Entered <- MCEntered
  Slots = {1, 2}
  Nothing = Nothing
  MaxRequests = 2
  MaxChanges = 2
CHECK_DEADLOCK FALSE
INVARIANTS StoredPoolsAreOneList RestartsWereAsked
PROPERTY RequestsEnd
