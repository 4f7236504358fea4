SPECIFICATION Spec
CONSTANTS
  page1 = page1
  page2 = page2
  oldKey = oldKey
  newKey = newKey
  Pages <- MCPages
  Keys <- MCKeys
  OldKey = oldKey
  Blank = Blank
  Nothing = Nothing
  NewAccount = NewAccount
  NumAccounts = 2
  MaxApis = 2
  MaxClicks = 2
  MaxInFlight = 2
  MaxFaults = 1
CHECK_DEADLOCK FALSE
INVARIANT ShownDataIsOfSelection
PROPERTY PageSettles
