SPECIFICATION Spec
CONSTANTS
  tab1 = tab1
  tab2 = tab2
  Tabs <- MCTabs
  Nothing = Nothing
  MaxRequests = 2
  MaxClicks = 1
  MaxFaults = 1
CHECK_DEADLOCK FALSE
INVARIANTS OneLoginPerConfirmation
PROPERTIES LoginSurvives CallsSettle WaitEnds
