SPECIFICATION Spec
CONSTANTS
  page1 = page1
  page2 = page2
  imported = imported
  own = own
  Pages <- MCPages
  Names <- MCNames
  SystemRule = imported
  Nothing = Nothing
  MaxRules = 2
  MaxClicks = 3
  MaxInFlight = 2
  MaxFaults = 1
SYMMETRY Symmetry
CHECK_DEADLOCK FALSE
INVARIANTS SaveHitsItsRule PageShowsItsChanges
