SPECIFICATION Spec
CONSTANTS
  page1 = page1
  page2 = page2
  Pages <- MCPages
  Sources = {"prometheus", "push"}
  MaxAttempts = 2
  MaxMessages = 2
  MaxReboots = 1
  MaxFaults = 2
INVARIANT PagesKeepTrying
PROPERTIES DeadConnectionsAreDropped MarksHeal
