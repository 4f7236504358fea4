SPECIFICATION FairSpec
CONSTANTS
  Alerts = {a1}
  Critical = {a1}
  Manual = {m1}
  Resolvable = {a1}
  NoAlert = NoAlert
  Slots = {h1, h2}
  HistoryCap = 2
  FaultKinds = {"crash", "repeat"}
  MaxFaults = 3
CHECK_DEADLOCK FALSE
PROPERTIES ResolvedLeavesActive RecordedIsAnnounced
