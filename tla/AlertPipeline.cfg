SPECIFICATION Spec
CONSTANTS
  Alerts = {a1, a2}
  Critical = {a1}
  Manual = {}
  Resolvable = {a2}
  NoAlert = NoAlert
  Slots = {h1, h2}
  HistoryCap = 1
  FaultKinds = {"crash", "timeout", "write", "repeat", "day"}
  MaxFaults = 2
SYMMETRY SlotSymmetry
CHECK_DEADLOCK FALSE
INVARIANTS AnnouncedOncePerEpisode ActiveIsAnnounced HistoryAgreesWithActive RowsMatchMemory
PROPERTIES ImplementsAlertBook
