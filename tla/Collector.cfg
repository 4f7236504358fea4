SPECIFICATION Spec
CONSTANTS
  miner = miner
  example = example
  old = old
  new = new
  Absent = Absent
  NoAnswer = NoAnswer
  NoFile = NoFile
  Ips <- MCIps
  Labels <- MCLabels
  Fleets <- MCFleets
  YamlFile <- MCYamlFile
  WithFallback <- MCWithFallback
  FAILURE_THRESHOLD = 3
  FALLBACK_FAILURE_THRESHOLD = 2
  MaxEvents = 4
INVARIANTS ReadingsUnderOneName NoGhostSeries DarkMachinesLoseReadings FleetSurvivesOutage DegradedIsRetried
PROPERTIES InventoryIsFollowed
