SPECIFICATION LiveSpec
CONSTANTS
  ip1 = ip1
  ip2 = ip2
  name1 = name1
  name2 = name2
  alice = alice
  bob = bob
  NoOwner = NoOwner
  Same = Same
  Idle = Idle
  Failed = Failed
  Ips <- MCIps
  Names <- MCNames
  Owners <- MCOwners
  Tables <- MCTables
  YamlFiles <- MCYamlFiles
  Modes <- Deployments
  MaxRequests = 2
  MaxTurns = 1
  MaxFailures = 1
CHECK_DEADLOCK FALSE
PROPERTIES NoGhostMiners SnapshotHeals StatusesHeal
