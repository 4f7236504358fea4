SPECIFICATION InventorySpec
CONSTANTS
  ip1 = ip1
  ip2 = ip2
  name1 = name1
  name2 = name2
  name3 = name3
  alice = alice
  bob = bob
  NoOwner = NoOwner
  Same = Same
  Ips <- MCIps
  Names <- MCNames
  Owners <- MCOwners
  Tables <- MCTables
  YamlFiles <- MCYamlFiles
INVARIANTS CachedMinersExist
PROPERTIES OwnerMovesOnlyByTransfer
