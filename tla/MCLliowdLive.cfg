SPECIFICATION FairSpec
CHECK_DEADLOCK FALSE
CONSTANTS
  f1 = f1
  f2 = f2
  c1 = c1
  c2 = c2
  NoInode = NoInode
  NoClient = NoClient
  Inodes = {i1}
  Paths <- MCPaths
  Configs <- MCConfigs
  Clients <- MCClients
  ExeOf <- MCExeOf
  MaxInst = 3
  MaxChanges = 1
  MaxFaults = 1
  RenamesAway = TRUE
INVARIANTS
  NoSpuriousRefusal
PROPERTIES
  GetWatchFdReturns
