SPECIFICATION Spec
CHECK_DEADLOCK FALSE
CONSTANTS
  f1 = f1
  f2 = f2
  c1 = c1
  c2 = c2
  NoInode = NoInode
  NoClient = NoClient
  Inodes = {i1, i2}
  Paths <- OnePath
  Configs <- OneConfig
  Clients <- MCClients
  ExeOf <- OneExeOf
  MaxInst = 1
  MaxChanges = 2
  MaxFaults = 0
  RenamesAway = TRUE
INVARIANTS
  WatchSound
