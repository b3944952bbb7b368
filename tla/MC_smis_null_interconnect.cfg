\* A Null InterconnectType on a drive that is not LSI's.
CONSTANTS
  Absent = Absent
  Null = Null
  SysNames <- MC_SysNames
  DevIds <- MC_DevIds
  Interconnects <- MC_Interconnects
  DmtfTypes <- MC_DmtfTypes
  MaxExts = 2
SPECIFICATION Spec
INVARIANT DiskTypeIsLsm
CHECK_DEADLOCK FALSE
