\* cim_disk_to_lsm_disk over every provider answer of the model.
CONSTANTS
  Absent = Absent
  Null = Null
  SysNames <- MC_SysNames
  DevIds <- MC_DevIds
  Interconnects <- MC_Interconnects
  DmtfTypes <- MC_DmtfTypes
  MaxExts = 2
SPECIFICATION Spec
INVARIANT TypeOK
INVARIANT TypeMatchesReference
CHECK_DEADLOCK FALSE
