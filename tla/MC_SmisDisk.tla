------------------------------ MODULE MC_SmisDisk ------------------------------
EXTENDS SmisDisk

\* Two SystemNames and two DeviceIDs, one a prefix of the other.
MC_SysNames == {"a", "aa"}
MC_DevIds == {"a", "aa"}

\* Interconnect types: the unknown one, a known one and OTHER.
MC_Interconnects == {"UNKNOWN", "SAS", "OTHER"}

\* DiskType values: three of the table's keys and a vendor value outside it.
MC_DmtfTypes == {"D_UNKNOWN", "D_OTHER", "D_HDD", "D_VENDOR"}
=============================================================================
