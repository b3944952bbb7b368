------------------------------- MODULE SmisDisk -------------------------------
(***************************************************************************)
(* cim_disk_to_lsm_disk (src/plugin/smispy/smis_disk.py): the SMI-S        *)
(* plugin's conversion of one CIM_DiskDrive, with the Primordial          *)
(* CIM_StorageExtents the provider associates with it and, on LSI         *)
(* providers, its first CIM_ProtocolEndpoint, into an lsm.Disk.           *)
(*                                                                         *)
(* A CIM property is absent from the instance (Absent), present with no   *)
(* value (Null: pywbem's None), or present with a value.  Disk.TYPE_*     *)
(* are named here; Disk.TYPE_UNKNOWN is the one whose value is 0, so      *)
(* `not disk_type` holds for it and for None.  InterconnectType values    *)
(* are taken to be Disk.TYPE_* values, as the code assigns them directly. *)
(*                                                                         *)
(* The state is one provider answer and the conversion's outcome; one     *)
(* step converts.                                                          *)
(***************************************************************************)
EXTENDS Naturals, Sequences, SequencesExt

CONSTANTS
  Absent, Null,     \* property missing / present without a value
  SysNames,         \* SystemName values (strings, as sequences of characters)
  DevIds,           \* DeviceID values
  Interconnects,    \* InterconnectType values a provider reports
  DmtfTypes,        \* DiskType values a provider reports (DMTF_DISK_TYPE_*)
  MaxExts           \* bound on Primordial extents associated with a disk

LsmTypes ==
  {"UNKNOWN", "OTHER", "ATA", "SATA", "SAS", "FC", "SOP", "SCSI", "LUN",
   "NL_SAS", "HDD", "SSD", "HYBRID"}

ASSUME Interconnects \subseteq LsmTypes

\* _DMTF_DISK_TYPE_2_LSM
DmtfToLsmTable ==
  [t \in {"D_UNKNOWN", "D_OTHER", "D_HDD", "D_SSD", "D_HYBRID"} |->
     CASE t = "D_UNKNOWN" -> "UNKNOWN" [] t = "D_OTHER" -> "OTHER"
       [] t = "D_HDD" -> "HDD" [] t = "D_SSD" -> "SSD" [] t = "D_HYBRID" -> "HYBRID"]

\* One provider answer: the CIM_DiskDrive's properties, the number of
\* Primordial extents among its MediaPresent associators, and what its
\* first SAPAvailableForElement endpoint says.
CimDisks ==
  [sys: SysNames \cup {Absent},
   dev: DevIds \cup {Absent},
   ic: Interconnects \cup {Absent, Null},
   caption: {"NL_SAS", "other", Absent},
   dtype: DmtfTypes \cup {Absent, Null},
   cls: {"LSIESG_DiskDrive", "other"},
   pe: {"none", "noccn", "sata", "sas", "other"},
   exts: 0..MaxExts]

Err(code) == [ok |-> FALSE, code |-> code]

VARIABLES disk, out

vars == <<disk, out>>

(***************************************************************************)
(* The conversion.                                                        *)
(***************************************************************************)

\* _dmtf_disk_type_2_lsm_disk_type: unknown keys (None included) map to
\* TYPE_UNKNOWN.
DmtfToLsm(t) == IF t \in DOMAIN DmtfToLsmTable THEN DmtfToLsmTable[t] ELSE "UNKNOWN"

\* _pri_cim_ext_of_cim_disk: exactly one Primordial extent, or PLUGIN_BUG.
PriExtOK(d) == d.exts = 1

\* sys_id_of_cim_disk and _disk_id_of_cim_disk: md5("%s%s" % (SystemName,
\* DeviceID)); md5 is taken to be injective, so the id is the string.
DiskId(d) == d.sys \o d.dev

\* Mutant: DiskType is taken as it is, without the table.
DiskTypeRaw(d) ==
  LET t1 == IF d.ic = Absent THEN "UNKNOWN"
            ELSE IF d.caption = "NL_SAS" THEN "NL_SAS" ELSE d.ic
      t2 == IF t1 = "UNKNOWN" /\ d.dtype # Absent THEN d.dtype ELSE t1
  IN  IF t2 \in {"UNKNOWN", Null} /\ d.cls = "LSIESG_DiskDrive"
      THEN CASE d.pe = "sata" -> "SATA" [] d.pe = "sas" -> "SAS" [] OTHER -> t2
      ELSE t2

\* Mutant: DiskType overrides InterconnectType.
DiskTypeDmtfFirst(d) ==
  LET t1 == IF d.ic = Absent THEN "UNKNOWN"
            ELSE IF d.caption = "NL_SAS" THEN "NL_SAS" ELSE d.ic
      t2 == IF d.dtype # Absent THEN DmtfToLsm(d.dtype) ELSE t1
  IN  IF t2 \in {"UNKNOWN", Null} /\ d.cls = "LSIESG_DiskDrive"
      THEN CASE d.pe = "sata" -> "SATA" [] d.pe = "sas" -> "SAS" [] OTHER -> t2
      ELSE t2

\* The disk type chain: InterconnectType (NL_SAS by Caption), then DiskType
\* if still TYPE_UNKNOWN, then, if still falsy, the LSI endpoint's class.
DiskTypeOf(d) ==
  LET t1 == IF d.ic = Absent THEN "UNKNOWN"
            ELSE IF d.caption = "NL_SAS" THEN "NL_SAS" ELSE d.ic
      t2 == IF t1 = "UNKNOWN" /\ d.dtype # Absent THEN DmtfToLsm(d.dtype) ELSE t1
  IN  IF t2 \in {"UNKNOWN", Null} /\ d.cls = "LSIESG_DiskDrive"
      THEN CASE d.pe = "sata" -> "SATA" [] d.pe = "sas" -> "SAS" [] OTHER -> t2
      ELSE t2

\* cim_disk_to_lsm_disk, in its order: the extent, the system id, the
\* type, the disk id.
CimDiskToLsmDisk(d) ==
  CASE ~PriExtOK(d)                 -> Err("PLUGIN_BUG")
    [] d.sys = Absent               -> Err("PLUGIN_BUG")
    [] d.dev = Absent               -> Err("PLUGIN_BUG")
    [] OTHER -> [ok |-> TRUE, id |-> DiskId(d), type |-> DiskTypeOf(d),
                 system_id |-> d.sys]

\* The conversion has not run yet.
NotYet == [ok |-> FALSE, code |-> "none"]

Init ==
  /\ disk \in CimDisks
  /\ out = NotYet

Convert ==
  /\ out = NotYet
  /\ out' = CimDiskToLsmDisk(disk)
  /\ UNCHANGED disk

Spec == Init /\ [][Convert]_vars

(***************************************************************************)
(* Properties.                                                            *)
(***************************************************************************)

Outcomes ==
  {Err(c) : c \in {"none", "PLUGIN_BUG"}}
  \cup [ok: {TRUE}, id: STRING,
        type: LsmTypes \cup {Null}, system_id: SysNames]

TypeOK == disk \in CimDisks /\ out \in Outcomes

\* Reference for the disk type: the first source that knows it, in the
\* order DMTF 2.31 (with EMC's NL_SAS Caption), DMTF DiskType, LSI's
\* endpoint class; TYPE_UNKNOWN if none does.  Stated for drives whose
\* InterconnectType has a value or is absent.
Sources(d) ==
  << IF d.ic \notin {Absent, Null} /\ d.caption = "NL_SAS" THEN "NL_SAS" ELSE "UNKNOWN",
     IF d.ic \notin {Absent, Null} THEN d.ic ELSE "UNKNOWN",
     DmtfToLsm(d.dtype),
     IF d.cls = "LSIESG_DiskDrive" /\ d.pe = "sata" THEN "SATA"
     ELSE IF d.cls = "LSIESG_DiskDrive" /\ d.pe = "sas" THEN "SAS" ELSE "UNKNOWN" >>

RefDiskType(d) ==
  LET i == SelectInSeq(Sources(d), LAMBDA t : t # "UNKNOWN")
  IN  IF i = 0 THEN "UNKNOWN" ELSE Sources(d)[i]

TypeMatchesReference ==
  out.ok /\ disk.ic # Null => out.type = RefDiskType(disk)

\* Every converted disk has one of the Disk.TYPE_* types, whatever the
\* provider leaves unset.
DiskTypeIsLsm == out.ok => out.type \in LsmTypes

=============================================================================
