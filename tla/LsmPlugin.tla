------------------------------ MODULE LsmPlugin ------------------------------
(***************************************************************************)
(* The plugin process at the far end of one Client connection.  A plugin  *)
(* serves one request at a time; each handler is an operator from the     *)
(* request and the plugin's state to the SET of possible outcomes, a      *)
(* record [reply, st], so that failures of the array or of its SSH link   *)
(* are nondeterministic choices.                                          *)
(*                                                                         *)
(* PluginKind = "v7k" is the IBM V7000 plugin, src/plugin/v7k/ibmv7k.py.  *)
(* PluginKind = "sim" is a plugin that runs volume_create as a job; no    *)
(* such plugin is under src/, so its handlers follow spec.md 3, 4.3, 6.   *)
(***************************************************************************)
EXTENDS Naturals, FiniteSets

CONSTANTS
  PluginKind,   \* "v7k" or "sim"
  JobIds,       \* job ids the plugin can hand out (never reused)
  TmoValues,    \* timeout values (ms) a caller passes
  MaxVolumes,   \* capacity of the pool: volumes the array can hold
  NoJob,        \* the None half of a (job_id, volume) pair
  NoItem,       \* the None result of a job or of volume_create
  NoKey,        \* search_key=None
  SupportedKeys \* Volume.SUPPORTED_SEARCH_KEYS

ASSUME PluginKind \in {"v7k", "sim"}
ASSUME MaxVolumes \in Nat \ {0}
ASSUME NoJob \notin JobIds

(***************************************************************************)
(* Values on the wire, abstracted to their shape and the part the         *)
(* properties tell apart.                                                 *)
(***************************************************************************)
NoneV            == [shape |-> "none"]
IntV(n)          == [shape |-> "int", n |-> n]
\* A list of n objects of one kind ("volume", "pool", "system").
ListV(k, n)      == [shape |-> "list", kind |-> k, n |-> n]
PairV(j, it)     == [shape |-> "pair", job |-> j, item |-> it]
StatusV(s, it)   == [shape |-> "status", status |-> s, item |-> it]
Err(code)        == [shape |-> "error", code |-> code]
JobIdV(j)        == [shape |-> "jobid", job |-> j]
BoolV(b)         == [shape |-> "bool", b |-> b]
CapsV            == [shape |-> "caps"]     \* a Capabilities object
InfoV            == [shape |-> "strs"]     \* (description, version)

\* The array's storage pools: one, which every volume is created in.
ArrayPools == 1

\* Bound on the hosts the array holds (one initiator each).
ArrayHosts == 2

JobStates == {"unused", "inprogress", "complete", "error", "freed"}
Terminal  == {"complete", "error"}

PluginStates ==
  [reg: {"new", "registered", "exited"},  \* plugin_register done / unregistered
   tmo: TmoValues,                         \* IbmV7k.tmo
   ssh: {"none", "up", "closed"},          \* IbmV7k.ssh (SSHClient session)
   sshTmo: TmoValues,                      \* timeout the live session was opened with
   jobs: [JobIds -> JobStates],
   jobKind: [JobIds -> {"create", "delete", "resize"}],  \* what a job does
   vols: 0..MaxVolumes]                    \* volumes on the array

PluginInit(t) ==
  [reg |-> "new", tmo |-> t, ssh |-> "none", sshTmo |-> t,
   jobs |-> [j \in JobIds |-> "unused"],
   jobKind |-> [j \in JobIds |-> "create"], vols |-> 0]

O(reply, st) == [reply |-> reply, st |-> st]

(***************************************************************************)
(* IBM V7000 plugin.                                                      *)
(***************************************************************************)

\* plugin_register: tmo is stored before SSHClient() connects; the connect
\* can fail (SSHException -> TRANSPORT_COMMUNICATION) and so can the
\* lssystem command that follows (V7kError -> PLUGIN_ERROR).
V7kRegister(t, st) ==
  LET st1 == [st EXCEPT !.tmo = t]
      up  == [st1 EXCEPT !.ssh = "up", !.sshTmo = t]
  IN  { O(Err("TRANSPORT_COMMUNICATION"), st1),
        O(Err("PLUGIN_ERROR"), up),
        O(NoneV, [up EXCEPT !.reg = "registered"]) }

\* Mutant: tmo is updated only once the new session is up.
V7kTimeOutSetLate(ms, st) ==
  LET st1 == [st EXCEPT !.ssh = "closed"]
  IN  { O(NoneV, [st1 EXCEPT !.tmo = ms, !.ssh = "up", !.sshTmo = ms]),
        O(Err("TRANSPORT_COMMUNICATION"), st1) }

\* time_out_set: tmo := ms, close the session, open a new one with ms.
\* If the reconnect fails the old session is already closed.
V7kTimeOutSet(ms, st) ==
  LET st1 == [st EXCEPT !.tmo = ms, !.ssh = "closed"]
  IN  { O(NoneV, [st1 EXCEPT !.ssh = "up", !.sshTmo = ms]),
        O(Err("TRANSPORT_COMMUNICATION"), st1) }

V7kTimeOutGet(st) == { O(IntV(st.tmo), st) }

\* plugin_unregister closes the session; the plugin process then exits.
V7kUnregister(st) == { O(NoneV, [st EXCEPT !.ssh = "closed", !.reg = "exited"]) }

\* job_status and job_free are not implemented by this plugin.
V7kNotImplemented(st) == { O(Err("NOT_IMPLEMENTED"), st) }

\* A command on a closed session fails inside paramiko (the closed client
\* has no transport) with an exception SSHClient.execute does not
\* translate to an LsmError; the plugin runner reports it as a plugin bug.
V7kSshDown(st) == { O(Err("PLUGIN_BUG"), st) }

\* volume_create: mkvdisk (may be refused: V7kError), then lsvdisk of the
\* new volume (may fail after the volume exists), then (None, volume).
V7kVolumeCreate(st) ==
  IF st.ssh # "up" THEN V7kSshDown(st)
  ELSE { O(Err("PLUGIN_ERROR"), st) } \cup
       IF st.vols < MaxVolumes
       THEN { O(PairV(NoJob, "vol"), [st EXCEPT !.vols = @ + 1]),
              O(Err("PLUGIN_ERROR"), [st EXCEPT !.vols = @ + 1]) }
       ELSE {}

\* volume_delete: rmvdisk -force (refused if there is no such volume).
V7kVolumeDelete(st) ==
  IF st.ssh # "up" THEN V7kSshDown(st)
  ELSE { O(Err("PLUGIN_ERROR"), st) } \cup
       IF st.vols > 0 THEN { O(NoneV, [st EXCEPT !.vols = @ - 1]) } ELSE {}

\* search_property over a listing of `all` objects: no key keeps them all,
\* a supported key some of them.  A key the client let through that is not
\* an attribute of the objects makes search_property raise, which the
\* plugin runner reports as a plugin bug.
Search(kind, all, key, st) ==
  CASE key = NoKey           -> { O(ListV(kind, all), st) }
    [] key \in SupportedKeys -> { O(ListV(kind, n), st) : n \in 0..all }
    [] OTHER                 -> { O(Err("PLUGIN_BUG"), st) }

\* volumes: lsvdisk, then search_property over the result.
V7kVolumes(key, st) ==
  IF st.ssh # "up" THEN V7kSshDown(st)
  ELSE { O(Err("PLUGIN_ERROR"), st) } \cup
       Search("volume", st.vols, key, st)

\* initiator_grant: access other than rw is refused before any command.
\* The lshost/mkhost/mkvdiskhostmap chain (its effect on the array is
\* V7kHostMap's subject) fails with PLUGIN_ERROR, or with
\* NOT_FOUND_INITIATOR when mkhost says the host exists and the lookup
\* then misses it, or with UNSUPPORTED_INITIATOR_TYPE when the host is
\* missing and _initiator_create cannot make one of that type; when it runs, the handler returns whether stdout says
\* "successfully created".
V7kInitiatorGrant(acc, st) ==
  IF acc # "rw" THEN { O(Err("NO_SUPPORT"), st) }
  ELSE IF st.ssh # "up" THEN V7kSshDown(st)
  ELSE { O(Err("PLUGIN_ERROR"), st), O(Err("NOT_FOUND_INITIATOR"), st),
         O(Err("UNSUPPORTED_INITIATOR_TYPE"), st) }
       \cup { O(BoolV(b), st) : b \in BOOLEAN }

\* initiator_revoke: the host lookup (NOT_FOUND_INITIATOR), rmvdiskhostmap
\* (PLUGIN_ERROR), an rmhost whose failure is swallowed; returns None.
V7kInitiatorRevoke(st) ==
  IF st.ssh # "up" THEN V7kSshDown(st)
  ELSE { O(Err("PLUGIN_ERROR"), st), O(Err("NOT_FOUND_INITIATOR"), st),
         O(NoneV, st) }

\* pools: lsmdiskgrp, then search_property over the result.
V7kPools(key, st) ==
  IF st.ssh # "up" THEN V7kSshDown(st)
  ELSE { O(Err("PLUGIN_ERROR"), st) } \cup Search("pool", ArrayPools, key, st)

\* initiators: lshost, then lshost <id> of each host listed (fails if the
\* host is gone since); one Initiator per host.
V7kInitiators(st) ==
  IF st.ssh # "up" THEN V7kSshDown(st)
  ELSE { O(Err("PLUGIN_ERROR"), st) } \cup
       { O(ListV("initiator", n), st) : n \in 0..ArrayHosts }

\* volumes_accessible_by_initiator: the host lookup, lshostvdiskmap <id>,
\* then lsvdisk of each volume mapped to the host.
V7kVolumesAccessible(st) ==
  IF st.ssh # "up" THEN V7kSshDown(st)
  ELSE { O(Err("PLUGIN_ERROR"), st), O(Err("NOT_FOUND_INITIATOR"), st) } \cup
       { O(ListV("volume", n), st) : n \in 0..st.vols }

\* initiators_granted_to_volume: lsvdiskhostmap <vol>, then lshost <id> of
\* each host mapped to the volume.
V7kInitiatorsGranted(st) ==
  IF st.ssh # "up" THEN V7kSshDown(st)
  ELSE { O(Err("PLUGIN_ERROR"), st) } \cup
       { O(ListV("initiator", n), st) : n \in 0..ArrayHosts }

\* systems returns [self.sys_info], read at plugin_register; capabilities
\* and plugin_info build their answer in the plugin.  None runs a command.
V7kSystems(st)      == { O(ListV("system", 1), st) }
V7kCapabilities(st) == { O(CapsV, st) }
V7kPluginInfo(st)   == { O(InfoV, st) }

(***************************************************************************)
(* Job-capable plugin (spec.md 4.3 and 6).                                *)
(***************************************************************************)
SimRegister(t, st) ==
  { O(NoneV, [st EXCEPT !.tmo = t, !.ssh = "up", !.sshTmo = t,
                        !.reg = "registered"]) }

SimTimeOutSet(ms, st) == { O(NoneV, [st EXCEPT !.tmo = ms, !.sshTmo = ms]) }

SimTimeOutGet(st) == { O(IntV(st.tmo), st) }

SimUnregister(st) == { O(NoneV, [st EXCEPT !.reg = "exited"]) }

\* initiator_grant and initiator_revoke return None or fail (spec.md 6).
SimAccess(st) == { O(NoneV, st), O(Err("PLUGIN_ERROR"), st) }

\* A listing filtered by a supported key returns some of the volumes.
SimVolumes(key, st) == Search("volume", st.vols, key, st)

SimPools(key, st) == Search("pool", ArrayPools, key, st)

Busy(st, k) ==
  Cardinality({j \in JobIds : st.jobs[j] = "inprogress" /\ st.jobKind[j] = k})

Unused(st) == {i \in JobIds : st.jobs[i] = "unused"}

StartJob(j, k, st) == [st EXCEPT !.jobs[j] = "inprogress", !.jobKind[j] = k]

\* Mutant: the capacity check is off by one.
SimVolumeCreateOverfull(st) ==
  { O(Err("PLUGIN_ERROR"), st) } \cup
  IF st.vols + Busy(st, "create") <= MaxVolumes
  THEN { O(PairV(NoJob, "vol"), [st EXCEPT !.vols = @ + 1]) } \cup
       { O(PairV(j, NoItem), StartJob(j, "create", st)) : j \in Unused(st) }
  ELSE {}

\* volume_create answers with exactly one half of (job_id, volume): an
\* immediate volume, or a fresh job that will produce it.
SimVolumeCreate(st) ==
  { O(Err("PLUGIN_ERROR"), st) } \cup
  IF st.vols + Busy(st, "create") < MaxVolumes
  THEN { O(PairV(NoJob, "vol"), [st EXCEPT !.vols = @ + 1]) } \cup
       { O(PairV(j, NoItem), StartJob(j, "create", st)) : j \in Unused(st) }
  ELSE {}

\* Volumes the caller can still name: not being deleted.
Present(st) == st.vols - Busy(st, "delete")

\* volume_replicate makes a new volume from an existing one, with the
\* dual-result answer of volume_create.
SimVolumeReplicate(st) ==
  IF Present(st) = 0 THEN { O(Err("NOT_FOUND_VOLUME"), st) }
  ELSE SimVolumeCreate(st)

\* volume_resize answers the re-sized volume or a job that re-sizes it.
SimVolumeResize(st) ==
  IF Present(st) = 0 THEN { O(Err("NOT_FOUND_VOLUME"), st) }
  ELSE { O(Err("PLUGIN_ERROR"), st), O(PairV(NoJob, "vol"), st) } \cup
       { O(PairV(j, NoItem), StartJob(j, "resize", st)) : j \in Unused(st) }

\* volume_online and volume_offline return None (spec.md 6 lists neither
\* among the operations that may answer with a job).
SimVolumeState(st) ==
  IF Present(st) = 0 THEN { O(Err("NOT_FOUND_VOLUME"), st) }
  ELSE { O(NoneV, st), O(Err("PLUGIN_ERROR"), st) }

\* volume_delete answers None (done) or a job id (spec.md 6); a volume
\* already being deleted cannot be deleted again.
SimVolumeDelete(st) ==
  IF Present(st) = 0 THEN { O(Err("NOT_FOUND_VOLUME"), st) }
  ELSE { O(Err("PLUGIN_ERROR"), st), O(NoneV, [st EXCEPT !.vols = @ - 1]) } \cup
       { O(JobIdV(j), StartJob(j, "delete", st)) : j \in Unused(st) }

Known(j, st) == st.jobs[j] \notin {"unused", "freed"}

SimJobStatus(j, st) ==
  IF ~Known(j, st) THEN { O(Err("NOT_FOUND_JOB"), st) }
  ELSE { O(StatusV(st.jobs[j],
                   IF st.jobs[j] = "complete" /\ st.jobKind[j] # "delete"
                   THEN "vol" ELSE NoItem), st) }

SimJobFree(j, st) ==
  IF ~Known(j, st) THEN { O(Err("NOT_FOUND_JOB"), st) }
  ELSE { O(NoneV, [st EXCEPT !.jobs[j] = "freed"]) }

\* The array finishes a running job: the volume is created, deleted or
\* re-sized, or the job failed.
JobProgress(j, st) ==
  IF st.jobs[j] # "inprogress" THEN {}
  ELSE { [st EXCEPT !.jobs[j] = "complete",
                    !.vols = CASE st.jobKind[j] = "create" -> @ + 1
                               [] st.jobKind[j] = "delete" -> @ - 1
                               [] OTHER                    -> @],
         [st EXCEPT !.jobs[j] = "error"] }

(***************************************************************************)
(* Dispatch of one request.  A plugin that has exited has closed its end  *)
(* of the socket: the client's read sees EOF.                             *)
(***************************************************************************)
Handle(op, arg, st) ==
  IF st.reg = "exited" THEN { O(Err("TRANSPORT_COMMUNICATION"), st) }
  ELSE IF PluginKind = "v7k" THEN
    CASE op = "plugin_register"   -> V7kRegister(arg, st)
      [] op = "time_out_set"      -> V7kTimeOutSet(arg, st)
      [] op = "time_out_get"      -> V7kTimeOutGet(st)
      [] op = "plugin_unregister" -> V7kUnregister(st)
      [] op = "volume_create"     -> V7kVolumeCreate(st)
      [] op = "volume_delete"     -> V7kVolumeDelete(st)
      [] op = "volumes"           -> V7kVolumes(arg, st)
      [] op = "initiator_grant"   -> V7kInitiatorGrant(arg, st)
      [] op = "initiator_revoke"  -> V7kInitiatorRevoke(st)
      [] op = "pools"             -> V7kPools(arg, st)
      [] op = "systems"           -> V7kSystems(st)
      [] op = "capabilities"      -> V7kCapabilities(st)
      [] op = "plugin_info"       -> V7kPluginInfo(st)
      [] op = "initiators"        -> V7kInitiators(st)
      [] op = "volumes_accessible_by_initiator" -> V7kVolumesAccessible(st)
      [] op = "initiators_granted_to_volume"    -> V7kInitiatorsGranted(st)
      [] OTHER                    -> V7kNotImplemented(st)
  ELSE
    CASE op = "plugin_register"   -> SimRegister(arg, st)
      [] op = "time_out_set"      -> SimTimeOutSet(arg, st)
      [] op = "time_out_get"      -> SimTimeOutGet(st)
      [] op = "plugin_unregister" -> SimUnregister(st)
      [] op = "volume_create"     -> SimVolumeCreate(st)
      [] op = "volume_delete"     -> SimVolumeDelete(st)
      [] op = "volume_replicate"  -> SimVolumeReplicate(st)
      [] op = "volume_resize"     -> SimVolumeResize(st)
      [] op \in {"volume_online", "volume_offline"} -> SimVolumeState(st)
      [] op = "volumes"           -> SimVolumes(arg, st)
      [] op = "job_status"        -> SimJobStatus(arg, st)
      [] op \in {"initiator_grant", "initiator_revoke"} -> SimAccess(st)
      [] op = "pools"             -> SimPools(arg, st)
      [] OTHER                    -> SimJobFree(arg, st)
=============================================================================
