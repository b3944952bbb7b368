------------------------------ MODULE LsmClient ------------------------------
(***************************************************************************)
(* The client side of one connection: lsm.Client (src/python_binding/lsm/ *)
(* _client.py) and the program that drives it, the _TestClient caller in  *)
(* the same file, whose wait_to_finish is the job polling loop.           *)
(*                                                                         *)
(* This module holds the Client object, the caller, and the plugin's      *)
(* state.  What carries a request to the plugin and its reply back is     *)
(* LsmConnection's, which extends this module.                            *)
(***************************************************************************)
EXTENDS LsmPlugin

CONSTANTS
  TmoDefault,   \* Client(uri, timeout_ms=30000)
  CallerKeys,   \* search keys a caller passes to volumes() and pools()
  KeyEmpty,     \* search_key="" (false in Python, like None)
  CallerOps,    \* the stubs the caller calls outside wait_to_finish
  WaitDeletes   \* TRUE: the caller also polls the job volume_delete returns

ASSUME TmoDefault \in TmoValues
ASSUME NoKey \in CallerKeys /\ SupportedKeys \subseteq CallerKeys
ASSUME "plugin_register" \notin CallerOps
ASSUME WaitDeletes \in BOOLEAN

VARIABLES
  cstate,    \* "init": __init__ running; "open"; "closed": _tp is None;
             \* "failed": __init__ raised, there is no Client
  pending,   \* the call blocked in self._tp.rpc(), or NoCall
  outcome,   \* the last call returned to the caller and what it returned
  waitJob,   \* the job wait_to_finish is polling, or NoJob
  observed,  \* per job, the last status record job_status returned
  lastSet,   \* argument of the caller's last time_out_set (or __init__)
  plugin     \* the plugin process's state (LsmPlugin)

clientVars == <<cstate, pending, outcome, waitJob, observed, lastSet, plugin>>

NoArg  == "noarg"
NoCall == [op |-> "none", arg |-> NoArg]
Call(op, arg) == [op |-> op, arg |-> arg]
None   == [shape |-> "unset"]

\* initiator_grant(initiator_id, initiator_type, volume, access) and
\* initiator_revoke(initiator, volume): @_return_requires(None) both.
AccessOps == {"initiator_grant", "initiator_revoke"}

\* volumes(search_key, ...) and pools(search_key, ...): _check_search_key
\* first; the other listings take no key.
SearchOps == {"volumes", "pools"}
InfoOps   == {"systems", "capabilities", "plugin_info"}

\* initiators(), volumes_accessible_by_initiator(initiator) and
\* initiators_granted_to_volume(volume): listings that take no key.
MaskingReadOps == {"initiators", "volumes_accessible_by_initiator",
                   "initiators_granted_to_volume"}

Ops == AccessOps \cup SearchOps \cup InfoOps \cup MaskingReadOps \cup
  {"plugin_register", "plugin_unregister", "time_out_set", "time_out_get",
   "job_status", "job_free", "volume_create", "volume_delete",
   "volume_resize", "volume_replicate", "volume_online", "volume_offline"}

Calls ==
  {Call(o, t) : o \in {"plugin_register", "time_out_set"}, t \in TmoValues}
  \cup {Call(o, NoArg) : o \in {"plugin_unregister", "time_out_get",
                                "volume_create", "volume_delete",
                                "initiator_revoke", "volume_resize",
                                "volume_replicate", "volume_online",
                                "volume_offline"} \cup InfoOps \cup MaskingReadOps}
  \cup {Call("initiator_grant", a) : a \in {"rw", "ro"}}
  \cup {Call(o, j) : o \in {"job_status", "job_free"}, j \in JobIds}
  \cup {Call(o, k) : o \in SearchOps, k \in CallerKeys}

ListOps == SearchOps \cup {"systems"} \cup MaskingReadOps

(***************************************************************************)
(* _return_requires: the shape each stub declares for the value the rpc   *)
(* returns.  __start (plugin_register) and close (plugin_unregister)      *)
(* return nothing of the rpc, so any value passes.  The check is per      *)
(* element type: it does not require exactly one half of a pair.          *)
(***************************************************************************)
\* @_return_requires(unicode, Volume): (job_id, volume), "when one is None
\* the other is valid".
DualResultOps == {"volume_create", "volume_resize", "volume_replicate"}

\* A unicode result is a job id or None: volume_delete "Returns None on
\* success, else job id"; volume_online is declared so as well.
Returns ==
  [o \in Ops |->
     CASE o = "time_out_get"  -> {"int"}
       [] o = "job_status"    -> {"status"}
       [] o \in DualResultOps -> {"pair"}
       [] o \in {"volume_delete", "volume_online"} -> {"jobid", "none"}
       [] o \in ListOps       -> {"list"}
       [] o = "capabilities"  -> {"caps"}
       [] o = "plugin_info"   -> {"strs"}
       [] o \in {"time_out_set", "job_free", "volume_offline"} \cup AccessOps
                                                     -> {"none"}
       [] OTHER -> {"none", "int", "list", "pair", "status", "jobid", "bool",
                    "caps", "strs"}]

\* @_return_requires([Volume]), ([Pool]), ([System]), ([Initiator]): a
\* typed list requires each element to be of the type, so an empty list
\* passes for any of them (spec.md 4.2).
ElementOf == [o \in ListOps |->
                CASE o \in {"volumes", "volumes_accessible_by_initiator"} -> "volume"
                  [] o = "pools"   -> "pool"
                  [] o = "systems" -> "system"
                  [] OTHER         -> "initiator"]

\* A declared type accepts a value of the type or of a subtype: a Python
\* bool is an int, so True passes where int is declared.
Accepts(o, shape) ==
  shape \in Returns[o] \/ (shape = "bool" /\ "int" \in Returns[o])

\* What the stub hands back for a reply: a wire error is raised as the
\* LsmError it carries; a value of the wrong shape is a plugin bug.
StubResult(c, r) ==
  IF r.shape = "error" THEN r
  ELSE IF Accepts(c.op, r.shape) /\
          (r.shape = "list" /\ c.op \in DOMAIN ElementOf
             => r.n = 0 \/ r.kind = ElementOf[c.op])
  THEN r
  ELSE Err("PLUGIN_BUG")

\* _check_search_key: `if search_key and search_key not in supported_keys`
KeyRejected(k) == k \notin {NoKey, KeyEmpty} /\ k \notin SupportedKeys

(***************************************************************************)
(* The caller.  Outside a wait it may call any stub; inside               *)
(* wait_to_finish it polls job_status until the job leaves IN_PROGRESS    *)
(* and then calls job_free.                                               *)
(***************************************************************************)
IdleCalls == {c \in Calls : c.op \in CallerOps}

\* Mutant: the poll loop runs until COMPLETE instead of while IN_PROGRESS.
CallerCallsUntilComplete ==
  IF waitJob = NoJob THEN IdleCalls
  ELSE IF observed[waitJob] # None /\ observed[waitJob].status = "complete"
       THEN {Call("job_free", waitJob)}
       ELSE {Call("job_status", waitJob)}

CallerCalls ==
  IF waitJob = NoJob THEN IdleCalls
  ELSE IF observed[waitJob] # None /\ observed[waitJob].status \in Terminal
       THEN {Call("job_free", waitJob)}
       ELSE {Call("job_status", waitJob)}

Waiting == waitJob # NoJob

(***************************************************************************)
(* A stub returns `res` (a value or a raised error) for the pending call. *)
(***************************************************************************)
\* Client.__init__ raises when __start fails; Client.close sets
\* _tp = None only after rpc('plugin_unregister') returned.
NextCState(c, failed) ==
  CASE c.op = "plugin_register"              -> IF failed THEN "failed" ELSE "open"
    [] c.op = "plugin_unregister" /\ ~failed -> "closed"
    [] OTHER                                 -> cstate

\* wait_to_finish(*volume_create|replicate|resize(...)): with vol None it
\* polls job; an exception
\* out of job_status or job_free ends the loop, and so does job_free.
\* _TestClient never waits for the job of volume_delete; with WaitDeletes
\* the caller does, as spec.md 4.3 asks of every job an operation returns.
NextWaitJob(c, res) ==
  CASE c.op \in DualResultOps /\ res.shape = "pair" /\ res.item = NoItem
                                                      -> res.job
    [] WaitDeletes /\ c.op = "volume_delete" /\ res.shape = "jobid"
                                                      -> res.job
    [] Waiting /\ (c.op = "job_free" \/ res.shape = "error") -> NoJob
    [] OTHER                                           -> waitJob

Complete(res) ==
  /\ pending' = NoCall
  /\ outcome' = [call |-> pending, res |-> res]
  /\ cstate' = NextCState(pending, res.shape = "error")
  /\ waitJob' = NextWaitJob(pending, res)
  /\ observed' = IF pending.op = "job_status" /\ res.shape = "status"
                 THEN [observed EXCEPT ![pending.arg] = res] ELSE observed
  /\ UNCHANGED <<lastSet, plugin>>

\* A stub call that passes the checks made before self._tp.rpc().
Invoke(c) ==
  /\ cstate = "open"
  /\ pending = NoCall
  /\ c \in CallerCalls
  /\ ~(c.op \in SearchOps /\ KeyRejected(c.arg))
  /\ pending' = c
  /\ lastSet' = IF c.op = "time_out_set" THEN c.arg ELSE lastSet
  /\ UNCHANGED <<cstate, outcome, waitJob, observed, plugin>>

\* volumes() or pools() with an unsupported key:
\* LsmError(UNSUPPORTED_SEARCH_KEY) before anything is sent.
RejectSearchKey(o, k) ==
  /\ cstate = "open"
  /\ pending = NoCall
  /\ ~Waiting
  /\ o \in SearchOps \cap CallerOps
  /\ KeyRejected(k)
  /\ outcome' = [call |-> Call(o, k), res |-> Err("UNSUPPORTED_SEARCH_KEY")]
  /\ UNCHANGED <<cstate, pending, waitJob, observed, lastSet, plugin>>

\* Any stub after close(): self._tp is None, so `self._tp.rpc` raises
\* AttributeError, not an LsmError.
UseAfterClose(c) ==
  /\ cstate = "closed"
  /\ c \in IdleCalls
  /\ outcome' = [call |-> c, res |-> Err("ATTRIBUTE_ERROR")]
  /\ UNCHANGED <<cstate, pending, waitJob, observed, lastSet, plugin>>

\* The array works on a job in the background.
ArrayProgress(j) ==
  /\ \E st \in JobProgress(j, plugin) : plugin' = st
  /\ UNCHANGED <<cstate, pending, outcome, waitJob, observed, lastSet>>

\* Client(uri, ...) raised: the program has no Client and stops.
Stopped ==
  /\ cstate = "failed"
  /\ UNCHANGED clientVars

ClientInit ==
  /\ cstate = "init"
  /\ pending = Call("plugin_register", TmoDefault)
  /\ outcome = [call |-> NoCall, res |-> None]
  /\ waitJob = NoJob
  /\ observed = [j \in JobIds |-> None]
  /\ lastSet = TmoDefault
  /\ plugin = PluginInit(TmoDefault)

ResultValues ==
  {NoneV, None} \cup {IntV(t) : t \in TmoValues} \cup {CapsV, InfoV}
  \cup {ListV(k, n) : k \in {"volume", "pool", "system", "initiator"},
                      n \in 0..(MaxVolumes + ArrayPools + ArrayHosts)}
  \cup {PairV(j, i) : j \in JobIds \cup {NoJob}, i \in {"vol", NoItem}}
  \cup {JobIdV(j) : j \in JobIds} \cup {BoolV(b) : b \in BOOLEAN}
  \cup {StatusV(s, i) : s \in JobStates, i \in {"vol", NoItem}}
  \cup {Err(e) : e \in {"TRANSPORT_COMMUNICATION", "PLUGIN_ERROR", "PLUGIN_BUG",
                        "NOT_IMPLEMENTED", "NOT_FOUND_JOB", "NOT_FOUND_VOLUME",
                        "NO_SUPPORT", "NOT_FOUND_INITIATOR",
                        "UNSUPPORTED_INITIATOR_TYPE",
                        "UNSUPPORTED_SEARCH_KEY",
                        "ATTRIBUTE_ERROR"}}

ClientTypeOK ==
  /\ cstate \in {"init", "open", "closed", "failed"}
  /\ pending \in Calls \cup {NoCall}
  /\ outcome \in [call: Calls \cup {NoCall}, res: ResultValues]
  /\ waitJob \in JobIds \cup {NoJob}
  /\ observed \in [JobIds -> ResultValues]
  /\ lastSet \in TmoValues
  /\ plugin \in PluginStates
=============================================================================
