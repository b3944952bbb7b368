------------------------------ MODULE V7kHostMap ------------------------------
(***************************************************************************)
(* Volume masking in the IBM V7000 plugin (src/plugin/v7k/ibmv7k.py):     *)
(* initiator_grant and initiator_revoke, and the calls that read access   *)
(* back (initiators, volumes_accessible_by_initiator,                     *)
(* initiators_granted_to_volume), run by several plugin processes (one    *)
(* per Client connection) against one array.                              *)
(*                                                                         *)
(* The array knows hosts, each with a numeric id and the initiator's      *)
(* WWPN or iSCSI name, and host-to-volume mappings.  The plugin speaks to *)
(* it one CLI command at a time over SSH; each command is atomic at the   *)
(* array, and nothing holds the array still between two commands.  Each  *)
(* command is one step here, so the commands of different processes      *)
(* interleave.                                                             *)
(***************************************************************************)
EXTENDS Naturals, FiniteSets

CONSTANTS
  Procs,        \* plugin processes (one per connected Client)
  Initiators,   \* initiator ids (WWPN / iSCSI name) callers pass
  Volumes,      \* volume ids
  HostIds,      \* host ids the array can assign
  NoHost,       \* v7k_init_id = None
  IdReuse,      \* TRUE: mkhost may assign the id of a deleted host
  MaxFailures,  \* bound on CLI commands that fail (V7kError)
  MaxCalls      \* bound on grant and revoke calls in one behaviour

ASSUME NoHost \notin HostIds /\ IdReuse \in BOOLEAN /\ MaxFailures \in Nat
ASSUME MaxCalls \in Nat

VARIABLES
  hosts,      \* the array: host id -> initiator, or NoHost if no such host
  maps,       \* the array: set of <<host id, volume>> mappings
  used,       \* host ids the array has ever assigned
  pc,         \* per process: the command it runs next, or "idle"
  op,         \* per process: the call being served
  todo,       \* per process: hosts of the lshost listing not yet examined
  found,      \* per process: v7k_init_id of the running lookup
  second,     \* per process: the lookup is the one after mkhost
  ret,        \* per process: the result of the last call (op[p] is the call)
  out,        \* per process: the list a read call builds (init_list, vol_list)
  failures,   \* CLI commands that have failed so far
  calls,      \* calls made so far
  requested,  \* ghost: <<initiator, volume>> pairs some caller asked to grant
  granted     \* ghost: pairs whose grant succeeded and no revoke followed

vars == <<hosts, maps, used, pc, op, todo, found, second, ret, out,
          failures, calls, requested, granted>>

InitTypes == {"port_wwn", "other"}   \* "iscsi" behaves as "port_wwn"
Access    == {"rw", "ro"}

GrantOps  == [kind: {"grant"}, init: Initiators, vol: Volumes,
              itype: InitTypes, access: Access]
RevokeOps == [kind: {"revoke"}, init: Initiators, vol: Volumes]
ReadOps   == [kind: {"vols_of"}, init: Initiators]
             \cup [kind: {"inits_of"}, vol: Volumes] \cup {[kind |-> "initiators"]}
NoOp      == [kind |-> "none"]

Results == {"OK", "PLUGIN_ERROR", "NOT_FOUND_INITIATOR",
            "UNSUPPORTED_INITIATOR_TYPE", "NO_SUPPORT"}

Live == {h \in HostIds : hosts[h] # NoHost}

HostOf(i) == {h \in Live : hosts[h] = i}

\* An array state: an initiator belongs to at most one host, and only live
\* hosts have mappings.
ArrayStates ==
  {hm \in [HostIds -> Initiators \cup {NoHost}] :
     \A g, h \in HostIds : hm[g] = hm[h] /\ hm[g] # NoHost => g = h}

Init ==
  /\ hosts \in ArrayStates
  /\ maps \in SUBSET ({h \in HostIds : hosts[h] # NoHost} \X Volumes)
  /\ used = {h \in HostIds : hosts[h] # NoHost}
  /\ pc = [p \in Procs |-> "idle"]
  /\ op = [p \in Procs |-> NoOp]
  /\ todo = [p \in Procs |-> {}]
  /\ found = [p \in Procs |-> NoHost]
  /\ second = [p \in Procs |-> FALSE]
  /\ ret = [p \in Procs |-> "OK"]
  /\ out = [p \in Procs |-> {}]
  /\ failures = 0
  /\ calls = 0
  /\ requested = {<<hosts[m[1]], m[2]>> : m \in maps}
  /\ granted = {}

Array == <<hosts, maps, used>>
Ghost == <<calls, requested, granted>>

\* The call returns (or raises) res; its locals are gone.  A grant counts as
\* granted unless a revoke of the same pair overlaps it (the two calls are
\* then unordered).
Revoking(g) ==
  \E q \in Procs : pc[q] # "idle" /\ op[q] = [kind |-> "revoke", init |-> g[1], vol |-> g[2]]

Return(p, res) ==
  /\ pc' = [pc EXCEPT ![p] = "idle"]
  /\ ret' = [ret EXCEPT ![p] = res]
  /\ todo' = [todo EXCEPT ![p] = {}]
  /\ found' = [found EXCEPT ![p] = NoHost]
  /\ second' = [second EXCEPT ![p] = FALSE]
  /\ granted' = IF op[p].kind = "grant" /\ res = "OK" /\ ~Revoking(<<op[p].init, op[p].vol>>)
                THEN granted \cup {<<op[p].init, op[p].vol>>} ELSE granted
  /\ UNCHANGED <<op, calls, requested>>

Goto(p, l) == pc' = [pc EXCEPT ![p] = l]

(***************************************************************************)
(* A call arrives.  initiator_grant refuses read-only access before any   *)
(* command; it, initiator_revoke and volumes_accessible_by_initiator then *)
(* look the initiator up; initiators() starts with lshost and             *)
(* initiators_granted_to_volume with lsvdiskhostmap.                      *)
\* Mutant: initiator_grant without its read-only check.
BeginAnyAccess(p, o) ==
  /\ pc[p] = "idle"
  /\ calls < MaxCalls
  /\ calls' = calls + 1
  /\ op' = [op EXCEPT ![p] = o]
  /\ Goto(p, CASE o.kind = "initiators" -> "lshost"
                 [] o.kind = "inits_of"   -> "vdiskmap"
                 [] OTHER                 -> "list")
  /\ UNCHANGED ret
  /\ out' = [out EXCEPT ![p] = {}]
  /\ requested' = IF o.kind = "grant" THEN requested \cup {<<o.init, o.vol>>}
                  ELSE requested
  /\ granted' = IF o.kind = "revoke" THEN granted \ {<<o.init, o.vol>>}
                ELSE granted
  /\ UNCHANGED <<hosts, maps, used, todo, found, second, failures>>

(***************************************************************************)
Begin(p, o) ==
  /\ pc[p] = "idle"
  /\ calls < MaxCalls
  /\ calls' = calls + 1
  /\ op' = [op EXCEPT ![p] = o]
  /\ IF o.kind = "grant" /\ o.access # "rw"
     THEN ret' = [ret EXCEPT ![p] = "NO_SUPPORT"] /\ UNCHANGED pc
     ELSE /\ Goto(p, CASE o.kind = "initiators" -> "lshost"
                          [] o.kind = "inits_of"   -> "vdiskmap"
                          [] OTHER                 -> "list")
          /\ UNCHANGED ret
  /\ out' = [out EXCEPT ![p] = {}]
  /\ requested' = IF o.kind = "grant" THEN requested \cup {<<o.init, o.vol>>}
                  ELSE requested
  /\ granted' = IF o.kind = "revoke" THEN granted \ {<<o.init, o.vol>>}
                ELSE granted
  /\ UNCHANGED <<hosts, maps, used, todo, found, second, failures>>

(***************************************************************************)
(* _map_lsm_init_id_to_v7k: lshost lists the hosts, then lshost <id>      *)
(* reads each one and keeps the id whose WWPN or iSCSI name is the        *)
(* initiator.                                                              *)
(***************************************************************************)
List(p) ==
  /\ pc[p] = "list"
  /\ todo' = [todo EXCEPT ![p] = Live]
  /\ Goto(p, "detail")
  /\ UNCHANGED <<out, Array, op, found, second, ret, failures, Ghost>>

\* Mutant: keeps the host's WWPN where the v7k id is meant (the terminology
\* gap the NOTE in _initiator warns of).
DetailKeepsName(p, h) ==
  /\ pc[p] = "detail"
  /\ h \in todo[p]
  /\ IF hosts[h] = NoHost
     THEN Return(p, "PLUGIN_ERROR")
     ELSE /\ todo' = [todo EXCEPT ![p] = @ \ {h}]
          /\ found' = IF hosts[h] = op[p].init
                      THEN [found EXCEPT ![p] = hosts[h]] ELSE found
          /\ UNCHANGED <<pc, op, second, ret, Ghost>>
  /\ UNCHANGED <<out, Array, failures>>

\* Mutant: `if 'WWPN' in v7kinit` without comparing it to the initiator.
DetailAnyHost(p, h) ==
  /\ pc[p] = "detail"
  /\ h \in todo[p]
  /\ IF hosts[h] = NoHost
     THEN Return(p, "PLUGIN_ERROR")
     ELSE /\ todo' = [todo EXCEPT ![p] = @ \ {h}]
          /\ found' = [found EXCEPT ![p] = h]
          /\ UNCHANGED <<pc, op, second, ret, Ghost>>
  /\ UNCHANGED <<out, Array, failures>>

\* lshost <id> of a host deleted since the listing fails (V7kError).
Detail(p, h) ==
  /\ pc[p] = "detail"
  /\ h \in todo[p]
  /\ IF hosts[h] = NoHost
     THEN Return(p, "PLUGIN_ERROR")
     ELSE /\ todo' = [todo EXCEPT ![p] = @ \ {h}]
          /\ found' = IF hosts[h] = op[p].init
                      THEN [found EXCEPT ![p] = h] ELSE found
          /\ UNCHANGED <<pc, op, second, ret, Ghost>>
  /\ UNCHANGED <<out, Array, failures>>

\* The loop is over.  `if not v7k_init_id: raise NOT_FOUND_INITIATOR`;
\* _initiator_grant catches it from the first lookup only, and then
\* creates the host (_initiator_create refuses other initiator types);
\* for the other calls it is the call's error.
Looked(p) ==
  /\ pc[p] = "detail"
  /\ todo[p] = {}
  /\ CASE found[p] # NoHost ->
            /\ Goto(p, CASE op[p].kind = "grant"  -> "mkmap"
                          [] op[p].kind = "revoke" -> "unmap"
                          [] OTHER                 -> "hostmaps")
            /\ UNCHANGED <<ret, todo, found, second, Ghost>>
       [] op[p].kind # "grant" \/ second[p] ->
            Return(p, "NOT_FOUND_INITIATOR")
       [] op[p].itype = "other" ->
            Return(p, "UNSUPPORTED_INITIATOR_TYPE")
       [] OTHER ->
            /\ Goto(p, "mkhost")
            /\ UNCHANGED <<ret, todo, found, second, Ghost>>
  /\ UNCHANGED <<out, Array, op, failures>>

\* Ids the array may give a new host.
FreeIds == IF IdReuse THEN HostIds \ Live ELSE HostIds \ used

\* mkhost -hbawwpn|-iscsiname <init>: refused if a host already has that
\* initiator; else the array assigns an id.  Then the second lookup.
MkHost(p) ==
  /\ pc[p] = "mkhost"
  /\ IF HostOf(op[p].init) # {} \/ FreeIds = {}
     THEN Return(p, "PLUGIN_ERROR") /\ UNCHANGED <<out, Array, failures>>
     ELSE /\ \E h \in FreeIds :
               /\ hosts' = [hosts EXCEPT ![h] = op[p].init]
               /\ used' = used \cup {h}
          /\ second' = [second EXCEPT ![p] = TRUE]
          /\ Goto(p, "list")
          /\ UNCHANGED <<out, maps, op, todo, found, ret, failures, Ghost>>

\* mkvdiskhostmap -force -host <id> <vol>: fails if the host is gone or the
\* mapping exists.  initiator_grant returns the command's success.
MkMap(p) ==
  /\ pc[p] = "mkmap"
  /\ LET m == <<found[p], op[p].vol>> IN
       IF hosts[found[p]] = NoHost \/ m \in maps
       THEN Return(p, "PLUGIN_ERROR") /\ UNCHANGED maps
       ELSE Return(p, "OK") /\ maps' = maps \cup {m}
  /\ UNCHANGED <<out, hosts, used, failures>>

\* Mutant: rmvdiskhostmap without -host drops every host's mapping of the
\* volume.
UnmapVolume(p) ==
  /\ pc[p] = "unmap"
  /\ LET m == <<found[p], op[p].vol>> IN
       IF m \notin maps
       THEN Return(p, "PLUGIN_ERROR") /\ UNCHANGED maps
       ELSE /\ maps' = {n \in maps : n[2] # op[p].vol}
            /\ Goto(p, "rmhost")
            /\ UNCHANGED <<op, todo, found, second, ret, Ghost>>
  /\ UNCHANGED <<out, hosts, used, failures>>

\* rmvdiskhostmap -host <id> <vol>: fails if there is no such mapping.
Unmap(p) ==
  /\ pc[p] = "unmap"
  /\ LET m == <<found[p], op[p].vol>> IN
       IF m \notin maps
       THEN Return(p, "PLUGIN_ERROR") /\ UNCHANGED maps
       ELSE /\ maps' = maps \ {m}
            /\ Goto(p, "rmhost")
            /\ UNCHANGED <<op, todo, found, second, ret, Ghost>>
  /\ UNCHANGED <<out, hosts, used, failures>>

\* Mutant: rmhost with -force, which also drops the host's mappings.
RmHostForce(p) ==
  /\ pc[p] = "rmhost"
  /\ IF hosts[found[p]] = NoHost
     THEN UNCHANGED <<hosts, maps>>
     ELSE /\ hosts' = [hosts EXCEPT ![found[p]] = NoHost]
          /\ maps' = {m \in maps : m[1] # found[p]}
  /\ Return(p, "OK")
  /\ UNCHANGED <<out, used, failures>>

\* rmhost <id> without -force: the array refuses while the host has
\* mappings, and the error is swallowed.  The revoke returns.
RmHost(p) ==
  /\ pc[p] = "rmhost"
  /\ IF hosts[found[p]] = NoHost \/ \E m \in maps : m[1] = found[p]
     THEN UNCHANGED hosts
     ELSE hosts' = [hosts EXCEPT ![found[p]] = NoHost]
  /\ Return(p, "OK")
  /\ UNCHANGED <<out, maps, used, failures>>

(***************************************************************************)
(* The read calls.                                                        *)
(***************************************************************************)

\* Mutant: lshostvdiskmap without its host argument lists every mapping.
HostMapsAll(p) ==
  /\ pc[p] = "hostmaps"
  /\ IF hosts[found[p]] = NoHost
     THEN Return(p, "PLUGIN_ERROR") /\ UNCHANGED out
     ELSE /\ out' = [out EXCEPT ![p] = {m[2] : m \in maps}]
          /\ Return(p, "OK")
  /\ UNCHANGED <<Array, failures>>

\* volumes_accessible_by_initiator, after the lookup: lshostvdiskmap <id>
\* (refused if the host is gone), then lsvdisk of each volume listed.  The
\* volumes are never deleted here, so the lsvdisk reads fail only as any
\* command does (Fail).
HostMaps(p) ==
  /\ pc[p] = "hostmaps"
  /\ IF hosts[found[p]] = NoHost
     THEN Return(p, "PLUGIN_ERROR") /\ UNCHANGED out
     ELSE /\ out' = [out EXCEPT ![p] = {m[2] : m \in {n \in maps : n[1] = found[p]}}]
          /\ Return(p, "OK")
  /\ UNCHANGED <<Array, failures>>

\* initiators: lshost lists the hosts.
ListHosts(p) ==
  /\ pc[p] = "lshost"
  /\ todo' = [todo EXCEPT ![p] = Live]
  /\ Goto(p, "hostdetail")
  /\ UNCHANGED <<Array, op, found, second, ret, out, failures, Ghost>>

\* initiators_granted_to_volume: lsvdiskhostmap <vol> lists the hosts
\* mapped to the volume.
VdiskHostMap(p) ==
  /\ pc[p] = "vdiskmap"
  /\ todo' = [todo EXCEPT ![p] = {m[1] : m \in {n \in maps : n[2] = op[p].vol}}]
  /\ Goto(p, "hostdetail")
  /\ UNCHANGED <<Array, op, found, second, ret, out, failures, Ghost>>

\* Both then read each listed host with lshost <id> (refused if it is gone
\* since) and append _initiator(host), whose id is its WWPN or iSCSI name.
HostDetail(p, h) ==
  /\ pc[p] = "hostdetail"
  /\ h \in todo[p]
  /\ IF hosts[h] = NoHost
     THEN Return(p, "PLUGIN_ERROR") /\ UNCHANGED out
     ELSE /\ todo' = [todo EXCEPT ![p] = @ \ {h}]
          /\ out' = [out EXCEPT ![p] = @ \cup {hosts[h]}]
          /\ UNCHANGED <<pc, op, found, second, ret, Ghost>>
  /\ UNCHANGED <<Array, failures>>

HostsRead(p) ==
  /\ pc[p] = "hostdetail"
  /\ todo[p] = {}
  /\ Return(p, "OK")
  /\ UNCHANGED <<Array, out, failures>>

\* Any CLI command can fail on the array (non-zero exit: V7kError, raised
\* as PLUGIN_ERROR).  Only the revoke's rmhost failure is swallowed.
Fail(p) ==
  /\ pc[p] \in {"list", "detail", "mkhost", "mkmap", "unmap", "rmhost",
               "hostmaps", "lshost", "vdiskmap", "hostdetail"}
  /\ failures < MaxFailures
  /\ failures' = failures + 1
  /\ Return(p, IF pc[p] = "rmhost" THEN "OK" ELSE "PLUGIN_ERROR")
  /\ UNCHANGED <<Array, out>>

Next ==
  \E p \in Procs :
     \/ \E o \in GrantOps \cup RevokeOps \cup ReadOps : Begin(p, o)
     \/ List(p)
     \/ \E h \in HostIds : Detail(p, h)
     \/ Looked(p)
     \/ MkHost(p)
     \/ MkMap(p)
     \/ Unmap(p)
     \/ RmHost(p)
     \/ HostMaps(p)
     \/ ListHosts(p)
     \/ VdiskHostMap(p)
     \/ \E h \in HostIds : HostDetail(p, h)
     \/ HostsRead(p)
     \/ Fail(p)

Spec == Init /\ [][Next]_vars

(***************************************************************************)
(* Properties.                                                            *)
(***************************************************************************)

TypeOK ==
  /\ hosts \in [HostIds -> Initiators \cup {NoHost}]
  /\ maps \subseteq HostIds \X Volumes
  /\ used \subseteq HostIds
  /\ pc \in [Procs -> {"idle", "list", "detail", "mkhost", "mkmap",
                       "unmap", "rmhost", "hostmaps", "lshost",
                       "vdiskmap", "hostdetail"}]
  /\ op \in [Procs -> GrantOps \cup RevokeOps \cup ReadOps \cup {NoOp}]
  /\ todo \in [Procs -> SUBSET HostIds]
  /\ found \in [Procs -> HostIds \cup {NoHost}]
  /\ second \in [Procs -> BOOLEAN]
  /\ ret \in [Procs -> Results]
  /\ out \in [Procs -> SUBSET (Initiators \cup Volumes)]
  /\ failures \in 0..MaxFailures
  /\ calls \in 0..MaxCalls

\* Access is only what was asked for: every mapping on the array gives a
\* volume to an initiator some caller granted it to.  A grant looks the
\* host id up and maps it several commands later; a revoke of another
\* initiator's volume must not touch this one (rmvdiskhostmap by id).
AccessOnlyAsGranted ==
  \A m \in maps : hosts[m[1]] # NoHost /\ <<hosts[m[1]], m[2]>> \in requested

\* A grant that returned success keeps its access until the caller revokes
\* it, whatever other processes revoke meanwhile: the revoke's rmhost runs
\* without -force, so the array refuses to drop a host that still has
\* mappings.
GrantedAccessPersists ==
  \A g \in granted : \E h \in HostOf(g[1]) : <<h, g[2]>> \in maps

\* Grant and revoke are atomic, per pair: the access the array gives
\* (which initiator's host is mapped to which volume) changes only by one
\* command of a running initiator_grant or initiator_revoke, in the
\* caller's own <<initiator, volume>> pair, at most once per call, although
\* the call finds the host by a lshost scan, may create it and
\* (revoke) delete it afterwards, and other processes do the same
\* meanwhile.  The read calls never change access.
Abs == INSTANCE V7kAccess WITH
         access  <- {<<hosts[m[1]], m[2]>> : m \in maps},
         call    <- [p \in Procs |->
                       IF pc[p] # "idle" /\ op[p].kind \in {"grant", "revoke"}
                       THEN [kind |-> op[p].kind, init |-> op[p].init, vol |-> op[p].vol]
                       ELSE NoOp],
         applied <- [p \in Procs |-> pc[p] = "rmhost"],
         NoCall  <- NoOp

AccessSpec == Abs!Spec

\* What the read calls report is access some caller asked for: a
\* successful volumes_accessible_by_initiator(i) lists only volumes
\* granted to i, and initiators_granted_to_volume(v) only initiators v
\* was granted to.  Each looks a host id up and reads by it a command or
\* more later, while other processes revoke, delete and create hosts.
ReportedAccessWasRequested ==
  \A p \in Procs : pc[p] = "idle" /\ ret[p] = "OK" =>
     /\ op[p].kind = "vols_of"  => \A v \in out[p] : <<op[p].init, v>> \in requested
     /\ op[p].kind = "inits_of" => \A i \in out[p] : <<i, op[p].vol>> \in requested

(***************************************************************************)
(* The same handlers as the connection model sees them.  LsmPlugin        *)
(* abstracts each V7000 handler to the set of replies it can send, over   *)
(* an SSH session that is up; this process-level model runs the commands  *)
(* behind those replies.                                                  *)
(***************************************************************************)
Handler == INSTANCE LsmPlugin WITH
             PluginKind <- "v7k", JobIds <- {}, TmoValues <- {0},
             MaxVolumes <- Cardinality(Volumes), NoJob <- NoHost,
             NoItem <- NoHost, NoKey <- NoHost, SupportedKeys <- {}

\* A registered plugin with its session up, all volumes on the array.
SessionUp ==
  [Handler!PluginInit(0) EXCEPT !.reg = "registered", !.ssh = "up",
                                !.vols = Cardinality(Volumes)]

\* The request each call is sent as, and its argument.
WireOp == [grant |-> "initiator_grant", revoke |-> "initiator_revoke",
           vols_of |-> "volumes_accessible_by_initiator",
           inits_of |-> "initiators_granted_to_volume",
           initiators |-> "initiators"]

WireArg(o) == IF o.kind = "grant" THEN o.access ELSE NoHost

\* What process p sends back for its last call: an LsmError carries the
\* error code; initiator_grant returns _initiator_grant_is_success(stdout)
\* (mkvdiskhostmap printed "successfully created"), initiator_revoke
\* None, and the read calls one object per entry of their list.
Reply(p) ==
  CASE ret[p] # "OK"              -> Handler!Err(ret[p])
    [] op[p].kind = "grant"       -> Handler!BoolV(TRUE)
    [] op[p].kind = "revoke"      -> Handler!NoneV
    [] op[p].kind = "vols_of"     -> Handler!ListV("volume", Cardinality(out[p]))
    [] OTHER                      -> Handler!ListV("initiator", Cardinality(out[p]))

\* Every answer a plugin process gives, after any interleaving of the
\* commands of its grant, revoke or read with those of other processes,
\* is one the connection model's handler for that request offers: the
\* Client and the rest of the connection model see all the outcomes the
\* CLI sequences in ibmv7k.py can produce, the refusal of read-only
\* access and an initiator type _initiator_create rejects included.
RepliesAsHandlerOffers ==
  \A p \in Procs : pc[p] = "idle" /\ op[p] # NoOp =>
     \E o \in Handler!Handle(WireOp[op[p].kind], WireArg(op[p]), SessionUp) :
        o.reply = Reply(p)

=============================================================================
