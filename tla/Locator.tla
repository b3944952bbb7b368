------------------------------- MODULE Locator -------------------------------
(***************************************************************************)
(* Plugin discovery in lsm.Client (src/python_binding/lsm/_client.py):    *)
(* Client.__init__ finding the socket of its URI's scheme, and            *)
(* Client.available_plugins listing every plugin, both through            *)
(* _check_daemon_exists.                                                   *)
(*                                                                         *)
(* The socket directory belongs to lsmd, which starts and stops plugins   *)
(* while the client scans it: a socket file may be present with a plugin  *)
(* listening ("live"), present with nobody listening ("dead": a plugin    *)
(* that exited without removing it), or absent.  Each file-system test,   *)
(* directory listing and connect is one step, so lsmd's changes interleave *)
(* with them.  What follows a successful connect in __init__ (__start,    *)
(* the plugin_register rpc) is LsmConnection's.                           *)
(***************************************************************************)
EXTENDS Naturals, FiniteSets

CONSTANTS
  Sockets,    \* socket file names lsmd may create under the base directory
  Target,     \* the scheme of the URI Client.__init__ is given
  MaxChurn    \* bound on lsmd's changes to the directory in one behaviour

ASSUME Target \in Sockets /\ MaxChurn \in Nat

VARIABLES
  dirExists,  \* os.path.exists(uds_path)
  sock,       \* socket file -> "absent" | "dead" | "live"
  op,         \* the call running: "none", "init" or "avail"
  pc,         \* its next step
  probe,      \* files of _check_daemon_exists's listing not yet tried
  walk,       \* files of available_plugins's listing not yet read
  n,          \* plugin_info replies collected (len(rc))
  res,        \* the last call and its result
  churn,      \* lsmd's changes so far
  stable,     \* ghost: sockets live ever since the call started
  seen,       \* ghost: sockets live at some time during the call
  quiet       \* ghost: lsmd changed nothing during the call

vars == <<dirExists, sock, op, pc, probe, walk, n, res, churn, stable, seen, quiet>>

SockStates == {"absent", "dead", "live"}

\* "list": available_plugins returned a list of n pairs.
Results ==
  {"none", "connected", "list", "TRANSPORT_COMMUNICATION", "PLUGIN_NOT_EXIST",
   "DAEMON_NOT_RUNNING"}

Files == {s \in Sockets : sock[s] # "absent"}
Live  == {s \in Sockets : sock[s] = "live"}

Init ==
  /\ dirExists \in BOOLEAN
  /\ sock \in [Sockets -> SockStates]
  /\ ~dirExists => Files = {}
  /\ op = "none"
  /\ pc = "idle"
  /\ probe = {}
  /\ walk = {}
  /\ n = 0
  /\ res = [of |-> "none", r |-> "none", n |-> 0]
  /\ churn = 0
  /\ stable = {}
  /\ seen = {}
  /\ quiet = TRUE

Env == <<dirExists, sock, churn>>
Ghost == <<stable, seen, quiet>>

\* The call returns r.
Finish(r) ==
  /\ res' = [of |-> op, r |-> r, n |-> n]
  /\ op' = "none"
  /\ pc' = "idle"
  /\ probe' = {}
  /\ walk' = {}

(***************************************************************************)
(* A caller constructs a Client, or calls available_plugins.              *)
(***************************************************************************)
Start(o) ==
  /\ op = "none"
  /\ op' = o
  /\ pc' = IF o = "init" THEN "exists" ELSE "check"
  /\ n' = 0
  /\ UNCHANGED res
  /\ stable' = Live
  /\ seen' = Live
  /\ quiet' = TRUE
  /\ UNCHANGED <<Env, probe, walk>>

\* __init__: `if os.path.exists(self.plugin_path)`.
InitExists ==
  /\ pc = "exists"
  /\ pc' = IF dirExists /\ sock[Target] # "absent" THEN "connect" ELSE "check"
  /\ UNCHANGED <<Env, op, probe, walk, n, res, Ghost>>

\* _TransPort.get_socket(self.plugin_path): a connect failure here is a
\* transport error.  Success goes on to __start.
InitConnect ==
  /\ pc = "connect"
  /\ Finish(IF sock[Target] = "live" THEN "connected" ELSE "TRANSPORT_COMMUNICATION")
  /\ UNCHANGED <<Env, n, Ghost>>

(***************************************************************************)
(* _check_daemon_exists: list the directory, connect to each file in      *)
(* turn, True at the first that accepts.                                  *)
(***************************************************************************)
CheckList ==
  /\ pc = "check"
  /\ probe' = IF dirExists THEN Files ELSE {}
  /\ pc' = "probe"
  /\ UNCHANGED <<Env, op, walk, n, res, Ghost>>

\* What the caller of _check_daemon_exists does with its answer.
AfterCheck(found) ==
  CASE ~found          -> Finish("DAEMON_NOT_RUNNING")
    [] op = "init"     -> Finish("PLUGIN_NOT_EXIST")
    [] OTHER           -> /\ pc' = "list"
                          /\ probe' = {}
                          /\ UNCHANGED <<op, walk, res>>

\* Mutant: a failed connect ends the scan (`return False` for `pass`).
CheckProbeGivesUp(s) ==
  /\ pc = "probe"
  /\ s \in probe
  /\ AfterCheck(sock[s] = "live")
  /\ UNCHANGED <<Env, n, Ghost>>

\* Mutant: a failed connect is retried on the same file.
CheckProbeRetry(s) ==
  /\ pc = "probe"
  /\ s \in probe
  /\ IF sock[s] = "live"
     THEN AfterCheck(TRUE)
     ELSE UNCHANGED <<op, pc, probe, walk, res>>
  /\ UNCHANGED <<Env, n, Ghost>>

CheckProbe(s) ==
  /\ pc = "probe"
  /\ s \in probe
  /\ IF sock[s] = "live"
     THEN AfterCheck(TRUE)
     ELSE /\ probe' = probe \ {s}
          /\ UNCHANGED <<op, pc, walk, res>>
  /\ UNCHANGED <<Env, n, Ghost>>

CheckDone ==
  /\ pc = "probe"
  /\ probe = {}
  /\ AfterCheck(FALSE)
  /\ UNCHANGED <<Env, n, Ghost>>

(***************************************************************************)
(* available_plugins, after the daemon check: list the directory again,  *)
(* and for each file connect, rpc('plugin_info'), close.  A connect or    *)
(* rpc failure propagates out of the loop.                                *)
(***************************************************************************)
ListWalk ==
  /\ pc = "list"
  /\ walk' = IF dirExists THEN Files ELSE {}
  /\ pc' = "info"
  /\ UNCHANGED <<Env, op, probe, n, res, Ghost>>

\* Mutant: the loop is advanced without consuming the file.
ListInfoNoAdvance(s) ==
  /\ pc = "info"
  /\ s \in walk
  /\ IF sock[s] = "live"
     THEN n' = n + 1 /\ UNCHANGED <<op, pc, probe, walk, res>>
     ELSE Finish("TRANSPORT_COMMUNICATION") /\ UNCHANGED n
  /\ UNCHANGED <<Env, Ghost>>

ListInfo(s) ==
  /\ pc = "info"
  /\ s \in walk
  /\ IF sock[s] = "live"
     THEN /\ n' = n + 1
          /\ walk' = walk \ {s}
          /\ UNCHANGED <<op, pc, probe, res>>
     ELSE Finish("TRANSPORT_COMMUNICATION") /\ UNCHANGED n
  /\ UNCHANGED <<Env, Ghost>>

\* Mutant: the last file of the listing is never read.
ListDoneEarly ==
  /\ pc = "info"
  /\ Cardinality(walk) <= 1
  /\ Finish("list")
  /\ UNCHANGED <<Env, n, Ghost>>

ListDone ==
  /\ pc = "info"
  /\ walk = {}
  /\ Finish("list")
  /\ UNCHANGED <<Env, n, Ghost>>

(***************************************************************************)
(* lsmd: a plugin starts (its socket becomes live), exits or crashes      *)
(* (the file stays, dead), or its file is removed.                        *)
(***************************************************************************)
Churn(s, st) ==
  /\ dirExists
  /\ churn < MaxChurn
  /\ st # sock[s]
  /\ sock' = [sock EXCEPT ![s] = st]
  /\ churn' = churn + 1
  /\ stable' = IF st = "live" \/ op = "none" THEN stable ELSE stable \ {s}
  /\ seen' = IF st = "live" /\ op # "none" THEN seen \cup {s} ELSE seen
  /\ quiet' = FALSE
  /\ UNCHANGED <<dirExists, op, pc, probe, walk, n, res>>

Next ==
  \/ \E o \in {"init", "avail"} : Start(o)
  \/ InitExists
  \/ InitConnect
  \/ CheckList
  \/ \E s \in Sockets : CheckProbe(s)
  \/ CheckDone
  \/ ListWalk
  \/ \E s \in Sockets : ListInfo(s)
  \/ ListDone
  \/ \E s \in Sockets, st \in SockStates : Churn(s, st)

Spec == Init /\ [][Next]_vars

\* A step of the calling thread.  It runs straight-line Python whose only
\* waits are file-system calls and connects to Unix sockets, which return
\* (a refused connect fails at once); so it is weakly fair.  lsmd's
\* changes and a caller's next call get no fairness.
ClientStep ==
  \/ InitExists \/ InitConnect \/ CheckList \/ CheckDone
  \/ ListWalk \/ ListDone
  \/ \E s \in Sockets : CheckProbe(s) \/ ListInfo(s)

FairSpec == Spec /\ WF_vars(ClientStep)

(***************************************************************************)
(* Properties.  A result is judged when the call has returned             *)
(* (op = "none"), against what the directory held during the call.        *)
(***************************************************************************)

TypeOK ==
  /\ dirExists \in BOOLEAN
  /\ sock \in [Sockets -> SockStates]
  /\ op \in {"none", "init", "avail"}
  /\ pc \in {"idle", "exists", "connect", "check", "probe", "list", "info"}
  /\ probe \subseteq Sockets
  /\ walk \subseteq Sockets
  /\ n \in 0..Cardinality(Sockets)
  /\ res \in [of: {"none", "init", "avail"}, r: Results, n: 0..Cardinality(Sockets)]
  /\ churn \in 0..MaxChurn
  /\ stable \subseteq Sockets /\ seen \subseteq Sockets /\ quiet \in BOOLEAN

\* "Daemon not running" is never reported while some plugin answered
\* throughout the call (spec 4.1, 4.5): _check_daemon_exists tries every
\* file of its listing before it answers False.
NoDaemonOnlyIfNoneAnswered ==
  op = "none" /\ res.r = "DAEMON_NOT_RUNNING" => stable = {}

\* A listing counts every plugin that was live throughout the call and
\* only plugins that were live at some time during it: the walk neither
\* skips a file nor counts one twice.
ListingCountsLive ==
  op = "none" /\ res.r = "list" =>
     Cardinality(stable) <= res.n /\ res.n <= Cardinality(seen)

\* Client() and available_plugins() always return, whatever lsmd does to
\* the directory between their steps: each walks a listing taken once,
\* tries each file of it once, and moves on past a file that refuses it.
CallReturns == op # "none" ~> op = "none"

\* available_plugins with zero live sockets fails with DAEMON_NOT_RUNNING;
\* with N live sockets it returns exactly N pairs (spec 8).  Judged for
\* calls during which lsmd changed nothing.
AvailableListsEveryLive ==
  op = "none" /\ res.of = "avail" /\ quiet =>
     IF Live = {} THEN res.r = "DAEMON_NOT_RUNNING"
     ELSE res.r = "list" /\ res.n = Cardinality(Live)
=============================================================================
