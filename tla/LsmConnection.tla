---------------------------- MODULE LsmConnection ----------------------------
(***************************************************************************)
(* One Client connection end to end: the Client and its caller            *)
(* (LsmClient), the Unix domain socket between them and the plugin, and   *)
(* the plugin process serving requests one at a time (LsmPlugin).         *)
(*                                                                         *)
(* The socket is a pair of FIFO byte streams, modelled as sequences of    *)
(* whole messages.  TransPort.rpc writes the request and blocks reading   *)
(* the next reply; nothing on the wire says which request a reply         *)
(* answers.                                                               *)
(***************************************************************************)
EXTENDS LsmClient, Sequences

CONSTANTS
  ReadTimeout,  \* TRUE: the blocking read of a reply can time out
  MaxTimeouts   \* bound on read timeouts in one behaviour

ASSUME ReadTimeout \in BOOLEAN /\ MaxTimeouts \in Nat

VARIABLES
  req,       \* requests written by the client, not yet read by the plugin
  resp,      \* replies written by the plugin, not yet read by the client
  timeouts   \* read timeouts so far

vars == <<clientVars, req, resp, timeouts>>

Init ==
  /\ ClientInit
  /\ req = << pending >>
  /\ resp = << >>
  /\ timeouts = 0

(***************************************************************************)
(* Client side.                                                            *)
(***************************************************************************)

\* A stub calls self._tp.rpc(name, args): the request is written.
Send(c) ==
  /\ Invoke(c)
  /\ req' = Append(req, c)
  /\ UNCHANGED <<resp, timeouts>>

\* The blocking read returns the next reply on the socket; the stub
\* validates it and returns or raises.
Receive ==
  /\ pending # NoCall
  /\ resp # << >>
  /\ Complete(StubResult(pending, Head(resp)))
  /\ resp' = Tail(resp)
  /\ UNCHANGED <<req, timeouts>>

\* The read gives up: TRANSPORT_COMMUNICATION.  The request may be unread
\* or being served; its reply, if any, stays in the socket.  The Client
\* keeps the socket (self._tp is unchanged).
TimeOut ==
  /\ ReadTimeout
  /\ pending # NoCall
  /\ timeouts < MaxTimeouts
  /\ Complete(Err("TRANSPORT_COMMUNICATION"))
  /\ timeouts' = timeouts + 1
  /\ UNCHANGED <<req, resp>>

LocalOnly(A) == A /\ UNCHANGED <<req, resp, timeouts>>

(***************************************************************************)
(* Plugin side: read one request, run its handler, write the reply.       *)
(***************************************************************************)
Serve ==
  /\ req # << >>
  /\ LET c == Head(req) IN
       \E o \in Handle(c.op, c.arg, plugin) :
         /\ plugin' = o.st
         /\ resp' = Append(resp, o.reply)
  /\ req' = Tail(req)
  /\ UNCHANGED <<cstate, pending, outcome, waitJob, observed, lastSet, timeouts>>

Next ==
  \/ \E c \in Calls : Send(c)
  \/ Receive
  \/ TimeOut
  \/ Serve
  \/ \E o \in SearchOps, k \in CallerKeys : LocalOnly(RejectSearchKey(o, k))
  \/ \E c \in Calls : LocalOnly(UseAfterClose(c))
  \/ \E j \in JobIds : LocalOnly(ArrayProgress(j))
  \/ LocalOnly(Stopped)

(***************************************************************************)
(* Fairness.  The plugin process serves what it reads, the client's read  *)
(* returns once a reply is there, the array finishes its jobs, and        *)
(* wait_to_finish, a loop with no exit but the job's end, keeps polling.  *)
(* Nothing obliges the caller to make any other call.                     *)
(***************************************************************************)
WaitStep == Waiting /\ \E c \in CallerCalls : Send(c)

Fairness ==
  /\ WF_vars(Serve)
  /\ WF_vars(Receive)
  /\ WF_vars(WaitStep)
  /\ \A j \in JobIds : WF_vars(LocalOnly(ArrayProgress(j)))

Spec == Init /\ [][Next]_vars /\ Fairness

(***************************************************************************)
(* Properties.                                                            *)
(***************************************************************************)

TypeOK ==
  /\ ClientTypeOK
  /\ req \in Seq(Calls)
  /\ resp \in Seq(ResultValues)
  /\ timeouts \in 0..MaxTimeouts

\* Every job the plugin starts is eventually reaped by job_free: the
\* wait_to_finish loop polls it to its end and frees it (spec 4.3).
NoJobLeak ==
  \A j \in JobIds : (plugin.jobs[j] = "inprogress") ~> (plugin.jobs[j] = "freed")

\* time_out_set(x) followed by time_out_get() returns x (spec 8, and
\* _TestClient.test_tmo), across the reconnect time_out_set makes: a
\* time_out_get that returns, rather than raises, returns the caller's
\* latest time_out_set, whatever a timed-out call left on the socket.
TimeoutRoundTrip ==
  [][outcome'.call.op = "time_out_get" /\ outcome'.res.shape # "error"
       => outcome'.res = IntV(lastSet')]_outcome

\* volumes() without a search key lists the array's volumes:
\* _TestClient.test_volumes asserts len(volumes()) == num_volumes after
\* its creates.  With the V7000 plugin, whose volumes change only by the
\* caller's own calls, a volumes() that returns a list returns as many
\* volumes as the array holds, whatever reply a timed-out call left on
\* the socket: _return_requires([Volume]) must turn any other list away.
VolumesCountsArray ==
  [][outcome'.call = Call("volumes", NoKey) /\ outcome'.res.shape = "list"
       => outcome'.res.n = plugin'.vols]_outcome

\* PLUGIN_BUG means a plugin broke its own protocol, "never expected in
\* correct operation" (spec 4.2 and 7): no stub call of the caller ends
\* in PLUGIN_BUG, whether the plugin reports it (a failed link to the
\* array) or the stub's _return_requires raises it (a reply of a shape
\* the stub does not declare).
NoPluginBugReported == outcome.res # Err("PLUGIN_BUG")

=============================================================================
