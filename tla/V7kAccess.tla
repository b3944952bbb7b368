------------------------------ MODULE V7kAccess ------------------------------
(***************************************************************************)
(* What volume masking promises a caller (the Client's docstrings:       *)
(* initiator_grant "allows an initiator to access a volume",              *)
(* initiator_revoke "revokes access to a volume for the specified         *)
(* initiator"), stated over the access relation alone: the set of         *)
(* <<initiator, volume>> pairs the array lets through.  Each call changes *)
(* the relation at most once, somewhere between its start and its return, *)
(* and only in its own pair; nothing else changes it.  A call may also    *)
(* end without having changed it (an error, or the pair already there).  *)
(***************************************************************************)
CONSTANTS Procs, Initiators, Volumes, NoCall

VARIABLES
  access,   \* set of <<initiator, volume>> pairs with access
  call,     \* per process: the grant or revoke in progress, or NoCall
  applied   \* per process: the call has made its change

vars == <<access, call, applied>>

Calls == [kind: {"grant", "revoke"}, init: Initiators, vol: Volumes]

\* The access relation after the call's change.
Effect(c) ==
  IF c.kind = "grant" THEN access \cup {<<c.init, c.vol>>}
  ELSE access \ {<<c.init, c.vol>>}

Init ==
  /\ access \in SUBSET (Initiators \X Volumes)
  /\ call = [p \in Procs |-> NoCall]
  /\ applied = [p \in Procs |-> FALSE]

\* A grant or revoke call begins.
Start(p) ==
  /\ call[p] = NoCall
  /\ call'[p] \in Calls
  /\ \A q \in Procs \ {p} : call'[q] = call[q]
  /\ UNCHANGED <<access, applied>>

Apply(p) ==
  /\ call[p] # NoCall /\ ~applied[p]
  /\ access' = Effect(call[p])
  /\ applied' = [applied EXCEPT ![p] = TRUE]
  /\ UNCHANGED call

\* The call returns, making its change in this very step if it has not
\* made it yet, or without making it.
Finish(p) ==
  /\ call[p] # NoCall
  /\ \/ access' = access
     \/ ~applied[p] /\ access' = Effect(call[p])
  /\ call' = [call EXCEPT ![p] = NoCall]
  /\ applied' = [applied EXCEPT ![p] = FALSE]

Next == \E p \in Procs : Start(p) \/ Apply(p) \/ Finish(p)

Spec == Init /\ [][Next]_vars

=============================================================================
