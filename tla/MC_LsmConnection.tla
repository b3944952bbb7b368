-------------------------- MODULE MC_LsmConnection --------------------------
(***************************************************************************)
(* Model values and bounds for checking LsmConnection with TLC.           *)
(***************************************************************************)
EXTENDS LsmConnection

CONSTANTS j1, j2, kNone, kEmpty, kId, kBogus

MC_JobIds      == {j1, j2}
MC_TmoValues   == {30000, 40000}
MC_CallerKeys  == {kNone, kEmpty, kId, kBogus}
MC_Supported   == {kId}

\* _TestClient outside wait_to_finish: every stub it calls but
\* volume_delete (whose job it never waits for), and with it.
MC_CallerOps ==
  {"plugin_unregister", "time_out_set", "time_out_get", "job_status",
   "job_free", "volume_create", "volume_replicate", "volume_resize",
   "volume_offline", "volume_online", "volumes", "pools"}
MC_CallerOpsDelete == MC_CallerOps \cup {"volume_delete"}
MC_KeysNoEmpty     == {kNone, kId, kBogus}
\* ... and a caller that also grants and revokes volume access ...
MC_CallerOpsAll    == MC_CallerOpsDelete \cup {"initiator_grant", "initiator_revoke"}
\* ... and, with the V7000 plugin, revokes and reads the system, its
\* capabilities, the plugin's description, the initiators and who has
\* access to what.  No grant: its bool reply, left on the socket by a
\* timed-out read, passes time_out_get's int check (README).
MC_CallerOpsInfo   == (MC_CallerOpsAll \ {"initiator_grant"})
                      \cup {"systems", "capabilities", "plugin_info"}
                      \cup MaskingReadOps
MC_GrantOps        == {"initiator_grant"}
=============================================================================
