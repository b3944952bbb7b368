\* Grant and revoke from two plugin processes; the array may give a new
\* host the id of a deleted one.
CONSTANTS
  Procs <- MC_Procs
  Initiators <- MC_Initiators
  Volumes <- MC_Volumes
  HostIds <- MC_HostIds
  NoHost = NoHost
  IdReuse = TRUE
  MaxFailures = 0
  MaxCalls = 3
  p1 = p1
  p2 = p2
  i1 = i1
  i2 = i2
  v1 = v1
  v2 = v2
  h1 = h1
  h2 = h2
  h3 = h3
SYMMETRY MC_Symmetry
SPECIFICATION Spec
INVARIANT AccessOnlyAsGranted
CHECK_DEADLOCK FALSE
