---------------------------- MODULE MC_V7kHostMap ----------------------------
(* Two plugin processes, two initiators, two volumes, three host ids.     *)
EXTENDS V7kHostMap, TLC

CONSTANTS p1, p2, i1, i2, v1, v2, h1, h2, h3

MC_Procs      == {p1, p2}
MC_Initiators == {i1, i2}
MC_Volumes    == {v1, v2}
MC_HostIds    == {h1, h2, h3}

\* Processes, initiators, volumes and host ids are interchangeable: no
\* definition singles one out.
MC_Symmetry ==
  Permutations(MC_Procs) \cup Permutations(MC_Initiators)
  \cup Permutations(MC_Volumes) \cup Permutations(MC_HostIds)
=============================================================================
