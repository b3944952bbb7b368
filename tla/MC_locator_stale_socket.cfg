\* available_plugins() over a directory lsmd leaves alone.
CONSTANTS
  Sockets <- MC_Sockets
  Target = sA
  MaxChurn = 0
  sA = sA
  sB = sB
  sC = sC
SPECIFICATION Spec
INVARIANT AvailableListsEveryLive
