\* Client() and available_plugins() while lsmd changes the socket
\* directory up to twice.
CONSTANTS
  Sockets <- MC_Sockets
  Target = sA
  MaxChurn = 2
  sA = sA
  sB = sB
  sC = sC
SPECIFICATION FairSpec
INVARIANT TypeOK
INVARIANT NoDaemonOnlyIfNoneAnswered
INVARIANT ListingCountsLive
PROPERTY CallReturns
