\* The IBM V7000 plugin; time_out_set whose reconnect fails, then a command.
CONSTANTS
  PluginKind = "v7k"
  JobIds <- MC_JobIds
  TmoValues <- MC_TmoValues
  TmoDefault = 30000
  MaxVolumes = 2
  CallerKeys <- MC_KeysNoEmpty
  SupportedKeys <- MC_Supported
  NoKey = kNone
  KeyEmpty = kEmpty
  CallerOps <- MC_CallerOpsDelete
  WaitDeletes = FALSE
  NoJob = NoJob
  NoItem = NoItem
  ReadTimeout = FALSE
  MaxTimeouts = 0
  j1 = j1
  j2 = j2
  kNone = kNone
  kEmpty = kEmpty
  kId = kId
  kBogus = kBogus
SPECIFICATION Spec
INVARIANT NoPluginBugReported
