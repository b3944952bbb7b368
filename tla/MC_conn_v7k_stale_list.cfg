\* The IBM V7000 plugin; one read of a reply may time out; the caller lists volumes and pools.
CONSTANTS
  PluginKind = "v7k"
  JobIds <- MC_JobIds
  TmoValues <- MC_TmoValues
  TmoDefault = 30000
  MaxVolumes = 2
  CallerKeys <- MC_CallerKeys
  SupportedKeys <- MC_Supported
  NoKey = kNone
  KeyEmpty = kEmpty
  CallerOps <- MC_CallerOpsDelete
  WaitDeletes = FALSE
  NoJob = NoJob
  NoItem = NoItem
  ReadTimeout = TRUE
  MaxTimeouts = 1
  j1 = j1
  j2 = j2
  kNone = kNone
  kEmpty = kEmpty
  kId = kId
  kBogus = kBogus
SPECIFICATION Spec
PROPERTY VolumesCountsArray
