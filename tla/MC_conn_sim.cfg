\* The job-capable plugin, reads that never time out; the caller polls
\* the jobs of volume_create and volume_delete and grants access.
CONSTANTS
  PluginKind = "sim"
  JobIds <- MC_JobIds
  TmoValues <- MC_TmoValues
  TmoDefault = 30000
  MaxVolumes = 2
  CallerKeys <- MC_CallerKeys
  SupportedKeys <- MC_Supported
  NoKey = kNone
  KeyEmpty = kEmpty
  CallerOps <- MC_CallerOpsAll
  WaitDeletes = TRUE
  NoJob = NoJob
  NoItem = NoItem
  ReadTimeout = FALSE
  MaxTimeouts = 0
  j1 = j1
  j2 = j2
  kNone = kNone
  kEmpty = kEmpty
  kId = kId
  kBogus = kBogus
SPECIFICATION Spec
INVARIANT TypeOK
PROPERTY NoJobLeak
