\* One window and one audio task, every kind of clear; the node may crash in
\* the middle of a job.
SPECIFICATION NodeSpec
CONSTANTS
  ThirdID = {1, 2}
  AudioTaskID = {256}
  VideoTaskID = {}
  AuViTaskID = {1536}
  WindowID = {1}
  AudioID = {2}
  SrcVideo = {src1}
  NoCrop = nocrop
  SwmsChn <- MCSwmsChn
  U32 = 8
  MaxPriorities = 4
  ClearTypes = {0, 1, 2}
  LinkFaults = {}
  ClientMistakes = FALSE
  Worker = {w1, w2}
  MaxQueue = 6
  Patient = TRUE
  CrashMidway = TRUE
INVARIANTS
  StoreTypeOK
  CountersMatch
PROPERTIES
  JobsGetDone
