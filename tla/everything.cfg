\* Windows and audio, every fault, every clear, a client that mixes up its ids.
SPECIFICATION Spec
CONSTANTS
  ThirdID = {1, 2}
  AudioTaskID = {256}
  VideoTaskID = {}
  AuViTaskID = {1536}
  WindowID = {1, 2}
  AudioID = {2}
  SrcVideo = {src1}
  NoCrop = nocrop
  SwmsChn <- MCSwmsChn
  U32 = 4
  MaxPriorities = 2
  ClearTypes = {0, 1, 2}
  LinkFaults = {"fail", "late", "lost"}
  ClientMistakes = TRUE
VIEW NodeView
INVARIANTS
  TypeOK
  CountersMatch
  NoTaskLeaked
  ClearBarrier
PROPERTIES
  TaskOnlyWithSuccess
\* The worker may stop for good: see the run clear_aborted.
CHECK_DEADLOCK FALSE
