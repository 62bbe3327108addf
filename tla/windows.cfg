\* Three third ids compete for two window tasks; the link and the client
\* behave; clears of the video tasks and of everything.
SPECIFICATION Spec
CONSTANTS
  ThirdID = {1, 2, 3}
  AudioTaskID = {256}
  VideoTaskID = {}
  AuViTaskID = {1536, 1537, 1538}
  WindowID = {1, 2, 3}
  AudioID = {}
  SrcVideo = {src1, src2}
  NoCrop = nocrop
  SwmsChn <- MCSwmsChn
  U32 = 8
  MaxPriorities = 4
  ClearTypes = {0, 2}
  LinkFaults = {}
  ClientMistakes = FALSE
SYMMETRY SrcSymmetry
INVARIANTS
  PriorityStack
  OpenIsLent
  ReportMatchesScreen
  CodecInStep
  ClearedMeansClosed
  AnsweredIsShown
  AnsweredOnTop
  WorkerNotStuck
PROPERTIES
  StackSpec
