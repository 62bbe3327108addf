\* Two window tasks, a client that waits for the jobs of each command; the
\* node restarts between commands.
SPECIFICATION NodeSpec
CONSTANTS
  ThirdID = {1, 2}
  AudioTaskID = {256}
  VideoTaskID = {}
  AuViTaskID = {1536, 1537}
  WindowID = {1, 2}
  AudioID = {}
  SrcVideo = {src1}
  NoCrop = nocrop
  SwmsChn <- MCSwmsChn
  U32 = 8
  MaxPriorities = 4
  ClearTypes = {}
  LinkFaults = {}
  ClientMistakes = FALSE
  Worker = {w1, w2}
  MaxQueue = 6
  Patient = TRUE
  CrashMidway = FALSE
SYMMETRY Threads
INVARIANTS
  NothingForgotten
  NothingRevived
