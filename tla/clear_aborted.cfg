\* The codec refuses a window, the client clears and opens another.
SPECIFICATION Spec
CONSTANTS
  ThirdID = {1, 2}
  AudioTaskID = {256}
  VideoTaskID = {}
  AuViTaskID = {1536, 1537}
  WindowID = {1, 2}
  AudioID = {}
  SrcVideo = {src1}
  NoCrop = nocrop
  SwmsChn <- MCSwmsChn
  U32 = 8
  MaxPriorities = 4
  ClearTypes = {0}
  LinkFaults = {"fail"}
  ClientMistakes = FALSE
INVARIANTS
  WorkerNotStuck
