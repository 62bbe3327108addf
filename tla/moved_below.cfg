\* Four windows over a link that refuses: a move can leave its window below
\* another one.
SPECIFICATION Spec
CONSTANTS
  ThirdID = {1, 2, 3, 4}
  AudioTaskID = {}
  VideoTaskID = {}
  AuViTaskID = {1536, 1537, 1538, 1539}
  WindowID = {1, 2, 3, 4}
  AudioID = {}
  SrcVideo = {src1}
  NoCrop = nocrop
  SwmsChn <- MCSwmsChn
  U32 = 8
  MaxPriorities = 4
  ClearTypes = {}
  LinkFaults = {"fail"}
  ClientMistakes = FALSE
VIEW MoveView
INVARIANTS
  MovedOnTop
