\* Three third ids, two audio tasks, two audio devices; the link works; no clears.
SPECIFICATION Spec
CONSTANTS
  ThirdID = {1, 2, 3}
  AudioTaskID = {256, 257}
  VideoTaskID = {}
  AuViTaskID = {1536}
  WindowID = {}
  AudioID = {1, 2, 3}
  SrcVideo = {src1}
  NoCrop = nocrop
  SwmsChn <- MCSwmsChn
  U32 = 8
  MaxPriorities = 4
  ClearTypes = {}
  LinkFaults = {}
  ClientMistakes = FALSE
INVARIANTS
  EveryTaskLentOnce
  AudioOwned
  OneTaskPerDevice
  AnsweredAudioPlays
