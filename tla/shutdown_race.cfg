\* One IO loop, one connection whose client may leave while the timer shuts it
\* down.
SPECIFICATION Spec
CONSTANTS
  Conn = {c1}
  io1 = io1
  io2 = io2
  IOLoops <- OneLoop
  Base = base
  None = None
  Loop <- MCLoop
  Functor <- MCFunctor
  Channel <- MCChannel
  WakeupChannel = WakeupChannel
  Senders = {c1}
  Leavers = {c1}
  MaxPackets = 1
  Packet <- MCPacket
  Command = {"openAndMoveWindow", "closeWindow", "windowBatchControl", "search"}
  Handler = {"openAndMoveWindow", "closeWindow", "windowBatchControl"}
  commandOf <- MCCommandOf
  lengthOf <- MCLengthOf
  MaxLength = 7
  Read <- MCRead
  MaxQueueSize = 1
INVARIANTS
  DestroyedDisconnected
CHECK_DEADLOCK FALSE
