\* Two IO loops, as main starts; a connection on each, one packet each.
SPECIFICATION Spec
CONSTANTS
  Conn = {c1, c2}
  io1 = io1
  io2 = io2
  IOLoops <- TwoLoops
  Base = base
  None = None
  Loop <- MCLoop
  Functor <- MCFunctor
  Channel <- MCChannel
  WakeupChannel = WakeupChannel
  Senders = {c1, c2}
  Leavers = {}
  MaxPackets = 1
  Packet <- MCPacket
  Command = {"openAndMoveWindow", "closeWindow", "windowBatchControl", "search"}
  Handler = {"openAndMoveWindow", "closeWindow", "windowBatchControl"}
  commandOf <- MCCommandOf
  lengthOf <- MCLengthOf
  MaxLength = 7
  Read <- MCRead
  MaxQueueSize = 2
INVARIANTS
  MovedIsLast
CHECK_DEADLOCK FALSE
