\* One IO loop: a connection alone whose client sends and leaves, or two whose
\* clients only connect; a queue of one.
SPECIFICATION FewSpec
CONSTANTS
  Conn = {c1, c2}
  io1 = io1
  io2 = io2
  IOLoops <- OneLoop
  Base = base
  None = None
  Loop <- MCLoop
  Functor <- MCFunctor
  Channel <- MCChannel
  WakeupChannel = WakeupChannel
  Senders = {c1}
  Leavers = {c1}
  MaxPackets = 2
  Packet <- MCPacket
  Command = {"openAndMoveWindow", "closeWindow", "windowBatchControl", "search"}
  Handler = {"openAndMoveWindow", "closeWindow", "windowBatchControl"}
  commandOf <- MCCommandOf
  lengthOf <- MCLengthOf
  MaxLength = 7
  Read <- MCRead
  MaxQueueSize = 1
INVARIANTS
  TypeOK
  NoLostFunctor
  LifeInOrder
  RawPointersAlive
  
PROPERTIES
  IdleIsClosed
  ClosingIsFreed
CHECK_DEADLOCK FALSE
