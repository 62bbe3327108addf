\* Two IO threads, the one logic thread, three commands of which one is a
\* query, a queue of one.
SPECIFICATION Spec
CONSTANTS
  Caller = {io1, io2}
  Worker = {w1}
  Task = {cmd1, cmd2, query}
  Query = {query}
  OneWay = {record}
  Request <- MCRequest
  MaxQueueSize = 1
  MaxTries = 2
  None = None
  NoSocket = NoSocket
INVARIANTS
  QueueBounded
  StartedInOrder
  NoTaskLeftLying
  NoCallerLeftBlocked
  NoSocketLeft
  RepliesMatch
PROPERTIES
  ImplementsLink
  EveryCommandHandled
  StopReturns
CHECK_DEADLOCK FALSE
