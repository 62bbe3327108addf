---------------------------- MODULE CommandPath -----------------------------
(***************************************************************************)
(* From the packet of a client to the answer of the codec: the IO threads  *)
(* (ServerHandle::onMessage) hand the commands to the thread of the pool,  *)
(* which sends a request to the codec (NodeInfo::sendToCodecAndRecv) for   *)
(* each command that is not a query of the node's own tables.  An exchange *)
(* that lasts blocks the thread, then the queue, then the IO threads.      *)
(***************************************************************************)
EXTENDS ThreadPool, CodecChannel

CONSTANT Query  \* the tasks that send nothing to the codec

(* main starts one thread, with startHandle(60, 1).                        *)
ASSUME PathAssumption ==
  /\ Query \subseteq Task
  /\ Request = (Task \ Query) \cup OneWay
  /\ OneWay \cap Task = {}
  /\ \A v, w \in Worker : v = w

vars == <<poolVars, channelVars>>

Init == PoolInit /\ ChannelInit

InPool(A) == A /\ UNCHANGED channelVars
InChannel(A) == A /\ UNCHANGED poolVars

(* A handler sends its request.                                            *)
sendToCodecAndRecv(w) ==
  /\ at[w] = "task"
  /\ task[w] \in Request
  /\ Open(task[w])
  /\ UNCHANGED poolVars

(* openAndMoveWindow and moveWindow: when the codec has accepted the window*)
(* the records of those below it are sent too, and nobody waits for replies*)
(* (NodeInfo::sendToCodecOnly).                                            *)
sendToCodecOnly(w) ==
  /\ at[w] = "task"
  /\ task[w] \in Request
  /\ result[task[w]] = "success"
  /\ \E r \in OneWay : Open(r)
  /\ UNCHANGED poolVars

(* A handler ends when its exchanges have returned.                        *)
HandlerEnds(w) ==
  /\ at[w] = "task"
  /\ call.phase = "idle"
  /\ task[w] \in Request => result[task[w]] # "none"
  /\ TaskDone(w)
  /\ UNCHANGED channelVars

ThreadStep(w) ==
  \/ InPool(WorkerStep(w))
  \/ sendToCodecAndRecv(w)
  \/ sendToCodecOnly(w)
  \/ InChannel(ExchangeStep)
  \/ HandlerEnds(w)

Next ==
  \/ \E c \in Caller : InPool(CallerStep(c)) \/ \E t \in Task : InPool(Call(c, t))
  \/ \E w \in Worker : ThreadStep(w)
  \/ InChannel(CodecNext)
  \/ InPool(Stop)
  \/ InPool(Join)
  \/ InPool(SpuriousWakeup)

(* The scheduler lets every thread run; nothing is assumed of the codec,   *)
(* of the clients or of whoever might stop the pool.                       *)
Fairness ==
  /\ \A c \in Caller : WF_vars(InPool(CallerStep(c)))
  /\ \A w \in Worker : WF_vars(ThreadStep(w))
  /\ WF_vars(InPool(Join))

Spec == Init /\ [][Next]_vars /\ Fairness

-----------------------------------------------------------------------------
(* A task whose handler has returned.                                      *)
Handled(t) ==
  /\ \E i \in 1..Len(started) : started[i] = t
  /\ \A w \in Worker : task[w] # t

(* Every command that an IO thread hands over is handled, even when the    *)
(* codec never listens, never replies or restarts in the middle of it,     *)
(* unless the pool is stopped: each wait of the exchange is bounded, and   *)
(* no wake-up of the pool is lost.                                         *)
EveryCommandHandled ==
  \A t \in Task : Submitted(t) ~> (Handled(t) \/ ~running)

(* stop returns: every thread of the pool leaves its loop, also one that   *)
(* slept in take or was in the middle of an exchange.                      *)
StopReturns == ~running ~> joined
=============================================================================
