---------------------------- MODULE ServerHandle ----------------------------
(***************************************************************************)
(* The TCP front end: the base loop accepts connections and hands them to  *)
(* the IO loops in turn (TcpServer); an IO loop reads a connection's       *)
(* packets and gives them to the thread of the pool (ServerHandle), which  *)
(* replies from outside the loop; the base loop's timer closes connections *)
(* that were idle (BaseServerHandle::onTimer).  A connection is reference  *)
(* counted: it dies when the map, the queued functors and the tasks of the *)
(* pool have all let it go, in whichever thread that happens.              *)
(*                                                                         *)
(* A connection's state and the list of connections are shared by threads  *)
(* without a mutex.  One access to either is taken as atomic, but what a   *)
(* thread tests and what it then does are two steps (send, shutdown and    *)
(* forceCloseWithDelay), and so are two changes that another thread can see*)
(* apart: a node's push and its context, a node's splice and the assertion *)
(* on its place, the state of a closed connection and its node.  The timer *)
(* walks over the live list.  An assertion that fails ends the program, and*)
(* the model ends there too; so it does where the code would use a pointer *)
(* or an iterator whose object is gone.                                    *)
(*                                                                         *)
(* Left out: the contents of packets and the output buffer (a reply is     *)
(* written or kept by sendInLoop, which then changes nothing else), the    *)
(* framing of packets, and the order of the events of one poll.            *)
(***************************************************************************)
EXTENDS EventLoop, FiniteSets

CONSTANTS Conn,         \* the connections that clients may make
          IOLoops,      \* the loops of EventLoopThreadPool, in their order
          Base,         \* the loop of main
          None,
          Senders,      \* those whose clients may send (a bound)
          Leavers,      \* those whose clients may leave (a bound)
          MaxPackets,   \* packets a client sends on a connection (a bound)
          MaxQueueSize  \* of the pool of the one logic thread

Fn == {"connectEstablished", "sendInLoop", "shutdownInLoop", "addTimerInLoop",
       "forceCloseInLoop", "removeConnectionInLoop", "connectDestroyed"}

Do(fn, c) == [fn |-> fn, conn |-> c]

(* Functors bound to a plain `this`, and those that hold a reference; the  *)
(* callback of a close timer holds a weak one.                             *)
Raw == {"sendInLoop", "shutdownInLoop"}
Strong == Fn \ (Raw \cup {"addTimerInLoop"})

Acceptor == [kind |-> "acceptor", conn |-> None]
Tick == [kind |-> "onTimer", conn |-> None]
Socket(c) == [kind |-> "socket", conn |-> c]
CloseTimer(c) == [kind |-> "forceClose", conn |-> c]

ASSUME ServerAssumption ==
  /\ IOLoops \in Seq(Loop \ {Base}) /\ IOLoops # <<>>
  /\ Loop = {Base} \cup {IOLoops[i] : i \in 1..Len(IOLoops)}
  /\ None \notin Conn \cup Loop
  /\ Functor = [fn : Fn, conn : Conn]
  /\ Channel = [kind : {"acceptor", "onTimer", "socket", "forceClose"}, conn : Conn \cup {None}]
  /\ Senders \subseteq Conn /\ Leavers \subseteq Conn
  /\ MaxPackets \in Nat /\ MaxQueueSize \in Nat \ {0}

VARIABLES
  next,        \* EventLoopThreadPool::next_
  connections, \* TcpServer::connections_
  state, loop, \* of each connection
  channel,     \* connection -> "new", reading "on", all events "off", "removed"
  list,        \* connectionList_, least recently heard of first
  context,     \* connections with a Node as context
  idle,        \* connections whose lastReceiveTime is older than eight seconds
  it, doing,   \* onTimer's iterator, the connection of its node (None at the
               \* end), and what onTimer does next
  armed,       \* connections with a close timer
  jobs,        \* queue of the pool: the connection of each task
  working,     \* connection of the task that the pool's thread runs
  sending,     \* its send has found the connection connected
  overtaken,   \* connections whose send was queued after the map had let them
               \* go (a history variable)
  amid,        \* connection -> what its loop has done of a handler: "pushed" or
               \* "spliced" its node, set its state to "closed", or "none"
  peer, inbox, sent, \* the client's end, packets in flight, packets sent
  failed       \* the assertions that have failed, and what dangled when used

connVars == <<state, loop, channel>>
listVars == <<list, context, idle>>
timerVars == <<it, doing, armed>>
workerVars == <<jobs, working, sending, overtaken>>
clientVars == <<peer, inbox, sent>>
vars == <<loopVars, next, connections, connVars, listVars, timerVars, workerVars,
          amid, clientVars, failed>>

Doing == {"look", "shutdown", "disconnect", "delay", "again", "advance"}

State == {"none", "kConnecting", "kConnected", "kDisconnecting", "kDisconnected"}

TypeOK ==
  /\ LoopTypeOK
  /\ next \in 1..Len(IOLoops)
  /\ connections \in SUBSET Conn
  /\ state \in [Conn -> State]
  /\ loop \in [Conn -> Loop \cup {None}]
  /\ channel \in [Conn -> {"new", "on", "off", "removed"}]
  /\ list \in Seq(Conn)
  /\ context \in SUBSET Conn
  /\ idle \in SUBSET Conn
  /\ it \in Conn \cup {None}
  /\ doing \in Doing
  /\ armed \in SUBSET Conn
  /\ jobs \in Seq(Conn) /\ Len(jobs) <= MaxQueueSize
  /\ working \in Conn \cup {None}
  /\ sending \in BOOLEAN
  /\ overtaken \in SUBSET Conn
  /\ amid \in [Conn -> {"none", "pushed", "spliced", "closed"}]
  /\ peer \in [Conn -> {"away", "open", "closed"}]
  /\ inbox \in [Conn -> 0..MaxPackets]
  /\ sent \in [Conn -> 0..MaxPackets]

Init ==
  /\ LoopInit
  /\ next = 1
  /\ connections = {}
  /\ state = [c \in Conn |-> "none"]
  /\ loop = [c \in Conn |-> None]
  /\ channel = [c \in Conn |-> "new"]
  /\ list = <<>>
  /\ context = {}
  /\ idle = {}
  /\ it = None
  /\ doing = "look"
  /\ armed = {}
  /\ jobs = <<>>
  /\ working = None
  /\ sending = FALSE
  /\ overtaken = {}
  /\ amid = [c \in Conn |-> "none"]
  /\ peer = [c \in Conn |-> "away"]
  /\ inbox = [c \in Conn |-> 0]
  /\ sent = [c \in Conn |-> 0]
  /\ failed = {}

-----------------------------------------------------------------------------
Elements(s) == {s[i] : i \in 1..Len(s)}

Place(s, c) == CHOOSE i \in 1..Len(s) : s[i] = c

(* The list without the node of c.                                         *)
Without(s, c) ==
  IF c \in Elements(s)
  THEN SubSeq(s, 1, Place(s, c) - 1) \o SubSeq(s, Place(s, c) + 1, Len(s))
  ELSE s

(* The connection of the node after that of c, None at the end.            *)
After(s, c) == IF Place(s, c) < Len(s) THEN s[Place(s, c) + 1] ELSE None

Queued(l) == Elements(pending[l]) \cup Elements(batch[l])

(* A shared_ptr to the connection exists: onTimer holds one from lock() on.*)
Alive(c) ==
  \/ c \in connections
  \/ \E l \in Loop : \E f \in Queued(l) : f.conn = c /\ f.fn \in Strong
  \/ c \in Elements(jobs) \/ c = working
  \/ c = it /\ doing # "look"

(* The connection was made and its last shared_ptr is gone.                *)
Died(c) == state[c] # "none" /\ ~Alive(c)

Fails(assertion, holds) == IF holds THEN {} ELSE {assertion}

(* An assertion has failed, that of the destructor included, or something  *)
(* that dangles was used.                                                  *)
Aborted == failed # {} \/ \E c \in Conn : Died(c) /\ state[c] # "kDisconnected"

-----------------------------------------------------------------------------
(* Clients: they connect, send, close or are cut off as they like.         *)
ClientConnects(c) ==
  /\ peer[c] = "away"
  /\ peer' = [peer EXCEPT ![c] = "open"]
  /\ UNCHANGED <<inbox, sent>>

ClientSends(c) ==
  /\ peer[c] = "open" /\ c \in Senders
  /\ sent[c] < MaxPackets
  /\ sent' = [sent EXCEPT ![c] = @ + 1]
  /\ inbox' = [inbox EXCEPT ![c] = @ + 1]
  /\ UNCHANGED peer

(* A connection that is reset loses what was not read; handleError only    *)
(* logs that, and the next read meets the end of the stream.               *)
ClientLeaves(c) ==
  /\ peer[c] = "open" /\ c \in Leavers
  /\ peer' = [peer EXCEPT ![c] = "closed"]
  /\ \/ UNCHANGED inbox
     \/ inbox' = [inbox EXCEPT ![c] = 0]
  /\ UNCHANGED sent

Client(c) ==
  /\ ~Aborted
  /\ ClientConnects(c) \/ ClientSends(c) \/ ClientLeaves(c)
  /\ UNCHANGED <<loopVars, next, connections, connVars, listVars, timerVars,
                 workerVars, amid, failed>>

(* A connection is not heard of for eight seconds.                         *)
GrowsIdle(c) ==
  /\ ~Aborted
  /\ c \in (Elements(list) \cap context) \ idle
  /\ idle' = idle \cup {c}
  /\ UNCHANGED <<loopVars, next, connections, connVars, list, context, timerVars,
                 workerVars, amid, clientVars, failed>>

-----------------------------------------------------------------------------
(* The channels of a loop that poll would report, and the timers that may  *)
(* have expired: onTimer's every second (it does nothing while the list is *)
(* empty), a close timer after 3.5 seconds.                                *)
Ready(l) ==
  IF l = Base
  THEN IF \E c \in Conn : peer[c] # "away" /\ state[c] = "none" THEN {Acceptor} ELSE {}
  ELSE {Socket(c) : c \in {x \in Conn : /\ loop[x] = l /\ channel[x] = "on"
                                        /\ inbox[x] > 0 \/ peer[x] = "closed"}}

Timers(l) ==
  IF l = Base THEN (IF list = <<>> THEN {} ELSE {Tick})
  ELSE {CloseTimer(c) : c \in {x \in armed : loop[x] = l}}

TickOnce(l, expired) ==  \* mutant: runAfter in place of runEvery
  /\ Tick \in expired => idle = {}
  /\ poll(l, Ready(l) \cup expired)
  /\ UNCHANGED <<next, connections, connVars, listVars, timerVars, workerVars,
                 amid, clientVars, failed>>

Poll(l, expired) ==
  /\ poll(l, Ready(l) \cup expired)
  /\ UNCHANGED <<next, connections, connVars, listVars, timerVars, workerVars,
                 amid, clientVars, failed>>

(* A loop that is in the middle of an event.                               *)
Busy(l) ==
  \/ \E c \in Conn : loop[c] = l /\ amid[c] # "none"
  \/ l = Base /\ it # None

(* TcpServer::newConnection, called by Acceptor::handleRead.               *)
newConnection(c) ==
  LET l == IOLoops[next] IN
  /\ Handled(Base, Acceptor)
  /\ peer[c] # "away" /\ state[c] = "none"
  /\ next' = IF next = Len(IOLoops) THEN 1 ELSE next + 1
  /\ connections' = connections \cup {c}
  /\ state' = [state EXCEPT ![c] = "kConnecting"]
  /\ loop' = [loop EXCEPT ![c] = l]
  /\ queueInLoop(l, FALSE, <<Do("connectEstablished", c)>>)
  /\ UNCHANGED <<phase, batch, ran, channel, listVars, timerVars, workerVars,
                 amid, clientVars, failed>>

(* ServerHandle::onConnection when the connection is up: the node is pushed*)
(* to the list, and then becomes the connection's context.                 *)
SetContext(c) ==
  /\ amid[c] = "pushed"
  /\ amid' = [amid EXCEPT ![c] = "none"]
  /\ context' = context \cup {c}
  /\ idle' = idle \ {c}
  /\ UNCHANGED <<loopVars, next, connections, connVars, list, timerVars, workerVars,
                 clientVars, failed>>

(* ServerHandle::onConnection when it is down.                             *)
onConnectionDown(c) ==
  /\ list' = Without(list, c)
  /\ UNCHANGED <<context, idle>>

DownAsserts(c) ==
  Fails("context", c \in context) \cup Fails("erase", c \in Elements(list))

(* An iterator is used whose node is gone: by onConnection to erase the    *)
(* node, by onTimer to look at it or to go on from it.  Or the timer meets *)
(* a node that is not yet a context, and uses the null pointer of any_cast.*)
UseDangling(l) ==
  /\ \/ \E c \in Conn : /\ loop[c] = l /\ amid[c] = "closed" /\ c \notin Elements(list)
                         /\ failed' = failed \cup {"erase"}
     \/ /\ l = Base /\ it # None /\ doing \in {"look", "advance"}
        /\ it \notin Elements(list)
        /\ failed' = failed \cup {"iterator"}
     \/ /\ l = Base /\ it # None /\ doing = "look"
        /\ it \in Elements(list) \ context /\ Alive(it)
        /\ failed' = failed \cup {"node"}
  /\ UNCHANGED <<loopVars, next, connections, connVars, listVars, timerVars, workerVars,
                 amid, clientVars>>

(* TcpConnection::handleClose sets the state; then the channel is disabled,*)
(* and the callbacks take the node out of the list and the connection out  *)
(* of the map.                                                             *)
handleClose(c) ==
  /\ state' = [state EXCEPT ![c] = "kDisconnected"]
  /\ amid' = [amid EXCEPT ![c] = "closed"]
  /\ failed' = failed \cup Fails("handleClose", state[c] \in {"kConnected", "kDisconnecting"})

KeepEntry(c) ==  \* mutant: the connection callback is not called
  /\ amid[c] = "closed" /\ c \in Elements(list)
  /\ amid' = [amid EXCEPT ![c] = "none"]
  /\ channel' = [channel EXCEPT ![c] = "off"]
  /\ queueInLoop(Base, FALSE, <<Do("removeConnectionInLoop", c)>>)
  /\ UNCHANGED <<phase, active, batch, ran, next, connections, state, loop, listVars,
                 timerVars, workerVars, clientVars, failed>>

CloseCallbacks(c) ==
  /\ amid[c] = "closed" /\ c \in Elements(list)
  /\ amid' = [amid EXCEPT ![c] = "none"]
  /\ channel' = [channel EXCEPT ![c] = "off"]
  /\ onConnectionDown(c)
  /\ failed' = failed \cup DownAsserts(c)
  /\ queueInLoop(Base, FALSE, <<Do("removeConnectionInLoop", c)>>)
  /\ UNCHANGED <<phase, active, batch, ran, next, connections, state, loop, timerVars,
                 workerVars, clientVars>>

DispatchUnchecked(c) ==  \* mutant: run does not wait for room in the queue
  /\ inbox' = [inbox EXCEPT ![c] = @ - 1]
  /\ jobs' = Append(jobs, c)
  /\ idle' = idle \ {c}
  /\ list' = Append(Without(list, c), c)
  /\ failed' = failed \cup DownAsserts(c)
  /\ amid' = [amid EXCEPT ![c] = "spliced"]
  /\ UNCHANGED context

(* ServerHandle::onMessage: the packet's task is handed to the pool, and   *)
(* the thread waits while its queue is full; then the node moves to the end*)
(* of the list.                                                            *)
onMessage(c) ==
  /\ Len(jobs) < MaxQueueSize
  /\ inbox' = [inbox EXCEPT ![c] = @ - 1]
  /\ jobs' = Append(jobs, c)
  /\ idle' = idle \ {c}
  /\ list' = Append(Without(list, c), c)
  /\ failed' = failed \cup DownAsserts(c)
  /\ amid' = [amid EXCEPT ![c] = "spliced"]
  /\ UNCHANGED context

(* The assertion at the end of onMessage.                                  *)
AssertLast(c) ==
  /\ amid[c] = "spliced"
  /\ amid' = [amid EXCEPT ![c] = "none"]
  /\ failed' = failed \cup Fails("position", list # <<>> /\ list[Len(list)] = c)
  /\ UNCHANGED <<loopVars, next, connections, connVars, listVars, timerVars,
                 workerVars, clientVars>>

(* Channel::handleEvent and TcpConnection::handleRead: a packet is read,   *)
(* the end of the stream closes the connection.                            *)
handleSocket(l, c) ==
  /\ Handled(l, Socket(c))
  /\ \/ /\ inbox[c] > 0
        /\ onMessage(c)
        /\ UNCHANGED <<state, working, sending, overtaken>>
     \/ /\ inbox[c] = 0 /\ peer[c] = "closed"
        /\ handleClose(c)
        /\ UNCHANGED <<listVars, workerVars, inbox>>
  /\ UNCHANGED <<phase, pending, batch, ran, woken, next, connections, loop, channel,
                 timerVars, peer, sent>>

(* The callback of a close timer (TimerQueue::handleRead, WeakCallback):   *)
(* forceClose, if the connection is still alive.                           *)
forceClose(l, c) ==
  /\ Handled(l, CloseTimer(c))
  /\ armed' = armed \ {c}
  /\ IF Alive(c) /\ state[c] \in {"kConnected", "kDisconnecting"}
     THEN /\ state' = [state EXCEPT ![c] = "kDisconnecting"]
          /\ queueInLoop(l, TRUE, <<Do("forceCloseInLoop", c)>>)
     ELSE UNCHANGED <<state, pending, woken>>
  /\ UNCHANGED <<phase, batch, ran, next, connections, loop, channel, listVars,
                 it, doing, workerVars, amid, clientVars, failed>>

-----------------------------------------------------------------------------
(* The functors of a loop.                                                 *)
connectEstablished(l, c) ==
  /\ Running(l, Do("connectEstablished", c))
  /\ state' = [state EXCEPT ![c] = "kConnected"]
  /\ channel' = [channel EXCEPT ![c] = "on"]
  /\ list' = Append(list, c)
  /\ amid' = [amid EXCEPT ![c] = "pushed"]
  /\ failed' = failed \cup Fails("connectEstablished", state[c] = "kConnecting")
  /\ UNCHANGED <<phase, active, pending, batch, woken, next, connections, loop,
                 context, idle, timerVars, workerVars, clientVars>>

(* sendInLoop and shutdownInLoop touch only the socket and its buffer, of a*)
(* connection that nothing keeps alive for them.                           *)
InLoop(l, c) ==
  /\ \E fn \in Raw : Running(l, Do(fn, c))
  /\ failed' = failed \cup Fails("this", Alive(c))
  /\ UNCHANGED <<phase, active, pending, batch, woken, next, connections, connVars,
                 listVars, timerVars, workerVars, amid, clientVars>>

addTimerInLoop(l, c) ==
  /\ Running(l, Do("addTimerInLoop", c))
  /\ armed' = armed \cup {c}
  /\ UNCHANGED <<phase, active, pending, batch, woken, next, connections, connVars,
                 listVars, it, doing, workerVars, amid, clientVars, failed>>

forceCloseInLoop(l, c) ==
  /\ Running(l, Do("forceCloseInLoop", c))
  /\ IF state[c] \in {"kConnected", "kDisconnecting"}
     THEN handleClose(c)
     ELSE UNCHANGED <<state, amid, failed>>
  /\ UNCHANGED <<phase, active, pending, batch, woken, next, connections, loop, channel,
                 listVars, timerVars, workerVars, clientVars>>

NotDestroyed(l, c) ==  \* mutant: connectDestroyed is not queued
  /\ Running(l, Do("removeConnectionInLoop", c))
  /\ connections' = connections \ {c}
  /\ failed' = failed \cup Fails("removeConnectionInLoop", c \in connections)
  /\ UNCHANGED <<phase, active, pending, batch, woken, next, connVars, listVars,
                 timerVars, workerVars, amid, clientVars>>

(* TcpServer::removeConnectionInLoop.                                      *)
removeConnectionInLoop(l, c) ==
  /\ Running(l, Do("removeConnectionInLoop", c))
  /\ connections' = connections \ {c}
  /\ failed' = failed \cup Fails("removeConnectionInLoop", c \in connections)
  /\ queueInLoop(loop[c], FALSE, <<Do("connectDestroyed", c)>>)
  /\ UNCHANGED <<phase, active, batch, next, connVars, listVars, timerVars, workerVars,
                 amid, clientVars>>

(* A connection that is still kConnected, which it never is when the server*)
(* removed it, would be taken down here.                                   *)
connectDestroyed(l, c) ==
  /\ Running(l, Do("connectDestroyed", c))
  /\ channel' = [channel EXCEPT ![c] = "removed"]
  /\ IF state[c] = "kConnected"
     THEN /\ state' = [state EXCEPT ![c] = "kDisconnected"]
          /\ onConnectionDown(c)
          /\ failed' = failed \cup DownAsserts(c)
     ELSE UNCHANGED <<state, listVars, failed>>
  /\ UNCHANGED <<phase, active, pending, batch, woken, next, connections, loop, timerVars,
                 workerVars, amid, clientVars>>

-----------------------------------------------------------------------------
(* BaseServerHandle::onTimer walks over the list, which the other threads  *)
(* go on changing.                                                         *)
onTimer ==
  /\ Handled(Base, Tick)
  /\ it' = IF list = <<>> THEN None ELSE list[1]
  /\ UNCHANGED <<phase, pending, batch, ran, woken, next, connections, connVars, listVars,
                 doing, armed, workerVars, amid, clientVars, failed>>

(* The weak pointer of the node is locked.  That of a dead connection is   *)
(* erased; the walk ends at the first connection that was heard of within  *)
(* the idle time, unless that time lies in the future: the packet came     *)
(* after the walk began, or the clock has been set back.                   *)
Look ==
  /\ doing = "look" /\ it \in Elements(list)
  /\ Alive(it) => it \in context
  /\ \/ /\ ~Alive(it)
        /\ it' = After(list, it)
        /\ list' = Without(list, it)
        /\ UNCHANGED <<doing, idle>>
     \/ /\ Alive(it) /\ it \notin idle
        /\ it' = None
        /\ UNCHANGED <<doing, list, idle>>
     \/ /\ Alive(it)
        /\ doing' = "advance"
        /\ idle' = idle \ {it}
        /\ UNCHANGED <<it, list>>
     \/ /\ Alive(it) /\ it \in idle
        /\ doing' = IF state[it] = "kConnected" THEN "shutdown" ELSE "advance"
        /\ UNCHANGED <<it, list, idle>>
  /\ UNCHANGED <<loopVars, next, connections, connVars, context, armed, workerVars,
                 amid, clientVars, failed>>

(* A test of the state, and what is done next.                             *)
Test(step, states, then, else) ==
  /\ doing = step
  /\ doing' = IF state[it] \in states THEN then ELSE else
  /\ UNCHANGED <<loopVars, next, connections, connVars, listVars, it, armed, workerVars,
                 amid, clientVars, failed>>

(* What follows a test that held: the state is set, whatever it has become *)
(* in the meantime, and a functor is queued.                               *)
Disconnect(step, fn, then) ==
  /\ doing = step
  /\ doing' = then
  /\ state' = [state EXCEPT ![it] = "kDisconnecting"]
  /\ queueInLoop(loop[it], FALSE, <<Do(fn, it)>>)
  /\ UNCHANGED <<phase, active, batch, ran, next, connections, loop, channel, listVars,
                 it, armed, workerVars, amid, clientVars, failed>>

(* TcpConnection::shutdown of an idle connection.                          *)
shutdown ==
  \/ Test("shutdown", {"kConnected"}, "disconnect", "delay")
  \/ Disconnect("disconnect", "shutdownInLoop", "delay")

ShutdownOnly ==  \* mutant: forceCloseWithDelay is left out
  Test("delay", {}, "again", "advance")

(* TcpConnection::forceCloseWithDelay: the connection is closed later if   *)
(* its client does not close it.                                           *)
forceCloseWithDelay ==
  \/ Test("delay", {"kConnected", "kDisconnecting"}, "again", "advance")
  \/ Disconnect("again", "addTimerInLoop", "advance")

(* ++it, and the reference of lock() is let go.                            *)
Advance ==
  /\ doing = "advance" /\ it \in Elements(list)
  /\ doing' = "look"
  /\ it' = After(list, it)
  /\ UNCHANGED <<loopVars, next, connections, connVars, listVars, armed, workerVars,
                 amid, clientVars, failed>>

Walk == Look \/ shutdown \/ forceCloseWithDelay \/ Advance

-----------------------------------------------------------------------------
(* The thread of the pool takes a task, and at its end the handler sends   *)
(* the reply and lets the connection go.                                   *)
TakeTask ==
  /\ working = None
  /\ jobs # <<>>
  /\ working' = jobs[1]
  /\ jobs' = Tail(jobs)
  /\ UNCHANGED <<loopVars, sending, overtaken>>

(* TcpConnection::send tests the state; a reply to a connection that is not*)
(* connected is dropped.                                                   *)
send ==
  /\ working # None /\ ~sending
  /\ IF state[working] = "kConnected"
     THEN sending' = TRUE /\ UNCHANGED working
     ELSE working' = None /\ UNCHANGED sending
  /\ UNCHANGED <<loopVars, jobs, overtaken>>

(* The reply is queued, whatever has become of the connection since.       *)
QueueReply ==
  /\ sending
  /\ queueInLoop(loop[working], FALSE, <<Do("sendInLoop", working)>>)
  /\ overtaken' = overtaken \cup ({working} \ connections)
  /\ working' = None
  /\ sending' = FALSE
  /\ UNCHANGED <<phase, active, batch, ran, jobs>>

WorkerStep ==
  /\ ~Aborted
  /\ TakeTask \/ send \/ QueueReply
  /\ UNCHANGED <<next, connections, connVars, listVars, timerVars, amid, clientVars,
                 failed>>

FunctorStep(l, c) ==
  \/ connectEstablished(l, c)
  \/ InLoop(l, c)
  \/ addTimerInLoop(l, c)
  \/ forceCloseInLoop(l, c)
  \/ removeConnectionInLoop(l, c)
  \/ connectDestroyed(l, c)

(* What the thread of a loop does next.                                    *)
ThreadStep(l) ==
  /\ ~Aborted
  /\ \/ /\ Busy(l)
        /\ \/ \E c \in Conn :
                loop[c] = l /\ (SetContext(c) \/ AssertLast(c) \/ CloseCallbacks(c))
           \/ l = Base /\ Walk
           \/ UseDangling(l)
     \/ /\ ~Busy(l)
        /\ \/ \E expired \in SUBSET Timers(l) : Poll(l, expired)
           \/ /\ handleRead(l) \/ doPendingFunctors(l) \/ FunctorsDone(l)
              /\ UNCHANGED <<next, connections, connVars, listVars, timerVars, workerVars,
                             amid, clientVars, failed>>
           \/ \E c \in Conn : l = Base /\ newConnection(c)
           \/ \E c \in Conn : handleSocket(l, c) \/ forceClose(l, c) \/ FunctorStep(l, c)
           \/ l = Base /\ onTimer

Next ==
  \/ \E l \in Loop : ThreadStep(l)
  \/ WorkerStep
  \/ \E c \in Conn : GrowsIdle(c) \/ Client(c)

(* A loop's poll does not go on returning without a timer that has expired.*)
PollTimer(l, t) ==
  ~Aborted /\ \E expired \in SUBSET Timers(l) : t \in expired /\ Poll(l, expired)

(* Every thread runs, the handler's exchange with the codec ends, timers   *)
(* expire and time passes; clients may do nothing for ever.                *)
Fairness ==
  /\ \A l \in Loop : WF_vars(ThreadStep(l))
  /\ WF_vars(WorkerStep)
  /\ SF_vars(PollTimer(Base, Tick))
  /\ \A l \in Loop \ {Base}, c \in Conn : SF_vars(PollTimer(l, CloseTimer(c)))
  /\ \A c \in Conn : WF_vars(GrowsIdle(c))

Spec == Init /\ [][Next]_vars /\ Fairness

-----------------------------------------------------------------------------
(* A connection's life is in order, in spite of the races for its state: it*)
(* is established once, it is up when it is closed, its node has a context *)
(* then, the map has it when it is removed, and when its last reference    *)
(* goes, in whichever thread, it was closed and taken out of the poller.   *)
LifeInOrder ==
  /\ failed \cap {"connectEstablished", "handleClose", "context", "removeConnectionInLoop"} = {}
  /\ \A c \in Conn :
       Died(c) => channel[c] = "removed" /\ state[c] \in {"kDisconnecting", "kDisconnected"}

(* The destructor's assertion (TcpConnection.cc:59).  The timer's shutdown *)
(* tests the state and sets it; the loop may close the connection between. *)
DestroyedDisconnected == \A c \in Conn : Died(c) => state[c] = "kDisconnected"

(* The last assertion of onMessage (ServerHandle.cpp:200).                 *)
MovedIsLast == "position" \notin failed

Waiting(l) ==
  Elements(pending[l]) \cup {batch[l][i] : i \in (ran[l] + 1)..Len(batch[l])}

(* A functor bound to a plain `this` outlives its connection in one case   *)
(* only: the worker's send found the connection connected and queued the   *)
(* functor when the map had already let it go.  The timer's shutdown, and  *)
(* every other send, comes before connectDestroyed in the loop's queue, and*)
(* no event is left to be handled for a connection that has died.          *)
RawPointersAlive ==
  \A l \in Loop, c \in Conn :
    Died(c) =>
      /\ Do("shutdownInLoop", c) \notin Waiting(l)
      /\ Do("sendInLoop", c) \in Waiting(l) => c \in overtaken
      /\ Socket(c) \notin active[l]

(* The idle list holds exactly the connections that read events, each once,*)
(* whatever the races make of their states: one that is left out would     *)
(* never be closed, one that stays would be a dangling node.               *)
ListMatchesUp ==
  /\ Elements(list) = {c \in Conn : channel[c] = "on"}
  /\ Cardinality(Elements(list)) = Len(list)

(* A connection of a silent client is closed: unless it is heard of again, *)
(* the clock is set back or the program dies, an idle connection leaves the*)
(* list.                                                                   *)
IdleIsClosed ==
  \A c \in Conn :
    c \in Elements(list) \cap idle ~> c \notin Elements(list) \cap idle \/ Aborted

(* A connection that was shut down is closed, whatever its client does, and*)
(* freed, if the program lives: the map, the functors and the tasks of the *)
(* pool let it go.                                                         *)
ClosingIsFreed ==
  \A c \in Conn : state[c] \in {"kDisconnecting", "kDisconnected"} ~> Died(c) \/ Aborted
=============================================================================
