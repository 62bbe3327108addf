# Verification project for ServerCommunication

ServerCommunication is the control process of an audio/video node. A controlling
software (the code calls it the *third* party) sends it commands over TCP; the
node keeps track of the windows and audio streams it has been asked for and drives
a codec process through a UNIX socket. This directory holds TLA+ specifications of
the program, the TLC configurations that check them and proofs for TLAPS.

Paths are relative to the repository's `src/` directory: `LogicHandle.cpp` is
`src/src/LogicHandle.cpp` in the tree this project refers to.

## 1. Inventory

### Threads and hand-overs

    controlling software --TCP 5010--> base loop + 2 IO threads (ServerHandle)
                                          |  framing, LogicHandle::getInfo
                                          v
                             thread pool, 1 worker, queue of 60  (LogicHandle)
                                          |            |
                    UNIX socket, 10 s reply timeout    | thread pool, 2 workers, queue of 32
                                          v            v
                                   codec process   TaskRestore: json files
    UDP search: a thread of its own;   status light: a thread of its own

`main` (`ServerCommunication.cpp:76-191`) fixes these numbers: `startHandle(60, 1)`,
`TaskRestore::startRunning(32, 2)`, `startServerHandle(2)`. So command handlers never
overlap one another, but they overlap the persistence jobs they queue, and each of
their exchanges with the codec may fail, time out after it took effect, or (for the
records sent without a reply) be lost.

### Components

| component | state | operations | talks to |
|---|---|---|---|
| Codec task ids (`NodeInfo.cpp:491-707`) | `_mOutThirdCodecTaskID`, `_vAllUseCodecTaskID`, `_mOutCodecTaskIDBeUsed`, the three pools | `getNewCodecTaskID`/`findNewID`, `removeCodecTaskID`, `updateThirdTaskIDCodecTaskid`, `setServerTaskID` | called by the handlers |
| Command handlers (`LogicHandle.cpp`) | the records `_vAVDecGetInfo`, `_vWindowPriority`, `_mSwmsChCodecDecInfo`, `_mThirdIDSrcVideoInfo`, `_mAODevIDCodecID` (all in NodeInfo), `_isClearTasking`, `_latch` | createWindow, openAndMoveWindow, windowBatchControl, moveWindow, closeWindow, clearAllTask, openAudio, closeAudio, property get/set, addSignal/removeSignal | ids, codec, TaskRestore, TCP reply |
| Start-up (`NodeInfo.cpp:201-279, 836-1096`) | fills all of the above | query the codec, restore saved tasks, close the rest | TaskRestore, codec |
| Persistence (`TaskRestore.cpp`) | json files for avdec records, window and audio third ids; a lock for each | `setDataToJson`, `removeThirdTask`, `getThirdInfo`, `getAVDecJson` | pool of two workers |
| Codec channel (`UnixSockClientData.cpp`, `NodeInfo.h:349-400`) | a socket per request; the codec's own queue and replies | `doSendCommand` (tries, select, 10 s), `onlySendMsg`, `recvCB` | the codec |
| Worker pool (`muduo/base/ThreadPool.cc`, `Condition.h`) | a bounded queue, two conditions, the threads | `run`, `take`, `runInThread`, `stop` | IO threads, handlers |
| Event loops (`muduo/net/EventLoop.cc`) | queued functors, the swapped batch, the wake-up descriptor | `loop`, `queueInLoop`, `handleRead`, `doPendingFunctors` | every thread that holds a connection |
| TCP front end (`ServerHandle.cpp`, `BaseServerHandle.cpp`, muduo's `TcpServer`, `TcpConnection`) | `connections_`, state, channel and loop of each connection, `connectionList_` ordered by last receive time | accept, establish, message, close, remove, destroy, idle timer (8 s), delayed close (3.5 s) | loops, worker pool |
| Framing (`ServerHandle.cpp:74-193`, `DataPackageParser.cpp`) | none: nothing is kept between two reads | cut a read into packets and name their handlers | worker pool |
| Device search (`UDPServerHandle.cpp`, `LocalInfo.cpp`) | the local description | receive, answer | - |
| Ring queue (`CircleBoundedQueue.h`) | a boost circular buffer | put, take | the control board, which `main` leaves out |
| Front panel, network set-up, ini files | files and devices | I/O | - |

### What is hard

* A handler changes shared records in place, step by step, and has many early
  returns; each of them leaves behind what was done before it.
* The node's view (records), its copies for the status query (`_mSwmsChCodecDecInfo`),
  its id tables and the codec's own state are four descriptions of one screen, and no
  code compares them.
* The codec's answer may be late: a command reported as failed may have taken effect.
* `clearAllTask` guards itself with a flag and a latch that its own thread must open.
* The window priorities are kept twice, in a list and in the records, and are
  lowered with unsigned arithmetic.
* Persistence is asynchronous, in three files, by two workers, one of whose jobs writes
  a file without holding its lock; a write truncates the file first.
* One slow exchange with the codec blocks the only worker, then its queue, then the
  threads that read the sockets; every wake-up on that way must arrive.
* A connection is kept alive by references in a map, in queued functors and in the
  worker's tasks, and dies in whichever thread drops the last one; some functors hold a
  plain pointer only.
* The state of a connection is tested and set by its IO loop, by the base loop's timer and
  by the logic thread, without a mutex or a compare and swap; between a test and what
  follows it the connection may be closed.
* The front end shares a list between threads without a mutex, drops partial packets
  and reads every packet of a read with the header of the first.

What makes each component correct is stated by the properties of section 3 and the
theorems of section 5, and for what is not modelled yet, in the plan of section 6. `PROJECT.json` lists the
hazards, each at its line, with the properties that cover it.

## 2. Modules

* `CodecTaskID` -- the id tables as one record and NodeInfo's operations on them as
  operators from tables to tables, so that a handler that calls several of them is
  still one action. Third ids and codec ids are numbers of the code's own ranges
  (256.., 1024.., 1536..), because the type of a task is read off its id, error codes
  share the value space, and the order of the ids decides which one is lent next.
* `Listing` -- numbers in ascending order, the order in which the code's loops meet records
  and ids and what `std::sort` makes of the priorities. An element's place is the number of
  elements before it, so that what these operators return can be proved for any set.
* `LogicHandle` -- the handlers. One action per handler and outcome: `OpenWindow`,
  `OpenWindowFails`, `OpenWindowRejected`, `RaiseWindow`..., one per path through the
  code that leaves a different state.
* `WindowStack` -- the abstract promise of the window commands: a stack of windows
  with Open (on top), Adjust (to the top), Close and Clear.
* `TaskRestore` -- the pool that saves and removes the tasks in json files: its queue,
  what each thread is doing, and the three files. A job is a sequence of steps (take,
  read, open and so truncate, write and close) that interleave with those of the other
  thread as the file's mutex allows.
* `Node` -- `LogicHandle` composed with an instance of `TaskRestore`: a handler's step
  queues the jobs in `saves`, a crash loses memory and queue at any moment, and
  `Restart` is `NodeInfo`'s constructor over the files that are left.
* `ThreadPool` -- muduo's pool: callers of `run`, the queue, the threads in `take`, the
  two conditions as sets of waiting threads with spurious wake-ups, `stop` and its joins.
* `CodecLink` -- the abstract promise of an exchange: a request is performed at most once,
  a success is told only of a performed one, a refusal only of one that never is; any other
  error leaves it open. These are the outcomes that `LogicHandle` assumes of its link.
* `CodecChannel` -- the exchange itself: socket, tries to connect, select, send, the wait
  for the reply, and the codec process as an environment that refuses, hangs up, stops,
  starts and is late.
* `CommandPath` -- `ThreadPool` composed with `CodecChannel`: the pool's thread runs a
  command and is blocked by its exchanges.
* `EventLoop` -- one loop per thread: poll, events, the swap of the queued functors and
  the wake-up descriptor.
* `ServerHandle` -- the front end over the event loops: the base loop and its timer, the IO
  loops, the connections from accept to the drop of the last reference, the idle list, the
  hand-over to the pool and the replies of its thread.
* `Framing` -- how one read is cut into packets; operators only.
* `MCLogicHandle`, `MCNode`, `MCCommandPath`, `MCServerHandle` -- instances for TLC.
* `LogicHandle_proofs` (with `CodecTaskID`), `Undisturbed_proofs` (with `WindowStack`), `Node_proofs`,
  `Recovery_proofs` (both about `Node`), `ThreadPool_proofs`, `CommandPath_proofs` (with `CodecChannel`), `Framing_proofs`,
  `ServerHandle_proofs` (with `EventLoop`) -- theorems.

`LogicHandle` and `CommandPath` meet in `CodecLink`: the first takes "ok", "fail" and "late"
as the outcomes of a command, the second shows that an exchange has no others ("success",
"refused", and "unknown", after which the request may or may not be performed).
`ServerHandle` takes of the pool only its queue and its one thread, whose hand-over
`CommandPath` treats in full.

How state corresponds to the code:

| variable | code |
|---|---|
| `ids.third`, `ids.used`, `ids.beUsed` | `_mOutThirdCodecTaskID`, `_vAllUseCodecTaskID`, `_mOutCodecTaskIDBeUsed` |
| `dec` | `_vAVDecGetInfo`, by codec id: s8Open, bSwms, u32Priority, the crop, the AO device |
| `winPriority`, `swmsDecInfo`, `srcInfo`, `aoCodec` | `_vWindowPriority`, `_mSwmsChCodecDecInfo`, `_mThirdIDSrcVideoInfo`, `_mAODevIDCodecID` |
| `isClearTasking`, `latch`, `worker` | `_isClearTasking`, `_latch`, and whether the worker is blocked in `_latch->wait()` |
| `codec` | external: the records the codec process runs with |
| `reply`, `saves` | what the last handler answered, and the jobs it queued for TaskRestore |
| `files` (`Node`, `TaskRestore`) | the json files: whether the file parses, and its entries in order |
| `queue`, `threads` | the deque of TaskRestore's pool; the progress of each thread through its job |
| `promised` | no code: the windows whose openAndMoveWindow was answered with success and that were not closed since |
| `notFull`, `notEmpty`, `at`, `task`, `calling` (`ThreadPool`) | the threads that wait for `notFull_` and `notEmpty_`; where `runInThread` is and what it runs; the task a caller of `run` has in its hands |
| `accepted`, `started` | no code: the tasks put in and taken out so far |
| `call`, `fds`, `result` (`CodecChannel`) | the locals of `doSendCommand`, the open descriptors, the code it returned |
| `listening`, `inbox`, `replies`, `hungUp`, `performed` | external: the codec process and what is on its sockets |
| `phase`, `active`, `pending`, `batch`, `ran`, `woken` (`EventLoop`) | the part of `loop()`, `activeChannels_`, `pendingFunctors_`, the vector that `doPendingFunctors` swaps it with and its loop counter, the eventfd |
| `connections`, `state`, `loop`, `channel` (`ServerHandle`) | `TcpServer::connections_`, and `state_`, `loop_` and the registered events of each connection |
| `list`, `context`, `idle` | `connectionList_`, the connections whose context holds a `Node`, those whose `lastReceiveTime` is eight seconds old |
| `it`, `doing` | the iterator of `onTimer`, as the connection of its node, and what the timer does next with it |
| `armed` | the timers of `forceCloseWithDelay` |
| `amid` | how far the loop of a connection is in `onConnection` (pushed, no context yet), `onMessage` (spliced, not yet asserted) or `handleClose` (closed, callbacks not yet called) |
| `jobs`, `working`, `sending` | the pool's queue, the connection of the task that its thread runs, and whether its `send` has passed the test of the state |
| `overtaken` | no code: the connections whose `send` queued its functor after the map had let them go |
| `failed` | no code: the assertions that have failed, and what dangled when it was used |

A connection's references are not counted but looked up: `Alive(c)` says that the map, a
queued or running functor with a strong reference, a task of the pool or the timer's `lock()` holds it. That is
what decides whether a weak pointer of the idle list or of a close timer still leads to it.

NodeInfo hands out shared pointers, so a handler that returns early keeps what it has
written; the actions for the error paths therefore change `dec` too. The crop and
destination rectangles, the RTSP address and the like are one value of `SrcVideo`:
the properties only compare it. Destination-side rejections (a wrong VO device or
channel) are the client mistakes of `ClientMistakes`.

Bounds: `MaxPriorities` stops a window from opening over that many (above it the
code goes on until memory ends), `U32` is the wrap of the 32-bit priorities made
small. Both are parameters, and the theorems hold for all their values.

`LogicHandle` starts where a node starts that has nothing to restore (`initAVDec` closes
every task and `setOutputTaskIDInMap` fills the channels). So does `Node`: the first start
has written the closed records before the pool has threads, and main starts the pool
before the first command. Of a later start `Restart` models what it reads back and how
it fills the tables from it: the entry met first wins (`insert`), windows before audio
streams, the counters from the open records, the priorities from the shown ones. Channels
do not change over a restart: the shown tasks keep theirs and the others get the least
ones left, in the order of the file, which is the order of the first start.

Two things of `TaskRestore` are assumed. `setAVDecEncInfoToJson` is defined in a header that
the repository lacks; the model takes it to hold the avdec mutex as
`setThirdWindowTaskToJson` holds the window mutex. And a file is written at once when it is
closed; a file larger than the stream's buffer would reach the disk in parts, and a crash
between two parts leaves it as unreadable as a crash before the first.

How the front end is cut into steps. One access to the idle list, or to a connection's state,
is atomic, although no mutex makes it so: what a torn `std::list` does to memory has no
model here. Everything larger is cut where another thread could see the difference: `send`
and its queueing (`send`, `QueueReply`), `connected()`, the test and the act of `shutdown` and the
test and the act of `forceCloseWithDelay` (`Look`, `Test`, `Disconnect`; the source marks these places FIXME,
`TcpConnection.cc:82`, `166`), `handleClose` and its callbacks, the push of a node and its
context, the splice and its assertion. The timer walks the live list: `it` is a node that the IO loops
may erase or move meanwhile, and `++it` goes to whatever follows it then. If the node is
gone (`UseDangling`), or an assertion fails, the behaviour of the code is undefined or the
program ends; the model stops there (`Aborted`), so that no property is about what would follow.

A read, in `Framing`, is a sequence of parts of packets: the head tag, the rest of the
header, the body. A read that ends inside a header has the missing fields read past its end,
so any command and any length is possible.

## 3. Properties and runs

The first five runs are of `MCLogicHandle`, the next three of `MCNode`, then one of
`MCCommandPath` and three of `MCServerHandle`.

| run | question | properties |
|---|---|---|
| `windows` | link and client behave; three third ids for two open/raise/move/close/clear commands over three tasks, two source areas | `PriorityStack`, `OpenIsLent`, `ReportMatchesScreen`, `CodecInStep`, `ClearedMeansClosed`, `AnsweredIsShown`, `AnsweredOnTop`, `WorkerNotStuck`, and the refinement `StackSpec` |
| `audio` | link works; three third ids, two audio tasks, two devices | `EveryTaskLentOnce`, `AudioOwned`, `OneTaskPerDevice`, `AnsweredAudioPlays` |
| `everything` | windows and audio, every fault, every clear, one id used for both | `TypeOK`, `CountersMatch`, `NoTaskLeaked`, `ClearBarrier`, `TaskOnlyWithSuccess` |
| `clear_aborted` | the codec refuses a window, then a clear | violates `WorkerNotStuck` |
| `moved_below` | four windows; the codec refuses a close and a move | violates `MovedOnTop` |
| `recover` | two windows, every window command, two pool threads, restarts between commands | `NothingForgotten`, `NothingRevived` |
| `restart` | one window, one audio stream, clears, crashes in the middle of a job | `StoreTypeOK`, `CountersMatch`, `JobsGetDone` |
| `restart_clear` | as `recover`, with a clear of the windows | violates `NothingRevived` |
| `pool` | two IO threads, the logic thread, three commands, a queue of one; the codec stops, starts, refuses, hangs up, is late | `QueueBounded`, `StartedInOrder`, `NoTaskLeftLying`, `NoCallerLeftBlocked`, `NoSocketLeft`, `RepliesMatch`, the refinement `ImplementsLink`, and the liveness properties `EveryCommandHandled`, `StopReturns` |
| `server` | one IO loop; a connection alone with packets, replies, a client that leaves or is reset; or two whose clients fall silent; the idle timer in both | `TypeOK`, `NoLostFunctor`, `LifeInOrder`, `RawPointersAlive`, `ListMatchesUp`, and the liveness properties `IdleIsClosed`, `ClosingIsFreed` |
| `list_race` | two IO loops, as `main` starts them | violates `MovedIsLast` |
| `shutdown_race` | one IO loop; the client leaves while the timer shuts its connection down | violates `DestroyedDisconnected` |

`Framing` has no state and so no run: TLC evaluates `ReadAsSent` for every read of up to six
parts of five packets as an assumption of `MCServerHandle`, and section 5 proves it.

What they say together: as long as the codec acknowledges every command and nobody
clears audio alone, the handlers keep the four descriptions of the screen in step and
implement the stack of windows; both are proved for any number of windows and tasks
(section 5). With a faulty link the id tables stay sound for window commands, but the
records may keep ghosts, and after a refused close and a refused move a window answered
with success need not be on top (`moved_below`). With everything allowed, what is left is
the bookkeeping of lent ids, that a window command which fails lends none, and the
agreement of flag and latch, and those are proved for all parameters.

Across a restart: the window commands save enough, and their jobs may run in any order
on the two threads, provided that the client sends the next command when the jobs of the
last are done (`Patient`) and the crash comes after them (`CrashMidway` FALSE). A crash in
the middle of a job may leave a file truncated and a window without an owner, but
the node starts with counters that match and the pool goes on.

The command path: whatever the codec does, a command that an IO thread hands over is
handled, in the order of the hand-overs, and the exchange reports truthfully; the exception is
a pool that is stopped, because `stop` does not wake the callers that wait for room.

The front end: whatever the timer, the logic thread and the close timer do to its state,
a connection is established, closed, removed from the map and let go in this order, its node is in the
list exactly while it reads events, and its last reference goes after `connectDestroyed`
(`LifeInOrder`, `ListMatchesUp`; proved for any number of loops). A functor with a plain pointer
runs before that last reference goes, with one exception: a `send` whose test of the state came before the
close, and which queued its functor after the map had let the connection go (`overtaken`); then
the loop uses a pointer to a connection that the logic thread may just have freed. The FIXME of
`TcpConnection.cc:82` says as much, so no run is spent on it. A silent client is disconnected even
if it never reads the shutdown, and a closed connection is freed, unless the program dies first.

The five violations are disagreements between the code and what it says of itself;
`PROJECT.json` quotes the lines. `clear_aborted`: a ghost record makes `clearAllTask` return
with the latch closed, and the only worker then waits for itself. `moved_below`: a refused close
hides the record but keeps the id, a refused move gives that record the top priority, and the
close that succeeds at last lowers the windows above the wrong place; a later move takes a
priority below, or equal to, the one of a window that should have been lowered. It takes
four windows: with three TLC finds no such behaviour. `restart_clear`:
`removeThirdTask` writes its file after it has released the lock, so of the removals that a
clear queues the last write wins and a restart revives a window that was cleared. `list_race`:
`onMessage` asserts that the node it has just moved is the last of the list, while the other IO
loop appends a new connection's; with one IO loop this cannot happen (theorem `OneLoopMovesLast`).
`shutdown_race`: `shutdown` finds the connection connected, `handleClose` on the connection's loop sets
`kDisconnected`, and `shutdown` sets `kDisconnecting` over it; nothing sets the state again, so
`~TcpConnection`, which asserts `kDisconnected`, ends the program. One IO loop is enough.

Limits met while modelling, which no line of the repository contradicts, so that no run is
spent on them: a clear of audio tasks (type 1) empties the windows' bookkeeping too
(`LogicHandle.cpp:1213`), so `windows` clears types 0 and 2; an openAudio that the codec refused is
answered with success on retry (`LogicHandle.cpp:1243-1250`), so `AnsweredAudioPlays` is checked
over a working link; the z-index of the status query is a copy that a later raise does not
refresh (`LogicHandle.cpp:1887`), so `ReportMatchesScreen` compares source and channel. Of several
packets in one read, those after the first are handled as sent only if they have its command
and its length: every turn of the loop parses the front of the whole read
(`ServerHandle.cpp:91`), although the length in a header is that of its own packet
(`interactivepro.h:521`).

Properties that hold in one run and are not checked in another fail there for a
reason that no comment of the repository contradicts, or are proved for it too
(`EveryTaskLentOnce` with a faulty link): `EveryTaskLentOnce` fails when a clear leaves a closed task in the audio device table and a later openAudio shifts
it; `AnsweredIsShown` fails over a link that refuses a close, because the
window keeps its id and its closed record is what a later move sends.

### Bounds

Three third ids for two audio tasks are the least instance in which a pool is full while
an id waits; three windows the least in which a raise lowers some windows and
not others. Two source areas tell "the right area" from "an area". `U32` = 8 is above
every number of windows of the run, so that a wrapped priority cannot coincide with a
real one; `everything` takes 4 with at most two windows, and there `MaxPriorities` = 2 lets
the list grow beyond the number of tasks, which only happens after a fault.
`everything` uses the view `NodeView`, which leaves out the codec's records, the last
reply and the last jobs: no handler reads them, so states that agree on the rest have
the same successors as far as the rest goes, and its properties mention nothing else
(the type of the three is also checked in the other runs and proved). It
does not check for deadlock, because the stuck worker of `clear_aborted` is one.

In `recover` two windows over two tasks are the least instance in which a close saves
the record of another window; two threads are what `main` starts. `MaxQueue` = 6 is more
than a command queues; with 32 in `main` and 16 windows, a patient client never fills
it either, except by a clear of all windows. `recover` takes the threads as
symmetric, which is sound for its two invariants; `restart` checks liveness and does
not. `restart` is small because a crash may strike between any two steps.

In `pool` a queue of one with two callers is the least instance in which a caller waits while
another may take its place; two of the commands send a request, which a record without a reply
may follow when it succeeds, and one is a query; `MaxTries` = 2 tells a failed try from the last one.
`server` bounds its clients by `FewClients`. A client that sends or leaves is alone: two packets are
what fills a queue of one while the thread is busy, their contents do not matter, and the races
for the state of a connection are between the threads and need no second connection. Two
connections, which the order of a list and a node erased beside the timer's need, send
nothing. The bound forbids steps of clients only, never
one of the program, so that the fairness of the program's steps means the same under it. Both loops of `main`, and a splice beside the walking timer, are met in
`list_race` and in the proofs only.
`MaxPackets`, `Senders` and `Leavers` bound the clients only; the theorems have no such bounds.
`pool` and the runs of `MCServerHandle` do not check for deadlock: clients may do nothing, the tasks of `pool`
end, and a failed assertion ends the program.

## 4. Fairness

The runs of `MCLogicHandle` check safety and assume nothing: `[][Next]_vars` lets the client
stop at any time, as it may. `NodeSpec` assumes weak fairness of each thread of
TaskRestore's pool: a thread that can go on in its job, or can take one, is scheduled.
A thread waits for nothing but its queue and one mutex, which another thread holds
only across file operations. Nothing is assumed of the client or of crashes, so
`JobsGetDone` allows that a crash, rather than the thread, ends the jobs.

`CommandPath` assumes weak fairness of each caller, of each thread of the pool and of the
join in `stop`. A step of the thread includes the timeout of its exchange (`NoReply`,
`SendFails`, `ConnectFails`), which is what the code's bounded tries and its two selects
justify. Nothing is assumed of the codec, so `EveryCommandHandled` holds although it may never
listen or reply.

`ServerHandle` assumes weak fairness of each loop's thread and of the worker's, whose exchange
ends by the above. A timer needs more: `poll` returns for whatever is ready first, so that a
timer is served is strong fairness of the polls that find it expired (`PollTimer`), which the
timer descriptor justifies: it stays readable until it is read. `GrowsIdle` is weakly fair
because time passes. Nothing is assumed of the clients.

## 5. Proofs

`LogicHandle_proofs` first proves that each operation on the id tables keeps
`TablesInv`: the tables are typed, the counters count the lent ids, each lent id has a
borrower, and no id of type "none" is lent. Its theorems are:

* `InvariantHolds` -- `Spec => []IInv`
* `TypesHold` -- `Spec => []TypeOK`
* `CountersAlwaysMatch` -- `Spec => []CountersMatch`
* `NoTaskIsLeaked` -- `Spec => []NoTaskLeaked`
* `ClearBarrierHolds` -- `Spec => []ClearBarrier`

They hold for all pools, all sets of third ids, any width of the priorities, all
link faults, all clear types and a client that makes mistakes, under the
assumptions `TaskIDAssumption` (ids lie in the ranges the code names) and
`HandlerAssumption` (the parameters' types; channels of different video tasks
differ).

`TypeOK` alone is not inductive. `NextPriority` is typed only if the last entry of
`winPriority` is; `winPriority` is typed after a pop only if it was a list; and no
step from a state in which the list holds arbitrary numbers keeps it sorted. So the
invariant `IInv` says the stronger thing: `winPriority` is exactly 0, 1, ..., n-1 with
n at most `MaxPriorities` (opening appends the next number, every close or failure
takes the last, a raise leaves the list alone, a clear empties it), which also makes
`std::sort` the identity. `CountersMatch` needs that an id is never
returned twice, hence that the ids lent are in their pools and `removeCodecTaskID`
counts down once per id; the clear, which returns many ids at once, needs the
cardinality lemmas of `GiveBackKeepsTables`. `NoTaskLeaked` rests on the same lemmas.

* `TaskComesWithAnswer` -- `Spec => TaskOnlyWithSuccess`, an action property: the only steps
  that add a third id are `Lend`'s, and every failing path of a window command takes the
  id back in the same step.
* `EveryTaskIsLentOnce` -- `AudioLeftAlone => (Spec => []EveryTaskLentOnce)`, over every kind of
  link. `AudioLeftAlone` says that no audio command is sent, or that the client clears only
  video and never uses one third id for both kinds; without it TLC finds the shared task
  described in section 3. The invariant `Owned` adds to the property that an id's task is of
  the kind of its commands, and that the device table names only tasks that are lent
  (`DevicesHeld`): a stream that shifts a device's task takes its id from that table.

### A node that is left undisturbed

`Undisturbed_proofs` is about a node whose codec acknowledges every
command it must acknowledge and whose client makes no mistakes and clears no audio by itself:

    Undisturbed == ~ClientMistakes, LinkFaults \subseteq {"lost"}, 1 \notin ClearTypes,
                   and clears of everything only if there is no audio
    Lossless    == LinkFaults = {}

This is what the runs `windows` and `audio` check on small instances, and each condition is
needed: a refused record leaves a ghost (`clear_aborted`, `moved_below`), a clear of audio empties
the windows' tables, a clear does not empty the device table, and a client's mistake may
raise an audio task as a window. A record sent without waiting for an answer may be
lost; where the codec's own state matters, `Lossless` excludes that too. The number of tasks,
windows, devices' streams and areas, the order of commands, and the width of the priorities
are arbitrary.

`StaysCalm` proves the inductive invariant `IInv /\ Calm`. None of the eleven properties is
inductive: they relate the id tables, the records, the list of priorities, the two maps for
status queries, the device table and the codec, and a handler reads one to change another.
`Calm` says for each pair how they go together:

* `RecordsMatch` -- a record is open, and is a window, exactly as its id is lent;
* `Ranked` -- the priorities of the windows are a bijection onto 0 .. n-1, where n is the length of
  `winPriority`. A raise takes the last number and lowers those above, a close closes the
  gap, so no unsigned subtraction wraps;
* `SourcesFollow`, `ChannelsFollow` -- both maps have an entry per window, with its area and id;
* `DevicesBound` -- the device table and the records of the audio tasks name each other;
* `NotClearing` -- no clear is left unfinished, which needs that a clear meets no orphan;
* `Answered` -- what the last answer said is still so;
* `Lossless => codec = dec`.

Each handler has a lemma that gives its effect on all of these under the invariant
(`OpenEffect`, `RaiseEffect`, ...), with the paths that cannot be taken excluded first. From
`StaysCalm` follow `PrioritiesStack`, `OpenMeansLent`, `AnsweredGoOnTop`, `AnsweredAreShown` and
`WorkerNeverStuck`, and, for a link that is `Lossless`, `CodecStaysInStep`, `ReportIsTheScreen`,
`ClearedAreClosed`, `AudioIsOwned`, `OneTaskOnADevice` and `AnsweredAudioIsPlaying`.

`HandlersImplementStack` is the refinement: `Spec => StackSpec` for an `Undisturbed` and
`Lossless` node. `Screen` maps the codec's records to a sequence by counting the windows below
each; as the priorities are a bijection, the window of rank k is at place k + 1
(`ScreenIsStack`). So a step of the handlers is followed on ranks: an open adds the rank n, a
raise gives n - 1 to one window and lowers those above, a close removes one rank, and the
lemmas `StackGrows`, `StackShrinks` and their like translate that into `Append` and `RemoveAt`.
All other steps, among them every audio command and every rejection, leave the screen as it
is and so stutter.

### The other components

`ThreadPool_proofs` proves `PoolBounded`, `PoolInOrder` and `PoolLosesNoWakeup`, for any number
of callers, threads and tasks and any bound. The inductive invariant is the conjunction of
the properties with the types and `SleepersOK`: who sleeps is in `take`, or has a task in
its hands. The wake-up properties are inductive because they count: as many threads are awake
in `take` as tasks lie in the queue, whenever one sleeps, so a notification that meets nobody
is not missed. `notify` takes one from a set of sleepers, so the steps rest on lemmas about
cardinalities.

`CommandPath_proofs` proves of `CodecChannel` `ChannelImplementsLink` (every step of the exchange and of the codec
is a step of `CodecLink` or a stutter), `ChannelLeavesNoSocket` and `ChannelMatchesReplies`. The
invariant follows a request on its way: not sent, in the codec's inbox, or performed and
perhaps replied to, at one place at a time; and a request that was refused is in none of
them. It then shows that a behaviour of the composition is one of the pool and
one of the channel, so that `PathPool` and `PathImplementsLink` follow. They assume one worker,
as `main` starts (`PathAssumption`).

`ServerHandle_proofs` first proves `LoopLosesNoFunctor` of `EventLoop`, with the invariant that an event is left to be
handled only in the part of the iteration that handles events.

`Framing_proofs` proves `EveryReadAsSent`, for all packets, commands, lengths and cuts of a
stream: a read that begins inside a packet, or ends before its first packet does, starts no
handler; the first packet goes to its handler as it was sent; packets of one command and
length that were read together go there each by itself, in order.

Of `ServerHandle` it proves, for any number of connections, IO loops and packets:

* `ServerTyped`, `ServerLosesNoFunctor`
* `LivesInOrder` -- the stages of a connection's life, whatever the races make of its state
* `ListIsUp` -- the idle list holds exactly the connections that read events, each once
* `RawPointersLive` -- no plain pointer is left when the last reference goes, but that of an
  overtaken send
* `OneLoopMovesLast` -- with one IO loop the position that `onMessage` asserts is right

None of these is inductive. `ServerInv` says for each connection how its state, channel, map
entry, loop and `amid` go together (`Stages`). The state alone says little: after a close it may be
`kDisconnected` or, by the race, `kDisconnecting`, so the stages rest on what only the
connection's loop writes. `FunctorsOK` says of each functor still to run, in the rest of the
swapped batch or in the queue behind it, in which of these stages it will meet its connection
(`Placed`), that `connectEstablished` and `removeConnectionInLoop` wait at most once (`Once`), and that a functor with a plain pointer waits behind `connectDestroyed` only if its
connection is `overtaken` (`Ordered`). A connection the map has let go is held by its `connectDestroyed`, or that has
run (`Held`); the list is the set of those that read events (`ListOK`); the events of a poll belong
to connections that stay in the poller until they are handled (`EventsOK`). The timer's
`shutdown` cannot be overtaken as a `send` can: the base loop is in the middle of its walk, and only the
base loop takes connections out of the map (`WalkOK`). Of a send under way there is only `SendOK`, that its
connection has a loop. `MayFail` lists what
can fail at all: the iterator, a node without context, a node erased twice, an
overtaken `this`, and the position; so the other assertions cannot.
`RawPointersLive` is then a consequence: a dead connection is out of the map, so its
`connectDestroyed` has run, and nothing waits behind it but an overtaken send.
`OneLoopMovesLast` needs one invariant more (`SplicedLast`): between the splice and the assertion
of the only IO loop, nobody else appends to the list.

`Node_proofs` proves, over `NodeSpec`, for any number of the pool's threads, any bound of its queue,
all link faults and mistakes of the client, and crashes anywhere in a job:

* `NodeInvariantHolds` -- `NodeSpec => []NodeInv`
* `StoreTypesHold` -- the files hold entries of their kind, the queue keeps its bound
* `CountersMatchAfterRestarts` -- the counters count the ids lent, also after a start from files
  that a crash has truncated

`IInv` of `LogicHandle_proofs` does not survive `Restart`: a truncated file of windows beside a whole
file of records brings windows back that nobody owns. `NodeInv` keeps of memory only what every
start restores (`MemoryOK`: typed tables and maps, counters that agree) and adds the store
(`StoreOK`). Types alone are not inductive there either: a job that read an unreadable file
of records would write back an empty list, and the entry it then looks for would not be
found. So the invariant says that a readable file of records has one for every codec task
(`Complete`), and that the file is unreadable only while a save holds it open (`BeingWritten`);
that save holds the file's mutex, hence no other job reads it meanwhile, and after a crash the
constructor writes the file anew. The restored tables and records are typed because each
entry is the kind its file is for. What the model's sorting yields (`ListedInOrder`, `SortedIsTyped`)
is proved by counting places (`PlacesAreFilled`): of n elements of which each two are ordered, one has
k before it for each k < n.

### What a restart gives back

`Recovery_proofs` proves the two promises of the files, for any number of tasks, windows and
threads of the pool, any bound of its queue and any number of restarts:

* `ForgetsNothing` -- `PatientClient => (NodeSpec => []NothingForgotten)`
* `RevivesNothing` -- `PatientClient /\ AudioID = {} => (NodeSpec => []NothingRevived)`

The condition `PatientClient` says that the client waits for the jobs of a command before it
sends the next, makes no mistakes and clears nothing, that no crash meets a job half done, and that
the codec acknowledges what it is asked; records sent without a reply may be lost. It is what
the run `recover` checks on two windows (there over a link that loses nothing), and the code
needs each part of it:

* a close that the codec refuses ends in an error and saves nothing, so the window stays
  in the files although the node has taken its id back;
* a client that raises a window under another kind of id makes the handler return the id
  without removing the entry from the file;
* a clear queues several removals on the file of windows at once, and `removeRecord` writes that
  file outside the mutex it read it under: the run `restart_clear` loses one of them;
* a crash takes the jobs that wait with it, and may truncate the file being written;
* a stream that loses its device to another leaves an entry with task id 0, which a start
  reads back. Hence `AudioID = {}` in `RevivesNothing`, and only there.

Neither property is inductive, as both speak only of a store with nothing left to do.
`RecoveryInv` speaks of every moment. The list of a file is taken to be the one that a thread is
about to write, if there is one (`Now`), and the jobs that have not yet read their file are
`Pending`. Then

* `RecordsFollow` -- every entry of a decoder record agrees with the node, or a save of that
  record is pending; a pending save holds what the node holds;
* `WindowsFollow` -- every entry of the file of windows names a promised window and its task, or
  its removal is pending; every promised window has an entry or a pending save; nobody
  removes a promised window;
* `AudioApart` -- the entries of the third file never name a window or its task, so what a start reads
  there does not override the windows;
* `OwnersOK` -- each window has a task of its own, lent, open and shown;
* `OneWriterOf("avdec")`, `OneWindowJob` -- one thread at a time writes a file. For the records the
  mutex sees to that, and for the windows only that one job on their file is under way: this is
  where the patience of the client enters.

The step of a thread that reads a file moves a job from `Pending` into `Now`, and all its other
steps leave both as they are (`Rests`, `Does`). The step of a handler is described by what it tells the
files (which records it saves, which window it saves or removes) and what it changes in memory,
each of which keeps the invariant for a store that is drained. A start from a drained store reads
exactly the promised windows back, each open, and therefore starts within the invariant again;
which needs that reading the list in order, each entry overriding those before, is the same
as looking an entry up, because no two entries of a file have one key.

Liveness stays with TLC: `JobsGetDone`, `EveryCommandHandled` and the other properties under fairness
are out of the prover's reach, as are ENABLED and what recursive definitions compute for every
input. Of the invariants and action properties that the passing runs check, each is stated by a
theorem.

## 6. Plan

In this order, most important first:

1. `Framing` and `ServerHandle` composed: a stream per connection, cut by the reads.
2. The output buffer, with the half-close of a connection that still has data to send.
3. The encoder records of an input node (`setJsonInfo`, `setAVEncInfoByJson`) and the query of the
   codec's tasks at start-up.

## 7. Not modelled

* The handlers that only read: `getInfo` apart from what the status query reports, and
  `getJsonInfo`. `setInfo` is compiled out, `setAudioInfo` does nothing, and `updateBatch` reboots the
  node.
* `setJsonInfo` and the encoder records of an input node: one record is changed by one command,
  without a second actor.
* Of the front end, the output buffer and the half-close. Of the codec channel, the overload of
  `doSendCommand` with a path, which has no caller; `NetTrans` is used by the UDP search only.
* `CircleBoundedQueue` is used by `CtrlBoardHandle` only, which `main` compiles out.
* The UDP search answers a datagram with the description of the device; it keeps no state that
  a datagram changes. The front panel, its lights, network set-up and ini files are I/O without a
  protocol.
* Vendored code (`xmlParser`, jsoncpp, MD5, the parts of muduo that no connection's life goes
  through), the protocol headers and the test client `unix_cli.c`. They are most of the
  repository's lines, so the modelled part, which is the program's control, is a small share of
  them.
* What failing batch requests leave in an uninitialised list of errors (`NodeInfo.cpp:1003`): the
  handlers of the model use the outcome of the request only.
