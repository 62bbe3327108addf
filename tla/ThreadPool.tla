----------------------------- MODULE ThreadPool -----------------------------
(***************************************************************************)
(* The bounded pool of threads that runs the node's commands and the saves *)
(* of its tasks (class muduo::ThreadPool): callers of run put tasks at the *)
(* end of a queue, the threads take them from its front.  A mutex protects *)
(* the queue, so what a call does between taking the mutex and releasing   *)
(* or waiting is one action; two condition variables make the callers wait *)
(* while the queue is full and the threads wait while it is empty.  A wait *)
(* may end without a notification.                                         *)
(*                                                                         *)
(* accepted and started record the tasks that run has put in the queue and *)
(* those that a thread has taken out, for the properties.                  *)
(***************************************************************************)
EXTENDS Naturals, Sequences, FiniteSets

CONSTANTS Caller,       \* the threads that call run
          Worker,       \* the threads of the pool
          Task,         \* the tasks, each of which is run once
          MaxQueueSize, \* 0: the queue is not bounded
          None

ASSUME PoolAssumption ==
  /\ MaxQueueSize \in Nat
  /\ IsFiniteSet(Caller) /\ IsFiniteSet(Worker)
  /\ None \notin Task

VARIABLES queue,    \* tasks not taken yet, oldest first
          running,  \* FALSE once stop was called
          calling,  \* caller -> the task it is handing over, or None
          notFull,  \* callers that wait for notFull_
          notEmpty, \* threads that wait for notEmpty_
          at,       \* thread -> where runInThread is
          task,     \* thread -> the task it runs, or None
          joined,   \* stop has returned
          accepted, started

poolVars ==
  <<queue, running, calling, notFull, notEmpty, at, task, joined, accepted, started>>

PoolTypeOK ==
  /\ queue \in Seq(Task)
  /\ running \in BOOLEAN
  /\ calling \in [Caller -> Task \cup {None}]
  /\ notFull \in SUBSET Caller
  /\ notEmpty \in SUBSET Worker
  /\ at \in [Worker -> {"test", "take", "task", "exited"}]
  /\ task \in [Worker -> Task \cup {None}]
  /\ joined \in BOOLEAN
  /\ accepted \in Seq(Task)
  /\ started \in Seq(Task)

(* After start: every thread is about to test running_.                    *)
PoolInit ==
  /\ queue = <<>>
  /\ running = TRUE
  /\ calling = [c \in Caller |-> None]
  /\ notFull = {}
  /\ notEmpty = {}
  /\ at = [w \in Worker |-> "test"]
  /\ task = [w \in Worker |-> None]
  /\ joined = FALSE
  /\ accepted = <<>>
  /\ started = <<>>

-----------------------------------------------------------------------------
isFull == MaxQueueSize > 0 /\ Len(queue) >= MaxQueueSize

(* Condition::notify wakes one of the waiting threads, if there is any.    *)
AfterNotify(waiting) ==
  IF waiting = {} THEN {waiting} ELSE {waiting \ {x} : x \in waiting}

Submitted(t) ==
  \/ \E c \in Caller : calling[c] = t
  \/ \E i \in 1..Len(accepted) : accepted[i] = t

Call(c, t) ==
  /\ calling[c] = None
  /\ ~Submitted(t)
  /\ calling' = [calling EXCEPT ![c] = t]
  /\ UNCHANGED <<queue, running, notFull, notEmpty, at, task, joined, accepted, started>>

Handing(c) == calling[c] # None /\ c \notin notFull

WaitNotFull(c) ==
  /\ Handing(c)
  /\ isFull
  /\ notFull' = notFull \cup {c}
  /\ UNCHANGED <<queue, running, calling, notEmpty, at, task, joined, accepted, started>>

PushUnchecked(c) ==  \* mutant: the queue takes one task more than its bound
  /\ Handing(c)
  /\ MaxQueueSize > 0 => Len(queue) <= MaxQueueSize
  /\ queue' = Append(queue, calling[c])
  /\ accepted' = Append(accepted, calling[c])
  /\ notEmpty' \in AfterNotify(notEmpty)
  /\ calling' = [calling EXCEPT ![c] = None]
  /\ UNCHANGED <<running, notFull, at, task, joined, started>>

PushSilently(c) ==  \* mutant: no thread is notified
  /\ Handing(c)
  /\ ~isFull
  /\ queue' = Append(queue, calling[c])
  /\ accepted' = Append(accepted, calling[c])
  /\ calling' = [calling EXCEPT ![c] = None]
  /\ UNCHANGED <<running, notFull, notEmpty, at, task, joined, started>>

Push(c) ==
  /\ Handing(c)
  /\ ~isFull
  /\ queue' = Append(queue, calling[c])
  /\ accepted' = Append(accepted, calling[c])
  /\ notEmpty' \in AfterNotify(notEmpty)
  /\ calling' = [calling EXCEPT ![c] = None]
  /\ UNCHANGED <<running, notFull, at, task, joined, started>>

-----------------------------------------------------------------------------
(* runInThread tests running_ without the mutex and does not drain the     *)
(* queue when the pool stops.                                              *)
TestRunning(w) ==
  /\ at[w] = "test"
  /\ at' = [at EXCEPT ![w] = IF running THEN "take" ELSE "exited"]
  /\ UNCHANGED <<queue, running, calling, notFull, notEmpty, task, joined, accepted, started>>

Taking(w) == at[w] = "take" /\ w \notin notEmpty

WaitNotEmpty(w) ==
  /\ Taking(w)
  /\ queue = <<>> /\ running
  /\ notEmpty' = notEmpty \cup {w}
  /\ UNCHANGED <<queue, running, calling, notFull, at, task, joined, accepted, started>>

PopSilently(w) ==  \* mutant: no caller is notified
  /\ Taking(w)
  /\ queue # <<>>
  /\ task' = [task EXCEPT ![w] = Head(queue)]
  /\ started' = Append(started, Head(queue))
  /\ queue' = Tail(queue)
  /\ at' = [at EXCEPT ![w] = "task"]
  /\ UNCHANGED <<running, calling, notFull, notEmpty, joined, accepted>>

CopyFront(w) ==  \* mutant: the front of the queue is copied, not removed
  /\ Taking(w)
  /\ queue # <<>>
  /\ task' = [task EXCEPT ![w] = Head(queue)]
  /\ started' = Append(started, Head(queue))
  /\ at' = [at EXCEPT ![w] = "task"]
  /\ UNCHANGED <<queue, running, calling, notFull, notEmpty, joined, accepted>>

Pop(w) ==
  /\ Taking(w)
  /\ queue # <<>>
  /\ task' = [task EXCEPT ![w] = Head(queue)]
  /\ started' = Append(started, Head(queue))
  /\ queue' = Tail(queue)
  /\ notFull' \in (IF MaxQueueSize > 0 THEN AfterNotify(notFull) ELSE {notFull})
  /\ at' = [at EXCEPT ![w] = "task"]
  /\ UNCHANGED <<running, calling, notEmpty, joined, accepted>>

(* take returns no task when the pool stops while the queue is empty.      *)
TakeNothing(w) ==
  /\ Taking(w)
  /\ queue = <<>> /\ ~running
  /\ at' = [at EXCEPT ![w] = "test"]
  /\ UNCHANGED <<queue, running, calling, notFull, notEmpty, task, joined, accepted, started>>

TaskDone(w) ==
  /\ at[w] = "task"
  /\ at' = [at EXCEPT ![w] = "test"]
  /\ task' = [task EXCEPT ![w] = None]
  /\ UNCHANGED <<queue, running, calling, notFull, notEmpty, joined, accepted, started>>

-----------------------------------------------------------------------------
StopSilently ==  \* mutant: stop does not wake the threads
  /\ running
  /\ running' = FALSE
  /\ UNCHANGED <<queue, calling, notFull, notEmpty, at, task, joined, accepted, started>>

(* stop wakes the threads, but none of the callers that wait.              *)
Stop ==
  /\ running
  /\ running' = FALSE
  /\ notEmpty' = {}
  /\ UNCHANGED <<queue, calling, notFull, at, task, joined, accepted, started>>

Join ==
  /\ ~running /\ ~joined
  /\ \A w \in Worker : at[w] = "exited"
  /\ joined' = TRUE
  /\ UNCHANGED <<queue, running, calling, notFull, notEmpty, at, task, accepted, started>>

SpuriousWakeup ==
  /\ \/ /\ notFull # {}
        /\ notFull' \in AfterNotify(notFull)
        /\ UNCHANGED notEmpty
     \/ /\ notEmpty # {}
        /\ notEmpty' \in AfterNotify(notEmpty)
        /\ UNCHANGED notFull
  /\ UNCHANGED <<queue, running, calling, at, task, joined, accepted, started>>

CallerStep(c) == WaitNotFull(c) \/ Push(c)

WorkerStep(w) == TestRunning(w) \/ WaitNotEmpty(w) \/ Pop(w) \/ TakeNothing(w)

PoolNext ==
  \/ \E c \in Caller : CallerStep(c) \/ \E t \in Task : Call(c, t)
  \/ \E w \in Worker : WorkerStep(w) \/ TaskDone(w)
  \/ Stop
  \/ Join
  \/ SpuriousWakeup

PoolSpec == PoolInit /\ [][PoolNext]_poolVars

-----------------------------------------------------------------------------
(* The queue never holds more tasks than setMaxQueueSize allows: this is   *)
(* the assert(!isFull()) of run, whatever wakes its caller.                *)
QueueBounded == MaxQueueSize > 0 => Len(queue) <= MaxQueueSize

(* Tasks are started in the order in which run took them, none twice and   *)
(* none left out: the commands of a client are handled in the order of its *)
(* packets, however long its connection's thread was blocked.              *)
StartedInOrder == accepted = started \o queue

(* While a thread sleeps in take, no task is without a thread: at least as *)
(* many threads are awake in take as there are tasks in the queue.  push   *)
(* notifies one thread per task, so a notification that is left out or     *)
(* taken by a thread that was awake would leave a command lying.           *)
NoTaskLeftLying ==
  notEmpty # {} => Len(queue) <= Cardinality({w \in Worker : Taking(w)})

(* While a caller of run sleeps, every free place of the queue has a       *)
(* caller awake for it: an IO thread never stays blocked in run although   *)
(* the queue has room.                                                     *)
NoCallerLeftBlocked ==
  notFull # {} =>
    MaxQueueSize <= Len(queue) + Cardinality({c \in Caller : Handing(c)})
=============================================================================
