-------------------------- MODULE ThreadPool_proofs --------------------------
(***************************************************************************)
(* The pool of threads keeps its queue bounded and in order and loses no   *)
(* wake-up, for every number of callers, threads and tasks and for every   *)
(* bound of the queue, also when waits end without a notification and when *)
(* the pool is stopped in the middle.                                      *)
(***************************************************************************)
EXTENDS ThreadPool, FiniteSetTheorems, TLAPS

AwakeThreads == {w \in Worker : Taking(w)}
AwakeCallers == {c \in Caller : Handing(c)}

(* Those who sleep are those who had to: a thread in take, a caller with a *)
(* task in its hands.                                                      *)
SleepersOK ==
  /\ \A w \in notEmpty : at[w] = "take"
  /\ \A c \in notFull : calling[c] # None
  /\ notFull # {} => MaxQueueSize > 0

(* The inductive invariant.                                                *)
PoolInv ==
  /\ PoolTypeOK
  /\ SleepersOK
  /\ QueueBounded
  /\ StartedInOrder
  /\ NoTaskLeftLying
  /\ NoCallerLeftBlocked

-----------------------------------------------------------------------------
(* The threads and callers that are awake can be counted.                  *)
LEMMA Countable ==
  /\ IsFiniteSet(AwakeThreads) /\ Cardinality(AwakeThreads) \in Nat
  /\ IsFiniteSet(AwakeCallers) /\ Cardinality(AwakeCallers) \in Nat
  /\ IsFiniteSet(AwakeThreads') /\ Cardinality(AwakeThreads') \in Nat
  /\ IsFiniteSet(AwakeCallers') /\ Cardinality(AwakeCallers') \in Nat
<1>1. AwakeThreads \in SUBSET Worker /\ AwakeThreads' \in SUBSET Worker
  BY DEF AwakeThreads
<1>2. AwakeCallers \in SUBSET Caller /\ AwakeCallers' \in SUBSET Caller
  BY DEF AwakeCallers
<1>3. IsFiniteSet(Worker) /\ IsFiniteSet(Caller)
  BY PoolAssumption
<1>4. IsFiniteSet(AwakeThreads) /\ IsFiniteSet(AwakeThreads')
  BY <1>1, <1>3, FS_Subset
<1>5. IsFiniteSet(AwakeCallers) /\ IsFiniteSet(AwakeCallers')
  BY <1>2, <1>3, FS_Subset
<1> QED
  BY <1>4, <1>5, FS_CardinalityType

(* What the queue and the history are after a push and after a pop.        *)
LEMMA PushKeepsOrder ==
  ASSUME NEW q \in Seq(Task), NEW s \in Seq(Task), NEW t \in Task
  PROVE  /\ Append(q, t) \in Seq(Task)
         /\ Len(Append(q, t)) = Len(q) + 1
         /\ Append(s \o q, t) = s \o Append(q, t)
OBVIOUS

LEMMA PopKeepsOrder ==
  ASSUME NEW q \in Seq(Task), NEW s \in Seq(Task), q # <<>>
  PROVE  /\ Head(q) \in Task
         /\ Tail(q) \in Seq(Task)
         /\ Len(Tail(q)) = Len(q) - 1
         /\ Len(q) \in Nat /\ Len(q) > 0
         /\ Append(s, Head(q)) \in Seq(Task)
         /\ Append(s, Head(q)) \o Tail(q) = s \o q
OBVIOUS

(* A notification wakes one sleeper, if there is one.                      *)
LEMMA NotifyWakes ==
  ASSUME NEW waiting, NEW after \in AfterNotify(waiting)
  PROVE  \/ waiting = {} /\ after = {}
         \/ \E x \in waiting : after = waiting \ {x}
BY DEF AfterNotify

-----------------------------------------------------------------------------
LEMMA InitPool == PoolInit => PoolInv
<1>. SUFFICES ASSUME PoolInit
              PROVE  PoolInv
  OBVIOUS
<1>. USE DEF PoolInit
<1>0. <<>> \in Seq(Task)
  OBVIOUS
<1>1. PoolTypeOK
  <2>1. queue \in Seq(Task) /\ accepted \in Seq(Task) /\ started \in Seq(Task)
    BY <1>0
  <2>2. /\ calling \in [Caller -> Task \cup {None}]
        /\ task \in [Worker -> Task \cup {None}]
        /\ at \in [Worker -> {"test", "take", "task", "exited"}]
    OBVIOUS
  <2>3. running \in BOOLEAN /\ joined \in BOOLEAN
    OBVIOUS
  <2>. QED
    BY <2>1, <2>2, <2>3 DEF PoolTypeOK
<1>2. QueueBounded
  BY PoolAssumption DEF QueueBounded
<1>3. StartedInOrder
  BY DEF StartedInOrder
<1>. QED
  BY <1>1, <1>2, <1>3 DEF PoolInv, SleepersOK, NoTaskLeftLying, NoCallerLeftBlocked

(* A step that leaves the queue and the sleeping threads as they are, and  *)
(* puts no thread out of take, leaves no task lying.                       *)
LEMMA ThreadsUndisturbed ==
  ASSUME NoTaskLeftLying, queue \in Seq(Task),
         queue' = queue, notEmpty' \subseteq notEmpty,
         AwakeThreads \subseteq AwakeThreads'
  PROVE  NoTaskLeftLying'
<1>1. Cardinality(AwakeThreads) <= Cardinality(AwakeThreads')
  BY Countable, FS_Subset
<1>. QED
  BY <1>1, Countable DEF NoTaskLeftLying, AwakeThreads

LEMMA CallersUndisturbed ==
  ASSUME NoCallerLeftBlocked, queue \in Seq(Task),
         queue' = queue, notFull' \subseteq notFull,
         AwakeCallers \subseteq AwakeCallers'
  PROVE  NoCallerLeftBlocked'
<1>1. Cardinality(AwakeCallers) <= Cardinality(AwakeCallers')
  BY Countable, FS_Subset
<1>. QED
  BY <1>1, Countable, PoolAssumption DEF NoCallerLeftBlocked, AwakeCallers

LEMMA CallStep ==
  ASSUME PoolInv, NEW c \in Caller, NEW t \in Task, Call(c, t)
  PROVE  PoolInv'
<1>. USE DEF PoolInv, PoolTypeOK, Call
<1>1. PoolTypeOK'
  OBVIOUS
<1>2. SleepersOK'
  BY PoolAssumption DEF SleepersOK
<1>3. QueueBounded' /\ StartedInOrder'
  BY DEF QueueBounded, StartedInOrder
<1>4. AwakeThreads' = AwakeThreads /\ AwakeCallers \subseteq AwakeCallers'
  BY PoolAssumption DEF AwakeThreads, AwakeCallers, Taking, Handing
<1>. QED
  BY <1>1, <1>2, <1>3, <1>4, ThreadsUndisturbed, CallersUndisturbed

LEMMA WaitNotFullStep ==
  ASSUME PoolInv, NEW c \in Caller, WaitNotFull(c)
  PROVE  PoolInv'
<1>. USE DEF PoolInv, PoolTypeOK, WaitNotFull
<1>1. PoolTypeOK'
  OBVIOUS
<1>2. SleepersOK'
  BY DEF SleepersOK, Handing, isFull
<1>3. QueueBounded' /\ StartedInOrder'
  BY DEF QueueBounded, StartedInOrder
<1>4. AwakeThreads' = AwakeThreads
  BY DEF AwakeThreads, Taking
<1>5. NoCallerLeftBlocked'
  <2>1. MaxQueueSize <= Len(queue')
    BY DEF isFull
  <2>. QED
    BY <2>1, Countable, PoolAssumption DEF NoCallerLeftBlocked, AwakeCallers
<1>. QED
  BY <1>1, <1>2, <1>3, <1>4, <1>5, ThreadsUndisturbed

LEMMA PushStep ==
  ASSUME PoolInv, NEW c \in Caller, Push(c)
  PROVE  PoolInv'
<1>. USE DEF PoolInv, PoolTypeOK, Push
<1>1. calling[c] \in Task /\ c \in AwakeCallers
  BY DEF Handing, AwakeCallers
<1>2. /\ queue' \in Seq(Task) /\ Len(queue') = Len(queue) + 1
      /\ accepted' = started' \o queue' /\ accepted' \in Seq(Task)
  BY <1>1, PushKeepsOrder DEF StartedInOrder
<1>3. (notEmpty' = {} /\ notEmpty = {}) \/ \E x \in notEmpty : notEmpty' = notEmpty \ {x}
  BY NotifyWakes
<1>4. PoolTypeOK'
  BY <1>2, <1>3
<1>5. SleepersOK'
  BY <1>3 DEF SleepersOK, Handing
<1>6. QueueBounded' /\ StartedInOrder'
  BY <1>2, PoolAssumption DEF QueueBounded, StartedInOrder, isFull
<1>7. NoTaskLeftLying'
  <2>1. CASE notEmpty = {}
    BY <1>3, <2>1 DEF NoTaskLeftLying
  <2>2. CASE notEmpty # {}
    <3>1. PICK x \in notEmpty : notEmpty' = notEmpty \ {x}
      BY <1>3, <2>2
    <3>2. AwakeThreads' = AwakeThreads \cup {x} /\ x \notin AwakeThreads
      BY <3>1 DEF AwakeThreads, Taking, SleepersOK
    <3>3. Cardinality(AwakeThreads') = Cardinality(AwakeThreads) + 1
      BY <3>2, Countable, FS_AddElement
    <3>. QED
      BY <1>2, <2>2, <3>3, Countable DEF NoTaskLeftLying, AwakeThreads
  <2>. QED
    BY <2>1, <2>2
<1>8. NoCallerLeftBlocked'
  <2>1. AwakeCallers' = AwakeCallers \ {c}
    BY DEF AwakeCallers, Handing
  <2>2. Cardinality(AwakeCallers') = Cardinality(AwakeCallers) - 1
    BY <1>1, <2>1, Countable, FS_RemoveElement
  <2>. QED
    BY <1>2, <2>2, Countable, PoolAssumption DEF NoCallerLeftBlocked, AwakeCallers
<1>. QED
  BY <1>4, <1>5, <1>6, <1>7, <1>8

LEMMA TestRunningStep ==
  ASSUME PoolInv, NEW w \in Worker, TestRunning(w)
  PROVE  PoolInv'
<1>. USE DEF PoolInv, PoolTypeOK, TestRunning
<1>1. PoolTypeOK'
  OBVIOUS
<1>2. SleepersOK'
  BY DEF SleepersOK
<1>3. QueueBounded' /\ StartedInOrder'
  BY DEF QueueBounded, StartedInOrder
<1>4. AwakeThreads \subseteq AwakeThreads' /\ AwakeCallers' = AwakeCallers
  BY DEF AwakeThreads, AwakeCallers, Taking, Handing
<1>. QED
  BY <1>1, <1>2, <1>3, <1>4, ThreadsUndisturbed, CallersUndisturbed

LEMMA WaitNotEmptyStep ==
  ASSUME PoolInv, NEW w \in Worker, WaitNotEmpty(w)
  PROVE  PoolInv'
<1>. USE DEF PoolInv, PoolTypeOK, WaitNotEmpty
<1>1. PoolTypeOK'
  OBVIOUS
<1>2. SleepersOK'
  BY DEF SleepersOK, Taking
<1>3. QueueBounded' /\ StartedInOrder'
  BY DEF QueueBounded, StartedInOrder
<1>4. NoTaskLeftLying'
  BY Countable DEF NoTaskLeftLying, AwakeThreads
<1>5. AwakeCallers' = AwakeCallers
  BY DEF AwakeCallers, Handing
<1>. QED
  BY <1>1, <1>2, <1>3, <1>4, <1>5, CallersUndisturbed

LEMMA PopStep ==
  ASSUME PoolInv, NEW w \in Worker, Pop(w)
  PROVE  PoolInv'
<1>. USE DEF PoolInv, PoolTypeOK, Pop
<1>1. w \in AwakeThreads /\ queue # <<>>
  BY DEF AwakeThreads
<1>2. /\ Head(queue) \in Task
      /\ queue' \in Seq(Task) /\ Len(queue') = Len(queue) - 1 /\ Len(queue) \in Nat
      /\ started' \in Seq(Task) /\ accepted' = started' \o queue'
  BY <1>1, PopKeepsOrder DEF StartedInOrder
<1>3. \/ notFull' = notFull /\ MaxQueueSize = 0
      \/ notFull' = {} /\ notFull = {}
      \/ \E x \in notFull : notFull' = notFull \ {x}
  <2>1. CASE MaxQueueSize > 0
    BY <2>1, NotifyWakes
  <2>2. CASE ~(MaxQueueSize > 0)
    BY <2>2, PoolAssumption
  <2>. QED
    BY <2>1, <2>2
<1>4. PoolTypeOK'
  <2>1. notFull' \in SUBSET Caller
    BY <1>3
  <2>2. task' \in [Worker -> Task \cup {None}]
    BY <1>2
  <2>. QED
    BY <1>2, <2>1, <2>2
<1>5. SleepersOK'
  BY <1>3 DEF SleepersOK, Taking
<1>6. QueueBounded' /\ StartedInOrder'
  BY <1>2, PoolAssumption DEF QueueBounded, StartedInOrder
<1>7. NoTaskLeftLying'
  <2>1. AwakeThreads' = AwakeThreads \ {w}
    BY DEF AwakeThreads, Taking
  <2>2. Cardinality(AwakeThreads') = Cardinality(AwakeThreads) - 1
    BY <1>1, <2>1, Countable, FS_RemoveElement
  <2>. QED
    BY <1>2, <2>2, Countable DEF NoTaskLeftLying, AwakeThreads
<1>8. NoCallerLeftBlocked'
  <2>1. CASE notFull = {}
    BY <1>3, <2>1 DEF NoCallerLeftBlocked
  <2>2. CASE notFull # {}
    <3>1. PICK x \in notFull : notFull' = notFull \ {x}
      BY <1>3, <2>2, PoolAssumption DEF SleepersOK
    <3>2. AwakeCallers' = AwakeCallers \cup {x} /\ x \notin AwakeCallers
      BY <3>1 DEF AwakeCallers, Handing, SleepersOK
    <3>3. Cardinality(AwakeCallers') = Cardinality(AwakeCallers) + 1
      BY <3>2, Countable, FS_AddElement
    <3>. QED
      BY <1>2, <2>2, <3>3, Countable, PoolAssumption DEF NoCallerLeftBlocked, AwakeCallers
  <2>. QED
    BY <2>1, <2>2
<1>. QED
  BY <1>4, <1>5, <1>6, <1>7, <1>8

LEMMA TakeNothingStep ==
  ASSUME PoolInv, NEW w \in Worker, TakeNothing(w)
  PROVE  PoolInv'
<1>. USE DEF PoolInv, PoolTypeOK, TakeNothing
<1>1. PoolTypeOK'
  OBVIOUS
<1>2. SleepersOK'
  BY DEF SleepersOK, Taking
<1>3. QueueBounded' /\ StartedInOrder'
  BY DEF QueueBounded, StartedInOrder
<1>4. NoTaskLeftLying'
  BY Countable DEF NoTaskLeftLying, AwakeThreads
<1>5. AwakeCallers' = AwakeCallers
  BY DEF AwakeCallers, Handing
<1>. QED
  BY <1>1, <1>2, <1>3, <1>4, <1>5, CallersUndisturbed

LEMMA TaskDoneStep ==
  ASSUME PoolInv, NEW w \in Worker, TaskDone(w)
  PROVE  PoolInv'
<1>. USE DEF PoolInv, PoolTypeOK, TaskDone
<1>1. PoolTypeOK'
  OBVIOUS
<1>2. SleepersOK'
  BY DEF SleepersOK
<1>3. QueueBounded' /\ StartedInOrder'
  BY DEF QueueBounded, StartedInOrder
<1>4. AwakeThreads \subseteq AwakeThreads' /\ AwakeCallers' = AwakeCallers
  BY DEF AwakeThreads, AwakeCallers, Taking, Handing
<1>. QED
  BY <1>1, <1>2, <1>3, <1>4, ThreadsUndisturbed, CallersUndisturbed

LEMMA StopStep ==
  ASSUME PoolInv, Stop
  PROVE  PoolInv'
<1>. USE DEF PoolInv, PoolTypeOK, Stop
<1>1. PoolTypeOK' /\ SleepersOK'
  BY DEF SleepersOK
<1>2. QueueBounded' /\ StartedInOrder' /\ NoTaskLeftLying'
  BY DEF QueueBounded, StartedInOrder, NoTaskLeftLying
<1>3. AwakeCallers' = AwakeCallers
  BY DEF AwakeCallers, Handing
<1>. QED
  BY <1>1, <1>2, <1>3, CallersUndisturbed

LEMMA JoinStep ==
  ASSUME PoolInv, Join
  PROVE  PoolInv'
<1>. USE DEF PoolInv, PoolTypeOK, Join
<1>1. PoolTypeOK' /\ SleepersOK'
  BY DEF SleepersOK
<1>2. QueueBounded' /\ StartedInOrder'
  BY DEF QueueBounded, StartedInOrder
<1>3. AwakeThreads' = AwakeThreads /\ AwakeCallers' = AwakeCallers
  BY DEF AwakeThreads, AwakeCallers, Taking, Handing
<1>. QED
  BY <1>1, <1>2, <1>3, ThreadsUndisturbed, CallersUndisturbed

LEMMA SpuriousStep ==
  ASSUME PoolInv, SpuriousWakeup
  PROVE  PoolInv'
<1>. USE DEF PoolInv, PoolTypeOK, SpuriousWakeup
<1>1. notFull' \subseteq notFull /\ notEmpty' \subseteq notEmpty
  BY NotifyWakes
<1>2. PoolTypeOK'
  BY <1>1
<1>3. SleepersOK'
  BY <1>1 DEF SleepersOK
<1>4. QueueBounded' /\ StartedInOrder'
  BY DEF QueueBounded, StartedInOrder
<1>5. AwakeThreads \subseteq AwakeThreads' /\ AwakeCallers \subseteq AwakeCallers'
  BY <1>1 DEF AwakeThreads, AwakeCallers, Taking, Handing
<1>. QED
  BY <1>1, <1>2, <1>3, <1>4, <1>5, ThreadsUndisturbed, CallersUndisturbed

(* Every step of the pool keeps the invariant.                             *)
LEMMA PoolStep == PoolInv /\ [PoolNext]_poolVars => PoolInv'
<1>. SUFFICES ASSUME PoolInv, [PoolNext]_poolVars
              PROVE  PoolInv'
  OBVIOUS
<1>1. CASE UNCHANGED poolVars
  <2>1. AwakeThreads' = AwakeThreads /\ AwakeCallers' = AwakeCallers
    BY <1>1 DEF poolVars, AwakeThreads, AwakeCallers, Taking, Handing
  <2>. QED
    BY <1>1, <2>1 DEF poolVars, PoolInv, PoolTypeOK, SleepersOK, QueueBounded, StartedInOrder,
         NoTaskLeftLying, NoCallerLeftBlocked, AwakeThreads, AwakeCallers
<1>2. ASSUME NEW c \in Caller, CallerStep(c)
      PROVE  PoolInv'
  BY <1>2, WaitNotFullStep, PushStep DEF CallerStep
<1>3. ASSUME NEW c \in Caller, NEW t \in Task, Call(c, t)
      PROVE  PoolInv'
  BY <1>3, CallStep
<1>4. ASSUME NEW w \in Worker, WorkerStep(w)
      PROVE  PoolInv'
  BY <1>4, TestRunningStep, WaitNotEmptyStep, PopStep, TakeNothingStep DEF WorkerStep
<1>5. ASSUME NEW w \in Worker, TaskDone(w)
      PROVE  PoolInv'
  BY <1>5, TaskDoneStep
<1>. QED
  BY <1>1, <1>2, <1>3, <1>4, <1>5, StopStep, JoinStep, SpuriousStep DEF PoolNext

(* ThreadPool::run and take: with any number of callers, threads and tasks *)
(* the queue keeps its bound, tasks start in the order in which run took   *)
(* them, no task lies in the queue and no caller stays blocked for want of *)
(* a notification.                                                         *)
THEOREM PoolCorrect == PoolSpec => []PoolInv
<1>. QED
  BY InitPool, PoolStep, PTL DEF PoolSpec

(* The asserts of run hold: the queue is never longer than its bound.      *)
THEOREM PoolBounded == PoolSpec => []QueueBounded
<1>1. PoolInv => QueueBounded
  BY DEF PoolInv
<1>. QED
  BY <1>1, PoolCorrect, PTL

(* FIFO, nothing run twice and nothing left out.                           *)
THEOREM PoolInOrder == PoolSpec => []StartedInOrder
<1>1. PoolInv => StartedInOrder
  BY DEF PoolInv
<1>. QED
  BY <1>1, PoolCorrect, PTL

(* No wake-up is lost, neither of a thread nor of a caller.                *)
THEOREM PoolLosesNoWakeup == PoolSpec => [](NoTaskLeftLying /\ NoCallerLeftBlocked)
<1>1. PoolInv => NoTaskLeftLying /\ NoCallerLeftBlocked
  BY DEF PoolInv
<1>. QED
  BY <1>1, PoolCorrect, PTL
=============================================================================
