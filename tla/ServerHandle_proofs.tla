-------------------------- MODULE ServerHandle_proofs --------------------------
(***************************************************************************)
(* What the front end keeps for any number of connections, IO loops and    *)
(* packets; and that no functor is lost between queueInLoop and poll, for  *)
(* any number of loops and whatever is queued when.                        *)
(***************************************************************************)
EXTENDS ServerHandle, FiniteSetTheorems, SequenceTheorems, TLAPS

(* The event loops.                                                        *)
(* An event is only left to be handled in the part of the iteration that   *)
(* handles events: the descriptor is never read anywhere else.             *)
EventsInPhase == \A l \in Loop : phase[l] # "events" => active[l] = {}

LoopInv == LoopTypeOK /\ EventsInPhase /\ NoLostFunctor

LEMMA InitLoop == LoopInit => LoopInv
BY DEF LoopInit, LoopInv, LoopTypeOK, EventsInPhase, NoLostFunctor

LEMMA QueueStep ==
  ASSUME LoopInv, NEW l \in Loop, NEW own \in BOOLEAN, NEW fs \in Seq(Functor),
         queueInLoop(l, own, fs)
  PROVE  /\ pending' \in [Loop -> Seq(Functor)]
         /\ woken' \in [Loop -> BOOLEAN]
         /\ \A k \in Loop \ {l} : pending'[k] = pending[k] /\ woken'[k] = woken[k]
         /\ woken[l] => woken'[l]
         /\ ~own \/ phase[l] = "functors" => woken'[l]
<1>. USE DEF LoopInv, LoopTypeOK
<1>1. pending[l] \o fs \in Seq(Functor)
  OBVIOUS
<1>2. pending' = [pending EXCEPT ![l] = pending[l] \o fs]
  BY DEF queueInLoop
<1>3. woken' = [woken EXCEPT ![l] = woken[l] \/ ~own \/ phase[l] = "functors"]
  BY DEF queueInLoop
<1>4. pending' \in [Loop -> Seq(Functor)] /\ \A k \in Loop \ {l} : pending'[k] = pending[k]
  BY <1>1, <1>2
<1>5. /\ woken' \in [Loop -> BOOLEAN]
      /\ \A k \in Loop \ {l} : woken'[k] = woken[k]
      /\ woken'[l] = (woken[l] \/ ~own \/ phase[l] = "functors")
  BY <1>3
<1>. QED
  BY <1>4, <1>5

LEMMA PollStep ==
  ASSUME LoopInv, NEW l \in Loop, NEW ready \in SUBSET Channel, poll(l, ready)
  PROVE  LoopInv'
<1>. USE DEF LoopInv, poll
<1>1. LoopTypeOK'
  BY DEF LoopTypeOK
<1>2. EventsInPhase' /\ NoLostFunctor'
  BY DEF LoopTypeOK, EventsInPhase, NoLostFunctor
<1>. QED
  BY <1>1, <1>2

LEMMA HandleReadStep ==
  ASSUME LoopInv, NEW l \in Loop, handleRead(l)
  PROVE  LoopInv'
<1>. USE DEF LoopInv, handleRead, Handled
<1>1. phase[l] = "events"
  BY DEF EventsInPhase
<1>2. LoopTypeOK'
  BY DEF LoopTypeOK
<1>3. EventsInPhase' /\ NoLostFunctor'
  BY <1>1 DEF LoopTypeOK, EventsInPhase, NoLostFunctor
<1>. QED
  BY <1>2, <1>3

LEMMA EventStep ==
  ASSUME LoopInv, NEW l \in Loop, NEW ch \in Channel, Handled(l, ch),
         UNCHANGED <<pending, woken>> \/ \E f \in Functor : queueInLoop(l, TRUE, <<f>>),
         UNCHANGED <<phase, batch, ran>>
  PROVE  LoopInv'
<1>1. phase[l] = "events"
  BY DEF LoopInv, EventsInPhase, Handled
<1>2. /\ active' \in [Loop -> SUBSET (Channel \cup {WakeupChannel})]
      /\ EventsInPhase'
  BY <1>1 DEF LoopInv, LoopTypeOK, EventsInPhase, Handled
<1>3. /\ pending' \in [Loop -> Seq(Functor)] /\ woken' \in [Loop -> BOOLEAN]
      /\ \A k \in Loop \ {l} : pending'[k] = pending[k] /\ woken'[k] = woken[k]
  <2>1. CASE UNCHANGED <<pending, woken>>
    BY <2>1 DEF LoopInv, LoopTypeOK
  <2>2. ASSUME NEW f \in Functor, queueInLoop(l, TRUE, <<f>>)
        PROVE  <1>3!:
    <3>1. <<f>> \in Seq(Functor)
      OBVIOUS
    <3>. QED
      BY <2>2, <3>1, QueueStep
  <2>. QED
    BY <2>1, <2>2
<1>4. NoLostFunctor'
  BY <1>1, <1>3 DEF LoopInv, NoLostFunctor
<1>. QED
  BY <1>2, <1>3, <1>4 DEF LoopInv, LoopTypeOK

LEMMA SwapStep ==
  ASSUME LoopInv, NEW l \in Loop, doPendingFunctors(l)
  PROVE  LoopInv'
<1>. USE DEF LoopInv, doPendingFunctors
<1>1. LoopTypeOK'
  BY DEF LoopTypeOK
<1>2. EventsInPhase' /\ NoLostFunctor'
  BY DEF LoopTypeOK, EventsInPhase, NoLostFunctor
<1>. QED
  BY <1>1, <1>2

LEMMA RunStep ==
  ASSUME LoopInv, NEW l \in Loop, Running(l, Current(l)),
         UNCHANGED <<pending, woken>> \/ \E f \in Functor : queueInLoop(l, TRUE, <<f>>),
         UNCHANGED <<phase, active, batch>>
  PROVE  LoopInv'
<1>1. phase[l] = "functors" /\ ran' \in [Loop -> Nat] /\ EventsInPhase'
  BY DEF LoopInv, LoopTypeOK, EventsInPhase, Running
<1>2. CASE UNCHANGED <<pending, woken>>
  BY <1>1, <1>2 DEF LoopInv, LoopTypeOK, NoLostFunctor
<1>3. ASSUME NEW f \in Functor, queueInLoop(l, TRUE, <<f>>)
      PROVE  LoopInv'
  <2>1. /\ pending' \in [Loop -> Seq(Functor)] /\ woken' \in [Loop -> BOOLEAN]
        /\ \A k \in Loop \ {l} : pending'[k] = pending[k] /\ woken'[k] = woken[k]
        /\ woken'[l]
    <3>1. <<f>> \in Seq(Functor)
      OBVIOUS
    <3>. QED
      BY <1>1, <1>3, <3>1, QueueStep
  <2>. QED
    BY <1>1, <2>1 DEF LoopInv, LoopTypeOK, NoLostFunctor
<1>. QED
  BY <1>2, <1>3

LEMMA DoneStep ==
  ASSUME LoopInv, NEW l \in Loop, FunctorsDone(l)
  PROVE  LoopInv'
<1>. USE DEF LoopInv, FunctorsDone
<1>1. LoopTypeOK'
  BY DEF LoopTypeOK
<1>2. EventsInPhase' /\ NoLostFunctor'
  BY DEF LoopTypeOK, EventsInPhase, NoLostFunctor
<1>. QED
  BY <1>1, <1>2

LEMMA OtherStep ==
  ASSUME LoopInv, NEW l \in Loop, OtherThread(l)
  PROVE  LoopInv'
<1>1. UNCHANGED <<phase, active, batch, ran>>
  BY DEF OtherThread
<1>2. PICK fs \in Seq(Functor) : queueInLoop(l, FALSE, fs)
  BY DEF OtherThread
<1>3. /\ pending' \in [Loop -> Seq(Functor)] /\ woken' \in [Loop -> BOOLEAN]
      /\ \A k \in Loop \ {l} : pending'[k] = pending[k] /\ woken'[k] = woken[k]
      /\ woken'[l]
  BY <1>2, QueueStep
<1>. QED
  BY <1>1, <1>3 DEF LoopInv, LoopTypeOK, EventsInPhase, NoLostFunctor

LEMMA LoopKeeps == LoopInv /\ [LoopNext]_loopVars => LoopInv'
<1>. SUFFICES ASSUME LoopInv, [LoopNext]_loopVars
              PROVE  LoopInv'
  OBVIOUS
<1>1. ASSUME NEW l \in Loop, LoopStep(l)
      PROVE  LoopInv'
  BY <1>1, PollStep, HandleReadStep, EventStep, SwapStep, RunStep, DoneStep DEF LoopStep
<1>2. ASSUME NEW l \in Loop, OtherThread(l)
      PROVE  LoopInv'
  BY <1>2, OtherStep
<1>3. CASE UNCHANGED loopVars
  BY <1>3 DEF loopVars, LoopInv, LoopTypeOK, EventsInPhase, NoLostFunctor
<1>. QED
  BY <1>1, <1>2, <1>3 DEF LoopNext

(* A loop never waits in poll while it has a functor to run.               *)
THEOREM LoopLosesNoFunctor == LoopSpec => []NoLostFunctor
<1>1. LoopInv => NoLostFunctor
  BY DEF LoopInv
<1>. QED
  BY InitLoop, LoopKeeps, <1>1, PTL DEF LoopSpec

-----------------------------------------------------------------------------
(* The front end over them.                                                *)
Up == {c \in Conn : channel[c] = "on"}

(* The functors that a loop has still to run, in their order.              *)
Ahead(l) == SubSeq(batch[l], ran[l] + 1, Len(batch[l])) \o pending[l]
Todo(l) == Elements(Ahead(l))

(* Functors are swapped out only to be run at once.                        *)
BatchOK ==
  \A l \in Loop : /\ ran[l] <= Len(batch[l])
                  /\ phase[l] # "functors" => batch[l] = <<>> /\ ran[l] = 0

(* How the parts of a connection go together in each part of its life.  The*)
(* timer may make the state of a closed connection kDisconnecting.         *)
Stage(c) ==
  \/ /\ state[c] = "none" /\ loop[c] = None /\ channel[c] = "new" /\ c \notin connections
     /\ amid[c] = "none"
  \/ /\ loop[c] \in Loop \ {Base}
     /\ \/ /\ state[c] = "kConnecting" /\ channel[c] = "new" /\ c \in connections
           /\ amid[c] = "none"
        \/ /\ channel[c] = "on" /\ c \in connections
           /\ state[c] \in {"kConnected", "kDisconnecting", "kDisconnected"}
           /\ amid[c] = "pushed" \/ c \in context
           /\ state[c] = "kDisconnected" => amid[c] = "closed"
           /\ amid[c] = "closed" => state[c] # "kConnected"
        \/ /\ channel[c] \in {"off", "removed"}
           /\ channel[c] = "removed" => c \notin connections
           /\ state[c] \in {"kDisconnecting", "kDisconnected"}
           /\ amid[c] \in {"none", "closed"}

Stages == \A c \in Conn : Stage(c)

(* A functor bound to a plain `this` that must not outlive its connection; *)
(* o are the connections whose send was queued too late.                   *)
Tied(f, o) == f.fn = "shutdownInLoop" \/ (f.fn = "sendInLoop" /\ f.conn \notin o)

(* The life of the connection that a waiting functor will meet.            *)
Placed(l, f) ==
  LET c == f.conn IN
  /\ f.fn = "removeConnectionInLoop" =>
       l = Base /\ c \in connections /\ channel[c] = "off"
  /\ f.fn # "removeConnectionInLoop" => l = loop[c] /\ loop[c] \in Loop \ {Base}
  /\ f.fn = "connectEstablished" => state[c] = "kConnecting"
  /\ f.fn = "connectDestroyed" => c \notin connections
  /\ Tied(f, overtaken) => channel[c] # "removed"

(* The two functors that must run once wait once, and nothing that must not*)
(* outlive the connection waits behind the functor that destroys it.       *)
Once(s) ==
  \A i, j \in 1..Len(s) :
    s[i] = s[j] /\ s[i].fn \in {"connectEstablished", "removeConnectionInLoop"} => i = j
Ordered(s, o) ==
  \A i, j \in 1..Len(s) :
    s[i].fn = "connectDestroyed" /\ Tied(s[j], o) /\ s[i].conn = s[j].conn => j < i

FunctorsOK ==
  \A l \in Loop : /\ Once(Ahead(l)) /\ Ordered(Ahead(l), overtaken)
                  /\ \A f \in Todo(l) : Placed(l, f)

(* A connection that the map has let go is held by the functor that will   *)
(* destroy it.                                                             *)
Held ==
  \A c \in Conn, l \in Loop :
    channel[c] = "off" /\ c \notin connections /\ l = loop[c] =>
      Do("connectDestroyed", c) \in Todo(l)

Injective(s) == \A i, j \in 1..Len(s) : s[i] = s[j] => i = j

ListOK == Elements(list) = Up /\ Injective(list)

(* The events of a poll are those of connections of the loop that stay up  *)
(* until they are handled.                                                 *)
EventsOK ==
  \A l \in Loop, c \in Conn :
    /\ Socket(c) \in active[l] => l = loop[c] /\ c \in Up /\ amid[c] # "closed"
    /\ CloseTimer(c) \in active[l] => l = loop[c]

(* The base loop is in the middle of an event while it walks: a connection *)
(* that it is shutting down stays in the map.                              *)
WalkOK ==
  doing # "look" =>
    it \in Conn /\ it \in connections /\ state[it] \notin {"none", "kConnecting"}

SendOK == sending => working \in Conn /\ loop[working] \in Loop \ {Base}

LifeInv == Stages /\ FunctorsOK /\ Held /\ ListOK /\ EventsOK /\ WalkOK /\ SendOK

(* What may fail.                                                          *)
MayFail == {"position", "iterator", "node", "erase", "this"}

ServerInv ==
  /\ TypeOK /\ LoopInv /\ BatchOK
  /\ \A c \in Conn : inbox[c] <= sent[c]
  /\ LifeInv
  /\ failed \subseteq MayFail

(* With one IO loop nobody else moves or adds a node between the splice and*)
(* the assertion.                                                          *)
SplicedLast ==
  /\ "position" \notin failed
  /\ \A c \in Conn : amid[c] = "spliced" =>
       /\ list # <<>> /\ list[Len(list)] = c
       /\ \A d \in Conn : amid[d] # "none" => d = c

-----------------------------------------------------------------------------
(* Sequences.                                                              *)
LEMMA TailElements ==
  ASSUME NEW T, NEW s \in Seq(T), s # <<>>
  PROVE  /\ Tail(s) \in Seq(T)
         /\ \A i \in 1..Len(Tail(s)) : i + 1 \in 1..Len(s) /\ Tail(s)[i] = s[i + 1]
         /\ Elements(Tail(s)) \subseteq Elements(s)
         /\ s[1] \in Elements(s)
         /\ \A f \in Elements(s) : f = s[1] \/ f \in Elements(Tail(s))
<1>1. /\ Tail(s) \in Seq(T) /\ Len(s) \in Nat \ {0} /\ Len(Tail(s)) = Len(s) - 1
      /\ \A i \in 1..Len(Tail(s)) : Tail(s)[i] = s[i + 1]
  OBVIOUS
<1>2. \A i \in 1..Len(Tail(s)) : i + 1 \in 1..Len(s)
  BY <1>1
<1>3. \A f \in Elements(s) : f = s[1] \/ f \in Elements(Tail(s))
  <2>1. SUFFICES ASSUME NEW i \in 1..Len(s), i # 1
                 PROVE  s[i] \in Elements(Tail(s))
    BY DEF Elements
  <2>2. i - 1 \in 1..Len(Tail(s)) /\ (i - 1) + 1 = i
    BY <2>1, <1>1
  <2>. QED
    BY <2>2, <1>1 DEF Elements
<1>. QED
  BY <1>1, <1>2, <1>3 DEF Elements

LEMMA JoinElements ==
  ASSUME NEW s \in Seq(Functor), NEW t \in Seq(Functor)
  PROVE  /\ s \o t \in Seq(Functor)
         /\ Elements(s \o t) = Elements(s) \cup Elements(t)
<1>1. /\ s \o t \in Seq(Functor) /\ Len(s) \in Nat /\ Len(t) \in Nat
      /\ Len(s \o t) = Len(s) + Len(t)
      /\ \A i \in 1..Len(s \o t) : (s \o t)[i] = IF i <= Len(s) THEN s[i] ELSE t[i - Len(s)]
  OBVIOUS
<1>2. ASSUME NEW i \in 1..Len(s \o t)
      PROVE  (s \o t)[i] \in Elements(s) \cup Elements(t)
  <2>1. CASE i <= Len(s)
    BY <1>1, <2>1 DEF Elements
  <2>2. CASE i > Len(s)
    <3>1. i - Len(s) \in 1..Len(t)
      BY <1>1, <2>2
    <3>. QED
      BY <1>1, <2>2, <3>1 DEF Elements
  <2>. QED
    BY <1>1, <2>1, <2>2
<1>3. ASSUME NEW i \in 1..Len(s)
      PROVE  s[i] \in Elements(s \o t)
  <2>1. i \in 1..Len(s \o t) /\ (s \o t)[i] = s[i]
    BY <1>1
  <2>. QED
    BY <2>1 DEF Elements
<1>4. ASSUME NEW i \in 1..Len(t)
      PROVE  t[i] \in Elements(s \o t)
  <2>1. Len(s) + i \in 1..Len(s \o t) /\ (s \o t)[Len(s) + i] = t[i]
    BY <1>1
  <2>. QED
    BY <2>1 DEF Elements
<1>. QED
  BY <1>1, <1>2, <1>3, <1>4 DEF Elements

(* Running the first functor keeps the order, and it is not met again if it*)
(* must run once.                                                          *)
LEMMA TailInOrder ==
  ASSUME NEW s \in Seq(Functor), s # <<>>, NEW o, Once(s), Ordered(s, o)
  PROVE  /\ Once(Tail(s)) /\ Ordered(Tail(s), o)
         /\ s[1].fn \in {"connectEstablished", "removeConnectionInLoop"} =>
              s[1] \notin Elements(Tail(s))
         /\ s[1].fn = "connectDestroyed" =>
              \A f \in Elements(Tail(s)) : f.conn = s[1].conn => ~Tied(f, o)
<1>1. /\ Len(s) \in Nat \ {0} /\ Len(Tail(s)) = Len(s) - 1 /\ 1 \in 1..Len(s)
      /\ \A i \in 1..Len(Tail(s)) : Tail(s)[i] = s[i + 1] /\ i + 1 \in 1..Len(s) /\ i + 1 # 1
                                    /\ ~(i + 1 < 1)
  BY TailElements
<1>2. Once(Tail(s))
  <2>1. SUFFICES ASSUME NEW i \in 1..Len(Tail(s)), NEW j \in 1..Len(Tail(s)),
                        Tail(s)[i] = Tail(s)[j],
                        Tail(s)[i].fn \in {"connectEstablished", "removeConnectionInLoop"}
                 PROVE  i = j
    BY DEF Once
  <2>2. i + 1 = j + 1
    BY <1>1, <2>1 DEF Once
  <2>. QED
    BY <2>2
<1>3. Ordered(Tail(s), o)
  <2>1. SUFFICES ASSUME NEW i \in 1..Len(Tail(s)), NEW j \in 1..Len(Tail(s)),
                        Tail(s)[i].fn = "connectDestroyed", Tied(Tail(s)[j], o),
                        Tail(s)[i].conn = Tail(s)[j].conn
                 PROVE  j < i
    BY DEF Ordered
  <2>2. j + 1 < i + 1
    BY <1>1, <2>1 DEF Ordered
  <2>. QED
    BY <2>2
<1>4. s[1].fn \in {"connectEstablished", "removeConnectionInLoop"} => s[1] \notin Elements(Tail(s))
  BY <1>1 DEF Once, Elements
<1>5. s[1].fn = "connectDestroyed" =>
        \A f \in Elements(Tail(s)) : f.conn = s[1].conn => ~Tied(f, o)
  BY <1>1 DEF Ordered, Elements
<1>. QED
  BY <1>2, <1>3, <1>4, <1>5

LEMMA OrderedStill ==
  ASSUME NEW s \in Seq(Functor), NEW o, NEW p, o \subseteq p, Ordered(s, o)
  PROVE  Ordered(s, p)
BY DEF Ordered, Tied

(* A functor may be queued if it does not wait already, when it must run   *)
(* once, or if its connection is not about to be destroyed, when it must   *)
(* not outlive that.                                                       *)
MayQueue(s, f, o) ==
  /\ f.fn \in {"connectEstablished", "removeConnectionInLoop"} => f \notin Elements(s)
  /\ Tied(f, o) => Do("connectDestroyed", f.conn) \notin Elements(s)

LEMMA AppendInOrder ==
  ASSUME NEW s \in Seq(Functor), NEW o, Once(s), Ordered(s, o),
         NEW f \in Functor, MayQueue(s, f, o)
  PROVE  Once(Append(s, f)) /\ Ordered(Append(s, f), o)
<1>. DEFINE t == Append(s, f)
<1>1. /\ Len(s) \in Nat /\ Len(t) = Len(s) + 1 /\ t[Len(s) + 1] = f
      /\ \A i \in 1..Len(t) : i = Len(s) + 1 \/ (i \in 1..Len(s) /\ t[i] = s[i] /\ s[i] \in Elements(s))
  BY DEF Elements
<1>. HIDE DEF t
<1>2. Once(t)
  <2>1. SUFFICES ASSUME NEW i \in 1..Len(t), NEW j \in 1..Len(t), t[i] = t[j],
                        t[i].fn \in {"connectEstablished", "removeConnectionInLoop"}
                 PROVE  i = j
    BY DEF Once
  <2>2. CASE i \in 1..Len(s) /\ j \in 1..Len(s)
    BY <1>1, <2>1, <2>2 DEF Once
  <2>. QED
    BY <1>1, <2>1, <2>2 DEF MayQueue
<1>3. Ordered(t, o)
  <2>1. SUFFICES ASSUME NEW i \in 1..Len(t), NEW j \in 1..Len(t),
                        t[i].fn = "connectDestroyed", Tied(t[j], o), t[i].conn = t[j].conn
                 PROVE  j < i
    BY DEF Ordered
  <2>2. CASE i \in 1..Len(s) /\ j \in 1..Len(s)
    BY <1>1, <2>1, <2>2 DEF Ordered
  <2>3. CASE i = Len(s) + 1 /\ j \in 1..Len(s)
    BY <1>1, <2>3
  <2>4. CASE j = Len(s) + 1 /\ i \in 1..Len(s)
    <3>1. t[j] = f /\ t[i] = s[i] /\ s[i] \in Functor /\ s[i] \in Elements(s)
      BY <1>1, <2>4 DEF Elements
    <3>2. s[i] = Do("connectDestroyed", f.conn)
      BY <2>1, <3>1, ServerAssumption DEF Do
    <3>. QED
      BY <2>1, <3>1, <3>2 DEF MayQueue
  <2>5. CASE i = Len(s) + 1 /\ j = Len(s) + 1
    BY <1>1, <2>1, <2>5 DEF Tied
  <2>. QED
    BY <1>1, <2>2, <2>3, <2>4, <2>5
<1>. QED
  BY <1>2, <1>3 DEF t

-----------------------------------------------------------------------------
(* The list of connections.                                                *)
LEMMA WithoutElements ==
  ASSUME NEW s \in Seq(Conn), Injective(s), NEW c \in Conn
  PROVE  /\ Without(s, c) \in Seq(Conn) /\ Injective(Without(s, c))
         /\ Elements(Without(s, c)) = Elements(s) \ {c}
<1>1. CASE c \notin Elements(s)
  BY <1>1 DEF Without
<1>2. CASE c \in Elements(s)
  <2>. DEFINE p == Place(s, c)
              before == SubSeq(s, 1, p - 1)
              after == SubSeq(s, p + 1, Len(s))
              t == before \o after
  <2>1. p \in 1..Len(s) /\ s[p] = c /\ Len(s) \in Nat
    BY <1>2 DEF Elements, Place
  <2>. HIDE DEF p
  <2>2. /\ before \in Seq(Conn) /\ Len(before) = p - 1
        /\ \A i \in 1..(p - 1) : before[i] = s[i]
    BY <2>1
  <2>3. /\ after \in Seq(Conn) /\ Len(after) = Len(s) - p
        /\ \A i \in 1..(Len(s) - p) : after[i] = s[p + i]
    BY <2>1
  <2>. HIDE DEF before, after
  <2>4. /\ t \in Seq(Conn) /\ Len(t) = Len(s) - 1
        /\ \A i \in 1..Len(t) : t[i] = IF i < p THEN before[i] ELSE after[i - (p - 1)]
    <3>0. before \in Seq(Conn) /\ after \in Seq(Conn)
      BY <2>2, <2>3
    <3>1. /\ t \in Seq(Conn) /\ Len(t) = Len(before) + Len(after)
          /\ \A i \in 1..Len(t) :
               t[i] = IF i <= Len(before) THEN before[i] ELSE after[i - Len(before)]
      BY <3>0
    <3>. HIDE DEF t
    <3>. QED
      BY <2>1, <2>2, <2>3, <3>1
  <2>. HIDE DEF t
  <2>5. ASSUME NEW i \in 1..Len(t)
        PROVE  t[i] = s[IF i < p THEN i ELSE i + 1]
    <3>1. CASE i < p
      BY <2>1, <2>2, <2>4, <3>1
    <3>2. CASE i >= p
      <4>1. t[i] = after[i - (p - 1)] /\ i - (p - 1) \in 1..(Len(s) - p)
        BY <2>1, <2>4, <3>2
      <4>2. p + (i - (p - 1)) = i + 1
        BY <2>1, <2>4
      <4>. QED
        BY <2>1, <2>3, <3>2, <4>1, <4>2
    <3>. QED
      BY <2>1, <2>4, <3>1, <3>2
  <2>6. ASSUME NEW i \in 1..Len(t)
        PROVE  (IF i < p THEN i ELSE i + 1) \in 1..Len(s) \ {p}
    BY <2>1, <2>4
  <2>7. Injective(t)
    <3>1. SUFFICES ASSUME NEW i \in 1..Len(t), NEW j \in 1..Len(t), t[i] = t[j]
                   PROVE  i = j
      BY DEF Injective
    <3>2. (IF i < p THEN i ELSE i + 1) = (IF j < p THEN j ELSE j + 1)
      BY <2>5, <2>6, <3>1 DEF Injective
    <3>. QED
      BY <2>1, <2>4, <3>2
  <2>8. ASSUME NEW i \in 1..Len(t)
        PROVE  t[i] \in Elements(s) \ {c}
    BY <2>1, <2>5, <2>6 DEF Elements, Injective
  <2>9. ASSUME NEW k \in 1..Len(s), s[k] # c
        PROVE  s[k] \in Elements(t)
    <3>1. k # p
      BY <2>1, <2>9
    <3>2. PICK i \in 1..Len(t) : k = (IF i < p THEN i ELSE i + 1)
      <4>1. CASE k < p
        <5>1. k \in 1..Len(t)
          BY <2>1, <2>4, <4>1
        <5>. QED
          BY <4>1, <5>1
      <4>2. CASE k > p
        <5>1. k - 1 \in 1..Len(t) /\ ~(k - 1 < p) /\ k = (k - 1) + 1
          BY <2>1, <2>4, <4>2
        <5>. QED
          BY <5>1
      <4>. QED
        BY <2>1, <3>1, <4>1, <4>2
    <3>. QED
      BY <2>5, <3>2 DEF Elements
  <2>10. Without(s, c) = t
    BY <1>2 DEF Without, p, before, after, t
  <2>11. Elements(t) = Elements(s) \ {c}
    <3>1. \A x \in Elements(t) : x \in Elements(s) \ {c}
      BY <2>8 DEF Elements
    <3>2. \A x \in Elements(s) \ {c} : x \in Elements(t)
      BY <2>9 DEF Elements
    <3>. QED
      BY <3>1, <3>2
  <2>. QED
    BY <2>4, <2>7, <2>10, <2>11
<1>. QED
  BY <1>1, <1>2

LEMMA AppendKeepsInjective ==
  ASSUME NEW s \in Seq(Conn), Injective(s), NEW c \in Conn \ Elements(s)
  PROVE  /\ Append(s, c) \in Seq(Conn) /\ Injective(Append(s, c))
         /\ Elements(Append(s, c)) = Elements(s) \cup {c}
         /\ Append(s, c) # <<>> /\ Append(s, c)[Len(Append(s, c))] = c
<1>. DEFINE t == Append(s, c)
<1>1. /\ t \in Seq(Conn) /\ Len(s) \in Nat /\ Len(t) = Len(s) + 1 /\ t[Len(s) + 1] = c
      /\ \A i \in 1..Len(s) : i \in 1..Len(t) /\ t[i] = s[i]
      /\ \A i \in 1..Len(t) : i = Len(s) + 1 \/ i \in 1..Len(s)
  OBVIOUS
<1>. HIDE DEF t
<1>2. Injective(t)
  BY <1>1 DEF Injective, Elements
<1>3. Elements(t) = Elements(s) \cup {c}
  <2>1. \A x \in Elements(t) : x \in Elements(s) \cup {c}
    BY <1>1 DEF Elements
  <2>2. \A x \in Elements(s) : x \in Elements(t)
    BY <1>1 DEF Elements
  <2>3. c \in Elements(t)
    BY <1>1 DEF Elements
  <2>. QED
    BY <2>1, <2>2, <2>3
<1>4. t # <<>> /\ t[Len(t)] = c
  BY <1>1
<1>. QED
  BY <1>1, <1>2, <1>3, <1>4 DEF t

LEMMA InjectiveCount ==
  ASSUME NEW s \in Seq(Conn), Injective(s)
  PROVE  Cardinality(Elements(s)) = Len(s)
<1>1. s \in [1..Len(s) -> Elements(s)] /\ Len(s) \in Nat
  BY DEF Elements
<1>2. s \in Bijection(1..Len(s), Elements(s))
  <2>1. s \in Injection(1..Len(s), Elements(s))
    BY <1>1 DEF Injective, Injection, IsInjective
  <2>2. s \in Surjection(1..Len(s), Elements(s))
    BY <1>1 DEF Surjection, Elements
  <2>. QED
    BY <2>1, <2>2 DEF Bijection
<1>3. ExistsBijection(1..Len(s), Elements(s))
  BY <1>2 DEF ExistsBijection
<1>. QED
  BY <1>1, <1>3, FS_CountingElements

-----------------------------------------------------------------------------
(* What the steps of a loop do to the functors it has still to run.        *)
LEMMA SubSeqIs ==
  ASSUME NEW b \in Seq(Functor), NEW r \in 0..Len(b)
  PROVE  /\ SubSeq(b, r + 1, Len(b)) \in Seq(Functor)
         /\ Len(SubSeq(b, r + 1, Len(b))) = Len(b) - r
         /\ \A i \in 1..(Len(b) - r) : SubSeq(b, r + 1, Len(b))[i] = b[r + i]
<1>1. Len(b) \in Nat /\ r \in Nat
  OBVIOUS
<1>. QED
  BY <1>1

LEMMA SubSeqTail ==
  ASSUME NEW b \in Seq(Functor), NEW r \in Nat, r < Len(b)
  PROVE  /\ SubSeq(b, r + 1, Len(b)) # <<>>
         /\ SubSeq(b, r + 1, Len(b))[1] = b[r + 1]
         /\ SubSeq(b, (r + 1) + 1, Len(b)) = Tail(SubSeq(b, r + 1, Len(b)))
<1>. DEFINE s == SubSeq(b, r + 1, Len(b))
            t == SubSeq(b, (r + 1) + 1, Len(b))
<1>1. /\ Len(b) \in Nat /\ r + 1 \in 0..Len(b) /\ r \in 0..Len(b)
  OBVIOUS
<1>2. /\ s \in Seq(Functor) /\ Len(s) = Len(b) - r
      /\ \A i \in 1..(Len(b) - r) : s[i] = b[r + i]
  BY <1>1, SubSeqIs
<1>3. /\ t \in Seq(Functor) /\ Len(t) = Len(b) - (r + 1)
      /\ \A i \in 1..(Len(b) - (r + 1)) : t[i] = b[(r + 1) + i]
  BY <1>1, SubSeqIs
<1>. HIDE DEF s, t
<1>4. s # <<>> /\ s[1] = b[r + 1]
  BY <1>1, <1>2
<1>5. Tail(s) \in Seq(Functor) /\ Len(Tail(s)) = Len(s) - 1 /\ \A i \in 1..Len(Tail(s)) : Tail(s)[i] = s[i + 1]
  BY <1>2, <1>4
<1>6. Len(t) = Len(Tail(s)) /\ \A i \in 1..Len(t) : t[i] = Tail(s)[i]
  <2>1. Len(t) = Len(Tail(s))
    BY <1>1, <1>2, <1>3, <1>5
  <2>2. ASSUME NEW i \in 1..Len(t)
        PROVE  t[i] = Tail(s)[i]
    <3>1. i + 1 \in 1..(Len(b) - r) /\ (r + 1) + i = r + (i + 1) /\ i \in 1..(Len(b) - (r + 1))
      BY <1>1, <1>3
    <3>. QED
      BY <1>2, <1>3, <1>5, <2>1, <3>1
  <2>. QED
    BY <2>1, <2>2
<1>7. t = Tail(s)
  BY <1>3, <1>5, <1>6, SeqEqual
<1>. QED
  BY <1>4, <1>7 DEF s, t

LEMMA ConcatMoved ==
  ASSUME NEW s \in Seq(Functor), NEW t \in Seq(Functor), NEW u \in Seq(Functor)
  PROVE  (s \o t) \o u = s \o (t \o u)
BY ConcatAssociative

LEMMA AheadIs ==
  ASSUME LoopTypeOK, BatchOK, NEW l \in Loop
  PROVE  LET run == SubSeq(batch[l], ran[l] + 1, Len(batch[l])) IN
         /\ run \in Seq(Functor) /\ Len(run) = Len(batch[l]) - ran[l]
         /\ \A i \in 1..Len(run) : run[i] = batch[l][ran[l] + i]
         /\ Ahead(l) \in Seq(Functor) /\ Ahead(l) = run \o pending[l]
<1>1. batch[l] \in Seq(Functor) /\ pending[l] \in Seq(Functor) /\ ran[l] \in 0..Len(batch[l])
  BY DEF LoopTypeOK, BatchOK
<1>. DEFINE run == SubSeq(batch[l], ran[l] + 1, Len(batch[l]))
<1>2. /\ run \in Seq(Functor) /\ Len(run) = Len(batch[l]) - ran[l]
      /\ \A i \in 1..Len(run) : run[i] = batch[l][ran[l] + i]
  BY <1>1, SubSeqIs
<1>3. Ahead(l) = run \o pending[l]
  BY DEF Ahead
<1>. HIDE DEF run
<1>4. Ahead(l) \in Seq(Functor)
  BY <1>1, <1>2, <1>3
<1>. QED
  BY <1>2, <1>3, <1>4 DEF run

LEMMA AheadQueued ==
  ASSUME LoopTypeOK, BatchOK, NEW l \in Loop, NEW fs \in Seq(Functor),
         batch'[l] = batch[l], ran'[l] = ran[l], pending'[l] = pending[l] \o fs
  PROVE  Ahead(l)' = Ahead(l) \o fs
<1>. DEFINE run == SubSeq(batch[l], ran[l] + 1, Len(batch[l]))
<1>1. run \in Seq(Functor) /\ pending[l] \in Seq(Functor)
  BY AheadIs DEF LoopTypeOK
<1>2. Ahead(l)' = run \o (pending[l] \o fs)
  BY DEF Ahead
<1>3. Ahead(l) = run \o pending[l]
  BY DEF Ahead
<1>. HIDE DEF run
<1>4. (run \o pending[l]) \o fs = run \o (pending[l] \o fs)
  BY <1>1, ConcatMoved
<1>. QED
  BY <1>2, <1>3, <1>4

LEMMA AheadRan ==
  ASSUME LoopTypeOK, BatchOK, NEW l \in Loop, NEW f, Running(l, f),
         batch' = batch, pending'[l] = pending[l]
  PROVE  /\ Ahead(l) # <<>> /\ Ahead(l)[1] = f /\ Ahead(l)' = Tail(Ahead(l))
         /\ \A k \in Loop \ {l} : ran'[k] = ran[k]
<1>. DEFINE run == SubSeq(batch[l], ran[l] + 1, Len(batch[l]))
            rest == SubSeq(batch[l], (ran[l] + 1) + 1, Len(batch[l]))
<1>1. /\ batch[l] \in Seq(Functor) /\ pending[l] \in Seq(Functor) /\ ran[l] \in Nat
      /\ ran[l] < Len(batch[l]) /\ f = batch[l][ran[l] + 1]
      /\ ran'[l] = ran[l] + 1 /\ \A k \in Loop \ {l} : ran'[k] = ran[k]
  BY DEF LoopTypeOK, Running, Current
<1>2. run \in Seq(Functor) /\ run # <<>> /\ run[1] = f /\ rest = Tail(run)
  <2>1. ran[l] \in 0..Len(batch[l])
    BY <1>1
  <2>. QED
    BY <1>1, <2>1, SubSeqIs, SubSeqTail
<1>3. Ahead(l) = run \o pending[l] /\ Ahead(l)' = rest \o pending[l]
  BY <1>1 DEF Ahead
<1>. HIDE DEF run, rest
<1>4. Tail(run \o pending[l]) = Tail(run) \o pending[l]
  BY <1>1, <1>2
<1>5. run \o pending[l] # <<>> /\ (run \o pending[l])[1] = f
  BY <1>1, <1>2
<1>. QED
  BY <1>1, <1>2, <1>3, <1>4, <1>5

LEMMA AheadSwapped ==
  ASSUME LoopTypeOK, BatchOK, NEW l \in Loop, doPendingFunctors(l) \/ FunctorsDone(l)
  PROVE  \A k \in Loop : Ahead(k)' = Ahead(k)
<1>1. ASSUME NEW k \in Loop \ {l}
      PROVE  Ahead(k)' = Ahead(k)
  BY <1>1 DEF doPendingFunctors, FunctorsDone, Ahead, LoopTypeOK
<1>2. CASE doPendingFunctors(l)
  <2>1. /\ batch[l] = <<>> /\ ran[l] = 0 /\ pending[l] \in Seq(Functor)
        /\ batch'[l] = pending[l] /\ ran'[l] = 0 /\ pending'[l] = <<>>
    BY <1>2 DEF doPendingFunctors, BatchOK, LoopTypeOK
  <2>2. Ahead(l) = pending[l]
    BY <2>1 DEF Ahead
  <2>3. Ahead(l)' = pending[l]
    BY <2>1 DEF Ahead
  <2>. QED
    BY <1>1, <2>2, <2>3
<1>3. CASE FunctorsDone(l)
  <2>1. /\ batch[l] \in Seq(Functor) /\ ran[l] = Len(batch[l]) /\ pending[l] \in Seq(Functor)
        /\ batch'[l] = <<>> /\ ran'[l] = 0 /\ pending'[l] = pending[l]
    BY <1>3 DEF FunctorsDone, LoopTypeOK
  <2>2. Ahead(l) = pending[l]
    BY <2>1 DEF Ahead
  <2>3. Ahead(l)' = pending[l]
    BY <2>1 DEF Ahead
  <2>. QED
    BY <1>1, <2>2, <2>3
<1>. QED
  BY <1>2, <1>3

LEMMA QueuedAt ==
  ASSUME LoopTypeOK, BatchOK, NEW l \in Loop, overtaken \subseteq overtaken',
         Once(Ahead(l)), Ordered(Ahead(l), overtaken),
         NEW f \in Functor, MayQueue(Ahead(l), f, overtaken'),
         batch'[l] = batch[l], ran'[l] = ran[l], pending'[l] = pending[l] \o <<f>>
  PROVE  /\ Once(Ahead(l))' /\ Ordered(Ahead(l), overtaken)'
         /\ Todo(l)' = Todo(l) \cup {f}
<1>1. Ahead(l) \in Seq(Functor) /\ <<f>> \in Seq(Functor)
  BY AheadIs
<1>2. Ahead(l)' = Ahead(l) \o <<f>>
  BY <1>1, AheadQueued
<1>3. Ahead(l) \o <<f>> = Append(Ahead(l), f)
  BY <1>1
<1>4. Once(Append(Ahead(l), f)) /\ Ordered(Append(Ahead(l), f), overtaken')
  <2>1. Ordered(Ahead(l), overtaken')
    BY <1>1, OrderedStill
  <2>. QED
    BY <1>1, <2>1, AppendInOrder
<1>5. Elements(<<f>>) = {f}
  BY DEF Elements
<1>6. Elements(Ahead(l) \o <<f>>) = Elements(Ahead(l)) \cup {f}
  BY <1>1, <1>5, JoinElements
<1>7. /\ Once(Ahead(l)') /\ Ordered(Ahead(l)', overtaken')
      /\ Elements(Ahead(l)') = Elements(Ahead(l)) \cup {f}
  BY <1>2, <1>3, <1>4, <1>6
<1>. QED
  BY <1>7 DEF Once, Ordered, Tied, Todo, Elements

LEMMA RanAt ==
  ASSUME LoopTypeOK, BatchOK, NEW l \in Loop, overtaken' = overtaken,
         Once(Ahead(l)), Ordered(Ahead(l), overtaken),
         NEW f, Running(l, f), batch' = batch, pending'[l] = pending[l]
  PROVE  /\ Once(Ahead(l))' /\ Ordered(Ahead(l), overtaken)'
         /\ f \in Functor /\ f \in Todo(l) /\ Todo(l)' \subseteq Todo(l)
         /\ \A g \in Todo(l) : g = f \/ g \in Todo(l)'
         /\ f.fn \in {"connectEstablished", "removeConnectionInLoop"} => f \notin Todo(l)'
         /\ f.fn = "connectDestroyed" =>
              \A g \in Todo(l)' : g.conn = f.conn => ~Tied(g, overtaken)
         /\ \A k \in Loop \ {l} : ran'[k] = ran[k]
<1>1. Ahead(l) \in Seq(Functor)
  BY AheadIs
<1>2. /\ Ahead(l) # <<>> /\ Ahead(l)[1] = f /\ Ahead(l)' = Tail(Ahead(l))
      /\ \A k \in Loop \ {l} : ran'[k] = ran[k]
  BY AheadRan
<1>3. f \in Functor /\ f \in Elements(Ahead(l))
  BY <1>1, <1>2, TailElements
<1>4. /\ Elements(Tail(Ahead(l))) \subseteq Elements(Ahead(l))
      /\ \A g \in Elements(Ahead(l)) : g = f \/ g \in Elements(Tail(Ahead(l)))
  BY <1>1, <1>2, TailElements
<1>5. /\ Once(Tail(Ahead(l))) /\ Ordered(Tail(Ahead(l)), overtaken)
      /\ f.fn \in {"connectEstablished", "removeConnectionInLoop"} =>
              f \notin Elements(Tail(Ahead(l)))
      /\ f.fn = "connectDestroyed" =>
              \A g \in Elements(Tail(Ahead(l))) : g.conn = f.conn => ~Tied(g, overtaken)
  BY <1>1, <1>2, TailInOrder
<1>6. /\ Todo(l) = Elements(Ahead(l)) /\ Todo(l)' = Elements(Tail(Ahead(l)))
      /\ Once(Ahead(l))' = Once(Tail(Ahead(l))) /\ Ordered(Ahead(l), overtaken)' = Ordered(Tail(Ahead(l)), overtaken)
  BY <1>2 DEF Todo, Once, Ordered, Tied, Elements
<1>. QED
  BY <1>2, <1>3, <1>4, <1>5, <1>6

LEMMA SameAt ==
  ASSUME NEW l \in Loop, Ahead(l)' = Ahead(l), overtaken \subseteq overtaken'
  PROVE  /\ Once(Ahead(l))' = Once(Ahead(l))
         /\ Ordered(Ahead(l), overtaken) => Ordered(Ahead(l), overtaken)'
         /\ Todo(l)' = Todo(l)
BY DEF Once, Ordered, Tied, Todo, Elements

(* A functor waits only for a connection that has been made.               *)
LEMMA PlacedMade ==
  ASSUME Stages, NEW l \in Loop, NEW f \in Functor, Placed(l, f)
  PROVE  f.conn \in Conn /\ state[f.conn] # "none" /\ loop[f.conn] \in Loop \ {Base}
<1>1. f.conn \in Conn /\ None \notin Loop
  BY ServerAssumption
<1>. QED
  BY <1>1 DEF Stages, Stage, Placed

LEMMA PlacedSame ==
  ASSUME NEW l, NEW f, Placed(l, f), overtaken \subseteq overtaken',
         state'[f.conn] = state[f.conn], loop'[f.conn] = loop[f.conn],
         channel'[f.conn] = channel[f.conn], f.conn \in connections' <=> f.conn \in connections
  PROVE  Placed(l, f)'
BY DEF Placed, Tied

-----------------------------------------------------------------------------
(* The loops.  Every step of the front end besides the loops' own is, for  *)
(* them, one in which a loop handles an event or runs a functor, and       *)
(* something may be queued.                                                *)
HandlesOne(l) ==
  /\ \E ch \in Channel : Handled(l, ch)
  /\ ran' = ran

RunsOne(l) ==
  /\ \E f : Running(l, f)
  /\ active' = active

QueuesNone == UNCHANGED <<pending, woken>>

QueuesSome(k, own) ==
  \E fs \in Seq(Functor) : queueInLoop(k, own, fs)

LEMMA LoopHandles ==
  ASSUME LoopInv, BatchOK, NEW l \in Loop, HandlesOne(l), UNCHANGED <<phase, batch>>,
         QueuesNone \/ QueuesSome(l, TRUE) \/ \E k \in Loop : QueuesSome(k, FALSE)
  PROVE  LoopInv' /\ BatchOK'
<1>1. phase[l] = "events"
  BY DEF LoopInv, EventsInPhase, HandlesOne, Handled
<1>2. /\ active' \in [Loop -> SUBSET (Channel \cup {WakeupChannel})] /\ EventsInPhase'
      /\ ran' = ran
  BY <1>1 DEF LoopInv, LoopTypeOK, EventsInPhase, HandlesOne, Handled
<1>3. /\ pending' \in [Loop -> Seq(Functor)] /\ woken' \in [Loop -> BOOLEAN]
      /\ NoLostFunctor'
  <2>1. CASE QueuesNone
    BY <2>1 DEF QueuesNone, LoopInv, LoopTypeOK, NoLostFunctor
  <2>2. ASSUME NEW k \in Loop, NEW own \in BOOLEAN, QueuesSome(k, own), own => k = l
        PROVE  <1>3!:
    <3>1. PICK fs \in Seq(Functor) : queueInLoop(k, own, fs)
      BY <2>2 DEF QueuesSome
    <3>2. /\ pending' \in [Loop -> Seq(Functor)] /\ woken' \in [Loop -> BOOLEAN]
          /\ \A j \in Loop \ {k} : pending'[j] = pending[j] /\ woken'[j] = woken[j]
          /\ ~own => woken'[k]
      BY <3>1, QueueStep
    <3>3. NoLostFunctor'
      BY <1>1, <2>2, <3>2 DEF LoopInv, NoLostFunctor
    <3>. QED
      BY <3>2, <3>3
  <2>. QED
    BY <2>1, <2>2
<1>. QED
  BY <1>2, <1>3 DEF LoopInv, LoopTypeOK, BatchOK

LEMMA LoopRuns ==
  ASSUME LoopInv, BatchOK, NEW l \in Loop, RunsOne(l), UNCHANGED <<phase, batch>>,
         QueuesNone \/ \E k \in Loop : QueuesSome(k, FALSE)
  PROVE  LoopInv' /\ BatchOK'
<1>1. phase[l] = "functors" /\ ran' \in [Loop -> Nat]
  BY DEF LoopInv, LoopTypeOK, RunsOne, Running
<1>2. BatchOK'
  BY DEF LoopInv, LoopTypeOK, BatchOK, RunsOne, Running
<1>3. /\ pending' \in [Loop -> Seq(Functor)] /\ woken' \in [Loop -> BOOLEAN]
      /\ NoLostFunctor'
  <2>1. CASE QueuesNone
    BY <2>1 DEF QueuesNone, LoopInv, LoopTypeOK, NoLostFunctor
  <2>2. ASSUME NEW k \in Loop, QueuesSome(k, FALSE)
        PROVE  <1>3!:
    <3>1. PICK fs \in Seq(Functor) : queueInLoop(k, FALSE, fs)
      BY <2>2 DEF QueuesSome
    <3>2. /\ pending' \in [Loop -> Seq(Functor)] /\ woken' \in [Loop -> BOOLEAN]
          /\ \A j \in Loop \ {k} : pending'[j] = pending[j] /\ woken'[j] = woken[j]
          /\ woken'[k]
      BY <3>1, QueueStep
    <3>. QED
      BY <3>2 DEF LoopInv, NoLostFunctor
  <2>. QED
    BY <2>1, <2>2
<1>. QED
  BY <1>1, <1>2, <1>3 DEF LoopInv, LoopTypeOK, EventsInPhase, RunsOne

(* A thread that is not one of the loops', or a loop in the middle of an   *)
(* event, queues for a loop.                                               *)
LEMMA LoopQueued ==
  ASSUME LoopInv, BatchOK, UNCHANGED <<phase, active, batch, ran>>,
         QueuesNone \/ \E k \in Loop : QueuesSome(k, FALSE)
  PROVE  LoopInv' /\ BatchOK'
<1>1. CASE QueuesNone
  BY <1>1 DEF QueuesNone, LoopInv, LoopTypeOK, EventsInPhase, NoLostFunctor, BatchOK
<1>2. ASSUME NEW k \in Loop, QueuesSome(k, FALSE)
      PROVE  LoopInv' /\ BatchOK'
  <2>1. OtherThread(k)
    BY <1>2 DEF QueuesSome, OtherThread
  <2>. QED
    BY <2>1, OtherStep DEF BatchOK
<1>. QED
  BY <1>1, <1>2

LEMMA LoopIterates ==
  ASSUME LoopInv, BatchOK, NEW l \in Loop,
         \/ \E ready \in SUBSET Channel : poll(l, ready)
         \/ handleRead(l) \/ doPendingFunctors(l) \/ FunctorsDone(l)
  PROVE  LoopInv' /\ BatchOK' /\ \A k \in Loop : Ahead(k)' = Ahead(k)
<1>1. ASSUME NEW ready \in SUBSET Channel, poll(l, ready)
      PROVE  LoopInv' /\ BatchOK' /\ \A k \in Loop : Ahead(k)' = Ahead(k)
  <2>1. LoopInv'
    BY <1>1, PollStep
  <2>2. BatchOK'
    BY <1>1 DEF LoopInv, LoopTypeOK, BatchOK, poll
  <2>3. \A k \in Loop : Ahead(k)' = Ahead(k)
    BY <1>1 DEF poll, Ahead
  <2>. QED
    BY <2>1, <2>2, <2>3
<1>2. CASE handleRead(l)
  <2>1. LoopInv'
    BY <1>2, HandleReadStep
  <2>2. BatchOK' /\ \A k \in Loop : Ahead(k)' = Ahead(k)
    BY <1>2 DEF BatchOK, handleRead, Ahead
  <2>. QED
    BY <2>1, <2>2
<1>3. CASE doPendingFunctors(l)
  <2>1. LoopInv'
    BY <1>3, SwapStep
  <2>2. BatchOK'
    BY <1>3 DEF LoopInv, LoopTypeOK, BatchOK, doPendingFunctors
  <2>3. \A k \in Loop : Ahead(k)' = Ahead(k)
    BY <1>3, AheadSwapped DEF LoopInv
  <2>. QED
    BY <2>1, <2>2, <2>3
<1>4. CASE FunctorsDone(l)
  <2>1. LoopInv'
    BY <1>4, DoneStep
  <2>2. BatchOK'
    BY <1>4 DEF LoopInv, LoopTypeOK, BatchOK, FunctorsDone
  <2>3. \A k \in Loop : Ahead(k)' = Ahead(k)
    BY <1>4, AheadSwapped DEF LoopInv
  <2>. QED
    BY <2>1, <2>2, <2>3
<1>. QED
  BY <1>1, <1>2, <1>3, <1>4

-----------------------------------------------------------------------------
LEMMA Constants ==
  /\ Base \in Loop /\ None \notin Loop /\ None \notin Conn
  /\ \A i \in 1..Len(IOLoops) : IOLoops[i] \in Loop \ {Base}
  /\ \A fn \in Fn, c \in Conn : Do(fn, c) \in Functor /\ <<Do(fn, c)>> \in Seq(Functor)
  /\ \A c \in Conn : Socket(c) \in Channel /\ CloseTimer(c) \in Channel
  /\ Acceptor \in Channel /\ Tick \in Channel
  /\ \A f \in Functor : f.fn \in Fn /\ f.conn \in Conn
<1>1. \A i \in 1..Len(IOLoops) : IOLoops[i] \in Loop \ {Base}
  BY ServerAssumption
<1>2. \A fn \in Fn, c \in Conn : Do(fn, c) \in Functor
  BY ServerAssumption DEF Do
<1>3. \A fn \in Fn, c \in Conn : <<Do(fn, c)>> \in Seq(Functor)
  BY <1>2
<1>. QED
  BY <1>1, <1>2, <1>3, ServerAssumption DEF Socket, CloseTimer, Acceptor, Tick

LEMMA InitServer == Init => ServerInv
<1>. SUFFICES ASSUME Init
              PROVE  ServerInv
  OBVIOUS
<1>1. LoopInv
  BY InitLoop DEF Init
<1>2. \A l \in Loop : batch[l] = <<>> /\ ran[l] = 0 /\ pending[l] = <<>> /\ active[l] = {}
  BY DEF Init, LoopInit
<1>3. BatchOK
  <2>1. Len(<<>>) = 0
    OBVIOUS
  <2>2. \A l \in Loop : Len(batch[l]) = 0
    BY <1>2, <2>1
  <2>3. \A l \in Loop : ran[l] <= Len(batch[l])
    <3>1. SUFFICES ASSUME NEW l \in Loop
                   PROVE  ran[l] <= Len(batch[l])
      OBVIOUS
    <3>2. ran[l] = 0 /\ Len(batch[l]) = 0
      BY <1>2, <2>2
    <3>. QED
      BY <3>2
  <2>. QED
    BY <1>2, <2>3 DEF BatchOK
<1>4. TypeOK
  <2>1. 1 \in 1..Len(IOLoops) /\ MaxPackets \in Nat /\ MaxQueueSize \in Nat \ {0}
    BY ServerAssumption
  <2>2. /\ list \in Seq(Conn) /\ jobs \in Seq(Conn) /\ Len(jobs) <= MaxQueueSize
        /\ next \in 1..Len(IOLoops)
    BY <2>1 DEF Init
  <2>3. /\ state \in [Conn -> State] /\ loop \in [Conn -> Loop \cup {None}]
        /\ channel \in [Conn -> {"new", "on", "off", "removed"}]
        /\ amid \in [Conn -> {"none", "pushed", "spliced", "closed"}]
    BY DEF Init, State
  <2>4. /\ peer \in [Conn -> {"away", "open", "closed"}]
        /\ inbox \in [Conn -> 0..MaxPackets] /\ sent \in [Conn -> 0..MaxPackets]
    BY <2>1 DEF Init
  <2>5. /\ connections \in SUBSET Conn /\ context \in SUBSET Conn /\ idle \in SUBSET Conn
        /\ armed \in SUBSET Conn /\ overtaken \in SUBSET Conn
        /\ it \in Conn \cup {None} /\ working \in Conn \cup {None}
        /\ doing \in Doing /\ sending \in BOOLEAN
    BY DEF Init, Doing
  <2>. QED
    BY <1>1, <2>2, <2>3, <2>4, <2>5 DEF TypeOK, LoopInv
<1>5. \A l \in Loop : Len(Ahead(l)) = 0
  <2>1. SUFFICES ASSUME NEW l \in Loop
                 PROVE  Len(Ahead(l)) = 0
    OBVIOUS
  <2>2. Len(SubSeq(batch[l], ran[l] + 1, Len(batch[l]))) = 0
    BY <1>1, <1>2, <1>3, AheadIs DEF LoopInv
  <2>3. pending[l] = <<>> /\ SubSeq(batch[l], ran[l] + 1, Len(batch[l])) \in Seq(Functor)
    BY <1>1, <1>2, <1>3, AheadIs DEF LoopInv
  <2>. QED
    BY <2>2, <2>3 DEF Ahead
<1>6. FunctorsOK
  <2>1. \A l \in Loop : \A i \in 1..Len(Ahead(l)) : FALSE
    BY <1>5
  <2>2. \A l \in Loop : Once(Ahead(l)) /\ Ordered(Ahead(l), overtaken) /\ Todo(l) = {}
    BY <2>1 DEF Todo, Elements, Once, Ordered
  <2>. QED
    BY <2>2 DEF FunctorsOK
<1>7. Stages /\ Held
  BY DEF Init, Stages, Stage, Held
<1>8. ListOK
  BY DEF Init, ListOK, Elements, Injective, Up
<1>9. EventsOK
  BY <1>2 DEF EventsOK
<1>10. \A c \in Conn : inbox[c] <= sent[c]
  BY DEF Init
<1>11. failed \subseteq MayFail /\ WalkOK /\ SendOK
  BY DEF Init, WalkOK, SendOK
<1>. QED
  BY <1>1, <1>3, <1>4, <1>6, <1>7, <1>8, <1>9, <1>10, <1>11 DEF ServerInv, LifeInv

LEMMA SameLoops ==
  ASSUME UNCHANGED loopVars, LoopInv, BatchOK
  PROVE  LoopInv' /\ BatchOK' /\ \A l \in Loop : Ahead(l)' = Ahead(l)
BY DEF loopVars, LoopInv, LoopTypeOK, EventsInPhase, NoLostFunctor, BatchOK, Ahead

LEMMA TodoFunctor ==
  ASSUME LoopTypeOK, BatchOK, NEW l \in Loop, NEW f \in Todo(l)
  PROVE  f \in Functor /\ f.fn \in Fn /\ f.conn \in Conn
<1>1. Ahead(l) \in Seq(Functor)
  BY AheadIs
<1>2. \A i \in 1..Len(Ahead(l)) : Ahead(l)[i] \in Functor
  BY <1>1
<1>. QED
  BY <1>2, Constants DEF Todo, Elements

-----------------------------------------------------------------------------
(* The steps that leave the life of every connection where it is: a state  *)
(* moves to kDisconnecting at most, and a loop goes on with a handler.     *)
StaysUp ==
  \A c \in Conn :
    /\ \/ state'[c] = state[c]
       \/ state[c] \notin {"none", "kConnecting"} /\ state'[c] = "kDisconnecting"
    /\ \/ amid'[c] = amid[c]
       \/ /\ channel[c] = "on" /\ c \in context'
          /\ amid[c] # "closed" /\ amid'[c] # "closed"

LEMMA Gentle ==
  ASSUME LoopInv, BatchOK, Stages, FunctorsOK, Held, StaysUp, state \in [Conn -> State],
         UNCHANGED <<connections, loop, channel>>, context \subseteq context',
         overtaken \subseteq overtaken',
         NEW k \in Loop, NEW F \in SUBSET Functor,
         \A l \in Loop : Once(Ahead(l))' /\ Ordered(Ahead(l), overtaken)',
         \A l \in Loop \ {k} : Todo(l)' = Todo(l),
         Todo(k)' = Todo(k) \cup F,
         \A f \in F : Placed(k, f)'
  PROVE  Stages' /\ FunctorsOK' /\ Held'
<1>1. Stages'
  <2>1. SUFFICES ASSUME NEW c \in Conn
                 PROVE  Stage(c)'
    BY DEF Stages
  <2>2. /\ Stage(c)
        /\ \/ state'[c] = state[c]
           \/ state[c] \notin {"none", "kConnecting"} /\ state'[c] = "kDisconnecting"
        /\ \/ amid'[c] = amid[c]
           \/ /\ channel[c] = "on" /\ c \in context'
              /\ amid[c] # "closed" /\ amid'[c] # "closed"
    BY DEF Stages, StaysUp
  <2>. QED
    BY <2>2 DEF Stage
<1>2. FunctorsOK'
  <2>1. ASSUME NEW l \in Loop, NEW f \in Todo(l)
        PROVE  Placed(l, f)'
    <3>1. f.conn \in Conn /\ Placed(l, f)
      BY TodoFunctor DEF FunctorsOK, LoopInv
    <3>2. \/ state'[f.conn] = state[f.conn]
          \/ state[f.conn] \notin {"none", "kConnecting"}
      BY <3>1 DEF StaysUp
    <3>. QED
      BY <3>1, <3>2 DEF Placed, Tied
  <2>. QED
    BY <2>1 DEF FunctorsOK
<1>3. Held'
  BY DEF Held
<1>. QED
  BY <1>1, <1>2, <1>3

LEMMA NothingQueued ==
  ASSUME ServerInv, StaysUp, UNCHANGED <<connections, loop, channel>>,
         context \subseteq context', overtaken \subseteq overtaken',
         \A l \in Loop : Ahead(l)' = Ahead(l)
  PROVE  Stages' /\ FunctorsOK' /\ Held'
<1>. USE DEF ServerInv, LifeInv
<1>1. \A l \in Loop : /\ Once(Ahead(l))' /\ Ordered(Ahead(l), overtaken)'
                      /\ Todo(l)' = Todo(l)
  BY SameAt DEF FunctorsOK
<1>2. Base \in Loop /\ {} \in SUBSET Functor
  BY Constants
<1>3. Todo(Base)' = Todo(Base) \cup {}
  BY <1>1, <1>2
<1>4. state \in [Conn -> State]
  BY DEF TypeOK
<1>. QED
  BY <1>1, <1>2, <1>3, <1>4, Gentle

LEMMA OneQueued ==
  ASSUME ServerInv, StaysUp, UNCHANGED <<connections, loop, channel>>,
         context \subseteq context', overtaken \subseteq overtaken',
         NEW k \in Loop, NEW f \in Functor, NEW own \in BOOLEAN,
         UNCHANGED <<batch, ran>>, queueInLoop(k, own, <<f>>),
         MayQueue(Ahead(k), f, overtaken'), Placed(k, f)'
  PROVE  Stages' /\ FunctorsOK' /\ Held'
<1>. USE DEF ServerInv, LifeInv
<1>1. pending'[k] = pending[k] \o <<f>> /\ \A l \in Loop \ {k} : pending'[l] = pending[l]
  BY DEF queueInLoop, LoopInv, LoopTypeOK
<1>2. \A l \in Loop \ {k} : Ahead(l)' = Ahead(l)
  BY <1>1 DEF Ahead
<1>3. \A l \in Loop \ {k} : Once(Ahead(l))' /\ Ordered(Ahead(l), overtaken)' /\ Todo(l)' = Todo(l)
  BY <1>2, SameAt DEF FunctorsOK
<1>4. Once(Ahead(k))' /\ Ordered(Ahead(k), overtaken)' /\ Todo(k)' = Todo(k) \cup {f}
  BY <1>1, QueuedAt DEF FunctorsOK, LoopInv
<1>5. \A l \in Loop : Once(Ahead(l))' /\ Ordered(Ahead(l), overtaken)'
  BY <1>3, <1>4
<1>6. {f} \in SUBSET Functor /\ \A g \in {f} : Placed(k, g)'
  OBVIOUS
<1>7. state \in [Conn -> State]
  BY DEF TypeOK
<1>. QED
  BY <1>3, <1>4, <1>5, <1>6, <1>7, Gentle

LEMMA ListKept ==
  ASSUME ListOK, UNCHANGED <<list, channel>>
  PROVE  ListOK'
BY DEF ListOK, Up

LEMMA EventsKept ==
  ASSUME EventsOK, StaysUp, UNCHANGED <<loop, channel>>,
         \A l \in Loop : active'[l] \subseteq active[l]
  PROVE  EventsOK'
<1>1. Up' = Up
  BY DEF Up
<1>2. \A c \in Conn : amid[c] # "closed" => amid'[c] # "closed"
  BY DEF StaysUp
<1>. QED
  BY <1>1, <1>2 DEF EventsOK

LEMMA WalkKept ==
  ASSUME WalkOK, StaysUp, UNCHANGED <<connections, it, doing>>
  PROVE  WalkOK'
BY DEF WalkOK, StaysUp

LEMMA SendKept ==
  ASSUME SendOK, UNCHANGED <<loop, working, sending>>
  PROVE  SendOK'
BY DEF SendOK

-----------------------------------------------------------------------------
(* The steps that no loop takes.                                           *)
LEMMA ClientStep ==
  ASSUME ServerInv, NEW c \in Conn, Client(c)
  PROVE  ServerInv'
<1>. USE DEF ServerInv, LifeInv
<1>1. UNCHANGED <<loopVars, next, connections, connVars, listVars, timerVars, workerVars,
                  amid, failed>>
  BY DEF Client
<1>2. LoopInv' /\ BatchOK' /\ \A l \in Loop : Ahead(l)' = Ahead(l)
  BY <1>1, SameLoops
<1>0. StaysUp
  BY <1>1 DEF StaysUp, connVars
<1>3. Stages' /\ FunctorsOK' /\ Held'
  BY <1>1, <1>0, <1>2, NothingQueued DEF connVars, listVars, workerVars
<1>4. ListOK' /\ EventsOK' /\ WalkOK' /\ SendOK'
  BY <1>1, <1>0, ListKept, EventsKept, WalkKept, SendKept
     DEF loopVars, connVars, listVars, timerVars, workerVars
<1>5. /\ peer' \in [Conn -> {"away", "open", "closed"}]
      /\ inbox' \in [Conn -> 0..MaxPackets] /\ sent' \in [Conn -> 0..MaxPackets]
      /\ \A x \in Conn : inbox'[x] <= sent'[x]
  <2>1. /\ MaxPackets \in Nat
        /\ peer \in [Conn -> {"away", "open", "closed"}]
        /\ inbox \in [Conn -> 0..MaxPackets] /\ sent \in [Conn -> 0..MaxPackets]
        /\ \A x \in Conn : inbox[x] <= sent[x]
    BY ServerAssumption DEF TypeOK
  <2>2. CASE ClientConnects(c)
    BY <2>1, <2>2 DEF ClientConnects
  <2>3. CASE ClientSends(c)
    BY <2>1, <2>3 DEF ClientSends
  <2>4. CASE ClientLeaves(c)
    BY <2>1, <2>4 DEF ClientLeaves
  <2>. QED
    BY <2>2, <2>3, <2>4 DEF Client
<1>6. TypeOK'
  BY <1>1, <1>2, <1>5 DEF TypeOK, LoopInv, connVars, listVars, timerVars, workerVars
<1>. QED
  BY <1>1, <1>2, <1>3, <1>4, <1>5, <1>6

LEMMA GrowsIdleStep ==
  ASSUME ServerInv, NEW c \in Conn, GrowsIdle(c)
  PROVE  ServerInv'
<1>. USE DEF ServerInv, LifeInv
<1>1. UNCHANGED <<loopVars, next, connections, connVars, list, context, timerVars,
                  workerVars, amid, clientVars, failed>>
  BY DEF GrowsIdle
<1>2. LoopInv' /\ BatchOK' /\ \A l \in Loop : Ahead(l)' = Ahead(l)
  BY <1>1, SameLoops
<1>0. StaysUp
  BY <1>1 DEF StaysUp, connVars
<1>3. Stages' /\ FunctorsOK' /\ Held'
  BY <1>1, <1>0, <1>2, NothingQueued DEF connVars, workerVars
<1>4. ListOK' /\ EventsOK' /\ WalkOK' /\ SendOK'
  BY <1>1, <1>0, ListKept, EventsKept, WalkKept, SendKept
     DEF loopVars, connVars, timerVars, workerVars
<1>5. TypeOK'
  BY <1>1, <1>2 DEF TypeOK, LoopInv, connVars, timerVars, workerVars, clientVars, GrowsIdle
<1>. QED
  BY <1>1, <1>2, <1>3, <1>4, <1>5 DEF clientVars

LEMMA TakeTaskStep ==
  ASSUME ServerInv, WorkerStep, TakeTask
  PROVE  ServerInv'
<1>. USE DEF ServerInv, LifeInv
<1>1. UNCHANGED <<loopVars, next, connections, connVars, listVars, timerVars, amid,
                  clientVars, failed, sending, overtaken>>
  BY DEF WorkerStep, TakeTask
<1>0. StaysUp
  BY <1>1 DEF StaysUp, connVars
<1>2. LoopInv' /\ BatchOK' /\ \A l \in Loop : Ahead(l)' = Ahead(l)
  BY <1>1, SameLoops
<1>3. Stages' /\ FunctorsOK' /\ Held'
  BY <1>1, <1>0, <1>2, NothingQueued DEF connVars, listVars
<1>4. ListOK' /\ EventsOK' /\ WalkOK'
  BY <1>1, <1>0, ListKept, EventsKept, WalkKept
     DEF loopVars, connVars, listVars, timerVars
<1>5. SendOK'
  <2>1. ~sending
    BY Constants DEF TakeTask, SendOK
  <2>. QED
    BY <1>1, <2>1 DEF SendOK, TypeOK
<1>6. working' \in Conn /\ jobs' \in Seq(Conn) /\ Len(jobs') <= MaxQueueSize
  <2>1. jobs \in Seq(Conn) /\ jobs # <<>> /\ Len(jobs) <= MaxQueueSize /\ MaxQueueSize \in Nat
    BY ServerAssumption DEF TakeTask, TypeOK
  <2>2. jobs[1] \in Conn /\ Tail(jobs) \in Seq(Conn) /\ Len(Tail(jobs)) <= MaxQueueSize
    BY <2>1
  <2>. QED
    BY <2>2 DEF TakeTask
<1>7. TypeOK'
  BY <1>1, <1>2, <1>6 DEF TypeOK, LoopInv, connVars, listVars, timerVars, clientVars
<1>. QED
  BY <1>1, <1>2, <1>3, <1>4, <1>5, <1>7 DEF clientVars

LEMMA SendStep ==
  ASSUME ServerInv, WorkerStep, send
  PROVE  ServerInv'
<1>. USE DEF ServerInv, LifeInv
<1>1. /\ UNCHANGED <<loopVars, next, connections, connVars, listVars, timerVars, amid,
                     clientVars, failed, jobs, overtaken>>
      /\ working \in Conn
  BY DEF WorkerStep, send, TypeOK
<1>0. StaysUp
  BY <1>1 DEF StaysUp, connVars
<1>2. LoopInv' /\ BatchOK' /\ \A l \in Loop : Ahead(l)' = Ahead(l)
  BY <1>1, SameLoops
<1>3. Stages' /\ FunctorsOK' /\ Held'
  BY <1>1, <1>0, <1>2, NothingQueued DEF connVars, listVars
<1>4. ListOK' /\ EventsOK' /\ WalkOK'
  BY <1>1, <1>0, ListKept, EventsKept, WalkKept
     DEF loopVars, connVars, listVars, timerVars
<1>5. SendOK'
  <2>1. CASE state[working] = "kConnected"
    BY <1>1, <2>1 DEF send, SendOK, Stages, Stage, connVars
  <2>2. CASE state[working] # "kConnected"
    BY <1>1, <2>2 DEF send, SendOK
  <2>. QED
    BY <2>1, <2>2
<1>6. working' \in Conn \cup {None} /\ sending' \in BOOLEAN
  BY <1>1 DEF send, TypeOK
<1>7. TypeOK'
  BY <1>1, <1>2, <1>6 DEF TypeOK, LoopInv, connVars, listVars, timerVars, clientVars
<1>. QED
  BY <1>1, <1>2, <1>3, <1>4, <1>5, <1>7 DEF clientVars

(* The reply of a connection that the map still has is queued before its   *)
(* connectDestroyed; any other is noted as overtaken.                      *)
LEMMA QueueReplyStep ==
  ASSUME ServerInv, WorkerStep, QueueReply
  PROVE  ServerInv'
<1>. USE DEF ServerInv, LifeInv
<1>1. /\ UNCHANGED <<next, connections, connVars, listVars, timerVars, amid, clientVars,
                     failed, phase, active, batch, ran, jobs>>
      /\ sending /\ working' = None /\ sending' = FALSE
      /\ overtaken' = overtaken \cup ({working} \ connections)
  BY DEF WorkerStep, QueueReply
<1>0. StaysUp
  BY <1>1 DEF StaysUp, connVars
<1>2. PICK c \in Conn : c = working /\ loop[c] \in Loop \ {Base}
  BY <1>1 DEF SendOK
<1>3. PICK l \in Loop \ {Base} : l = loop[c]
  BY <1>2
<1>. DEFINE f == Do("sendInLoop", c)
<1>4. f \in Functor /\ <<f>> \in Seq(Functor) /\ f.fn = "sendInLoop" /\ f.conn = c
  BY Constants DEF Do, Fn
<1>5. queueInLoop(l, FALSE, <<f>>)
  BY <1>2, <1>3 DEF QueueReply
<1>6. LoopInv' /\ BatchOK'
  BY <1>1, <1>4, <1>5, LoopQueued DEF QueuesSome
<1>7. Tied(f, overtaken') => c \in connections
  BY <1>1, <1>2, <1>4 DEF Tied
<1>8. MayQueue(Ahead(l), f, overtaken')
  <2>1. c \in connections => Do("connectDestroyed", c) \notin Todo(l)
    BY DEF FunctorsOK, Placed, Do
  <2>. QED
    BY <1>4, <1>7, <2>1 DEF MayQueue, Todo
<1>9. Placed(l, f)'
  <2>1. c \in connections => channel[c] # "removed"
    BY DEF Stages, Stage
  <2>. QED
    BY <1>1, <1>3, <1>4, <1>7, <2>1 DEF Placed, connVars
<1>. HIDE DEF f
<1>10. Stages' /\ FunctorsOK' /\ Held'
  BY <1>1, <1>0, <1>4, <1>5, <1>8, <1>9, OneQueued DEF connVars, listVars
<1>11. ListOK' /\ EventsOK' /\ WalkOK' /\ SendOK'
  BY <1>1, <1>0, ListKept, EventsKept, WalkKept DEF connVars, listVars, timerVars, SendOK
<1>12. TypeOK'
  BY <1>1, <1>2, <1>6 DEF TypeOK, LoopInv, connVars, listVars, timerVars, clientVars
<1>. QED
  BY <1>1, <1>6, <1>10, <1>11, <1>12 DEF clientVars

-----------------------------------------------------------------------------
(* The iteration of a loop.                                                *)
LEMMA PollTakesEvents ==
  ASSUME ServerInv, NEW l \in Loop, NEW expired \in SUBSET Timers(l), Poll(l, expired), ~Busy(l)
  PROVE  ServerInv'
<1>. USE DEF ServerInv, LifeInv
<1>1. /\ UNCHANGED <<next, connections, connVars, listVars, timerVars, workerVars,
                     amid, clientVars, failed>>
      /\ poll(l, Ready(l) \cup expired)
  BY DEF Poll
<1>2. Ready(l) \cup expired \in SUBSET Channel
  <2>1. Ready(l) \subseteq Channel
    BY Constants DEF Ready
  <2>2. Timers(l) \subseteq Channel
    BY Constants DEF Timers, TypeOK
  <2>. QED
    BY <2>1, <2>2
<1>3. LoopInv' /\ BatchOK' /\ \A k \in Loop : Ahead(k)' = Ahead(k)
  BY <1>1, <1>2, LoopIterates
<1>0. StaysUp
  BY <1>1 DEF StaysUp, connVars
<1>4. Stages' /\ FunctorsOK' /\ Held'
  BY <1>1, <1>0, <1>3, NothingQueued DEF connVars, listVars, workerVars
<1>5. EventsOK'
  <2>1. UNCHANGED <<loop, Up, amid>>
    BY <1>1 DEF connVars, Up
  <2>2. \A k \in Loop \ {l} : active'[k] = active[k]
    BY <1>1 DEF poll, LoopInv, LoopTypeOK
  <2>3. active'[l] \subseteq Ready(l) \cup Timers(l) \cup {WakeupChannel}
    BY <1>1 DEF poll, LoopInv, LoopTypeOK
  <2>4. ASSUME NEW c \in Conn, Socket(c) \in active'[l]
        PROVE  l = loop[c] /\ c \in Up /\ amid[c] = "none"
    <3>1. Socket(c) # WakeupChannel /\ Socket(c) \notin Timers(l)
      BY Constants, LoopAssumption DEF Socket, Timers, Tick, CloseTimer
    <3>2. Socket(c) \in Ready(l)
      BY <2>3, <2>4, <3>1
    <3>3. PICK d \in Conn : Socket(c) = Socket(d) /\ loop[d] = l /\ channel[d] = "on"
      BY <3>2 DEF Ready, Socket, Acceptor
    <3>4. c = d
      BY <3>3 DEF Socket
    <3>. QED
      BY <3>3, <3>4 DEF Up, Busy
  <2>5. ASSUME NEW c \in Conn, CloseTimer(c) \in active'[l]
        PROVE  l = loop[c]
    <3>1. CloseTimer(c) # WakeupChannel /\ CloseTimer(c) \notin Ready(l)
      BY Constants, LoopAssumption DEF Socket, Ready, Acceptor, CloseTimer
    <3>2. CloseTimer(c) \in Timers(l)
      BY <2>3, <2>5, <3>1
    <3>3. PICK d \in Conn : CloseTimer(c) = CloseTimer(d) /\ loop[d] = l
      BY <3>2 DEF Timers, CloseTimer, Tick, TypeOK
    <3>. QED
      BY <3>3 DEF CloseTimer
  <2>. QED
    BY <2>1, <2>2, <2>4, <2>5 DEF EventsOK
<1>7. ListOK' /\ WalkOK' /\ SendOK'
  BY <1>1, <1>0, ListKept, WalkKept, SendKept DEF connVars, listVars, timerVars, workerVars
<1>6. TypeOK'
  BY <1>1, <1>3 DEF TypeOK, LoopInv, connVars, listVars, timerVars, workerVars, clientVars
<1>. QED
  BY <1>1, <1>3, <1>4, <1>5, <1>7, <1>6 DEF clientVars

LEMMA IterationStep ==
  ASSUME ServerInv, NEW l \in Loop, handleRead(l) \/ doPendingFunctors(l) \/ FunctorsDone(l),
         UNCHANGED <<next, connections, connVars, listVars, timerVars, workerVars,
                     amid, clientVars, failed>>
  PROVE  ServerInv'
<1>. USE DEF ServerInv
<1>1. LoopInv' /\ BatchOK' /\ \A k \in Loop : Ahead(k)' = Ahead(k)
  BY LoopIterates
<1>2. \A k \in Loop : active'[k] \subseteq active[k]
  <2>1. CASE handleRead(l)
    BY <2>1 DEF handleRead, Handled, LoopInv, LoopTypeOK
  <2>2. CASE doPendingFunctors(l) \/ FunctorsDone(l)
    BY <2>2 DEF doPendingFunctors, FunctorsDone
  <2>. QED
    BY <2>1, <2>2
<1>3. StaysUp
  BY DEF StaysUp, connVars
<1>4. LifeInv'
  <2>1. Stages' /\ FunctorsOK' /\ Held'
    BY <1>1, <1>3, NothingQueued DEF connVars, listVars, workerVars
  <2>2. ListOK' /\ EventsOK' /\ WalkOK' /\ SendOK'
    BY <1>2, <1>3, ListKept, EventsKept, WalkKept, SendKept
       DEF LifeInv, connVars, listVars, timerVars, workerVars
  <2>. QED
    BY <2>1, <2>2 DEF LifeInv
<1>5. TypeOK'
  BY <1>1 DEF TypeOK, LoopInv, connVars, listVars, timerVars, workerVars, clientVars
<1>. QED
  BY <1>1, <1>4, <1>5 DEF clientVars

-----------------------------------------------------------------------------
(* The steps in the middle of an event that leave the functors as they are.*)
LEMMA SameLife ==
  ASSUME ServerInv, StaysUp, WalkOK', context \subseteq context',
         UNCHANGED <<loopVars, connections, loop, channel, list, workerVars>>
  PROVE  LoopInv' /\ BatchOK' /\ LifeInv'
<1>. USE DEF ServerInv, LifeInv
<1>1. LoopInv' /\ BatchOK' /\ \A l \in Loop : Ahead(l)' = Ahead(l)
  BY SameLoops
<1>2. Stages' /\ FunctorsOK' /\ Held'
  BY <1>1, NothingQueued DEF workerVars
<1>3. ListOK' /\ EventsOK' /\ SendOK'
  BY ListKept, EventsKept, SendKept DEF loopVars, workerVars
<1>. QED
  BY <1>1, <1>2, <1>3

LEMMA AssertLastStep ==
  ASSUME ServerInv, NEW c \in Conn, AssertLast(c)
  PROVE  ServerInv'
<1>. USE DEF ServerInv
<1>1. /\ UNCHANGED <<loopVars, next, connections, connVars, listVars, timerVars, workerVars,
                     clientVars>>
      /\ amid[c] = "spliced" /\ amid' = [amid EXCEPT ![c] = "none"]
  BY DEF AssertLast
<1>2. channel[c] = "on" /\ c \in context
  BY <1>1 DEF LifeInv, Stages, Stage
<1>3. StaysUp
  BY <1>1, <1>2 DEF StaysUp, connVars, listVars, TypeOK
<1>4. LoopInv' /\ BatchOK' /\ LifeInv'
  <2>1. WalkOK'
    BY <1>1, <1>3, WalkKept DEF LifeInv, timerVars
  <2>. QED
    BY <1>1, <1>3, <2>1, SameLife DEF connVars, listVars
<1>5. failed' \subseteq MayFail
  BY DEF AssertLast, Fails, MayFail
<1>6. TypeOK'
  BY <1>1, <1>4 DEF TypeOK, LoopInv, connVars, listVars, timerVars, workerVars, clientVars
<1>. QED
  BY <1>1, <1>4, <1>5, <1>6 DEF clientVars

LEMMA SetContextStep ==
  ASSUME ServerInv, NEW c \in Conn, SetContext(c)
  PROVE  ServerInv'
<1>. USE DEF ServerInv
<1>1. /\ UNCHANGED <<loopVars, next, connections, connVars, list, timerVars, workerVars,
                     clientVars, failed>>
      /\ amid[c] = "pushed" /\ amid' = [amid EXCEPT ![c] = "none"]
      /\ context' = context \cup {c} /\ idle' = idle \ {c}
  BY DEF SetContext
<1>2. channel[c] = "on"
  BY <1>1 DEF LifeInv, Stages, Stage
<1>3. StaysUp
  BY <1>1, <1>2 DEF StaysUp, connVars, TypeOK
<1>4. LoopInv' /\ BatchOK' /\ LifeInv'
  <2>1. WalkOK'
    BY <1>1, <1>3, WalkKept DEF LifeInv, timerVars
  <2>. QED
    BY <1>1, <1>3, <2>1, SameLife DEF connVars
<1>5. TypeOK'
  BY <1>1, <1>4 DEF TypeOK, LoopInv, connVars, timerVars, workerVars, clientVars
<1>. QED
  BY <1>1, <1>4, <1>5 DEF clientVars

LEMMA UseDanglingStep ==
  ASSUME ServerInv, NEW l \in Loop, UseDangling(l)
  PROVE  ServerInv'
<1>. USE DEF ServerInv
<1>1. /\ UNCHANGED <<loopVars, next, connections, connVars, listVars, timerVars, workerVars,
                     amid, clientVars>>
      /\ failed' \subseteq MayFail
  BY DEF UseDangling, MayFail
<1>2. StaysUp
  BY <1>1 DEF StaysUp, connVars
<1>3. LoopInv' /\ BatchOK' /\ LifeInv'
  <2>1. WalkOK'
    BY <1>1, <1>2, WalkKept DEF LifeInv, timerVars
  <2>. QED
    BY <1>1, <1>2, <2>1, SameLife DEF connVars, listVars
<1>4. TypeOK'
  BY <1>1, <1>3 DEF TypeOK, LoopInv, connVars, listVars, timerVars, workerVars, clientVars
<1>. QED
  BY <1>1, <1>3, <1>4 DEF clientVars

-----------------------------------------------------------------------------
(* The walk of the timer.                                                  *)
LEMMA AfterConn ==
  ASSUME NEW s \in Seq(Conn), NEW c \in Elements(s)
  PROVE  After(s, c) \in Conn \cup {None}
<1>1. Place(s, c) \in 1..Len(s)
  BY DEF Place, Elements
<1>. QED
  BY <1>1 DEF After

LEMMA OnTimerStep ==
  ASSUME ServerInv, onTimer, ~Busy(Base)
  PROVE  ServerInv'
<1>. USE DEF ServerInv
<1>1. /\ UNCHANGED <<phase, pending, batch, ran, woken, next, connections, connVars,
                     listVars, doing, armed, workerVars, amid, clientVars, failed>>
      /\ Handled(Base, Tick) /\ it' = IF list = <<>> THEN None ELSE list[1]
  BY DEF onTimer
<1>2. LoopInv' /\ BatchOK'
  <2>1. HandlesOne(Base) /\ QueuesNone
    BY <1>1, Constants DEF HandlesOne, QueuesNone
  <2>. QED
    BY <1>1, <2>1, Constants, LoopHandles
<1>3. \A k \in Loop : Ahead(k)' = Ahead(k) /\ active'[k] \subseteq active[k]
  BY <1>1, Constants DEF Ahead, Handled, LoopInv, LoopTypeOK
<1>4. StaysUp
  BY <1>1 DEF StaysUp, connVars
<1>5. it' \in Conn \cup {None} /\ doing' = "look"
  BY <1>1, Constants DEF TypeOK, Busy, LifeInv, WalkOK
<1>6. LifeInv'
  <2>1. Stages' /\ FunctorsOK' /\ Held'
    BY <1>1, <1>3, <1>4, NothingQueued DEF connVars, listVars, workerVars
  <2>2. ListOK' /\ EventsOK' /\ SendOK'
    BY <1>1, <1>3, <1>4, ListKept, EventsKept, SendKept DEF LifeInv, connVars, listVars, workerVars
  <2>. QED
    BY <1>5, <2>1, <2>2 DEF LifeInv, WalkOK
<1>7. TypeOK'
  BY <1>1, <1>2, <1>5 DEF TypeOK, LoopInv, connVars, listVars, workerVars, clientVars
<1>. QED
  BY <1>1, <1>2, <1>6, <1>7 DEF clientVars

(* No node of the list is that of a dead connection: the timer erases      *)
(* nothing.                                                                *)
LEMMA ListedAlive ==
  ASSUME ServerInv, NEW c \in Elements(list)
  PROVE  /\ c \in Conn /\ c \in connections /\ Alive(c)
         /\ state[c] \notin {"none", "kConnecting"}
<1>1. c \in Conn /\ channel[c] = "on"
  BY DEF ServerInv, LifeInv, ListOK, Up
<1>. QED
  BY <1>1 DEF ServerInv, LifeInv, Stages, Stage, Alive

LEMMA LookStep ==
  ASSUME ServerInv, Look
  PROVE  ServerInv'
<1>. USE DEF ServerInv
<1>1. /\ UNCHANGED <<loopVars, next, connections, connVars, list, context, armed, workerVars,
                     amid, clientVars, failed>>
      /\ doing = "look" /\ it \in Elements(list)
      /\ \/ it' = None /\ doing' = "look"
         \/ it' = it /\ doing' \in {"shutdown", "advance"}
      /\ idle' \subseteq idle
  BY ListedAlive DEF Look
<1>2. StaysUp
  BY <1>1 DEF StaysUp, connVars
<1>3. WalkOK'
  BY <1>1, ListedAlive DEF WalkOK, connVars
<1>4. LoopInv' /\ BatchOK' /\ LifeInv'
  BY <1>1, <1>2, <1>3, SameLife DEF connVars
<1>5. TypeOK'
  BY <1>1, <1>4 DEF TypeOK, LoopInv, connVars, workerVars, clientVars, Doing
<1>. QED
  BY <1>1, <1>4, <1>5 DEF clientVars

LEMMA TestStep ==
  ASSUME ServerInv, NEW step \in Doing \ {"look"}, NEW states, NEW then \in Doing,
         NEW else \in Doing, Test(step, states, then, else)
  PROVE  ServerInv'
<1>. USE DEF ServerInv
<1>1. /\ UNCHANGED <<loopVars, next, connections, connVars, listVars, it, armed, workerVars,
                     amid, clientVars, failed>>
      /\ doing = step /\ doing' \in Doing
  BY DEF Test
<1>2. StaysUp
  BY <1>1 DEF StaysUp, connVars
<1>3. WalkOK'
  BY <1>1 DEF LifeInv, WalkOK, connVars
<1>4. LoopInv' /\ BatchOK' /\ LifeInv'
  BY <1>1, <1>2, <1>3, SameLife DEF connVars, listVars
<1>5. TypeOK'
  BY <1>1, <1>4 DEF TypeOK, LoopInv, connVars, listVars, workerVars, clientVars
<1>. QED
  BY <1>1, <1>4, <1>5 DEF clientVars

(* The connection is still in the map, whatever has become of its state:   *)
(* the functor comes before its connectDestroyed.                          *)
LEMMA DisconnectStep ==
  ASSUME ServerInv, NEW step \in Doing \ {"look"}, NEW then \in Doing,
         NEW fn \in {"shutdownInLoop", "addTimerInLoop"}, Disconnect(step, fn, then)
  PROVE  ServerInv'
<1>. USE DEF ServerInv, LifeInv
<1>1. PICK c \in Conn : /\ c = it /\ c \in connections /\ loop[c] \in Loop \ {Base}
                        /\ state[c] \notin {"none", "kConnecting"}
  BY DEF Disconnect, WalkOK, Stages, Stage
<1>2. PICK l \in Loop \ {Base} : l = loop[c]
  BY <1>1
<1>. DEFINE f == Do(fn, c)
<1>3. /\ UNCHANGED <<phase, active, batch, ran, next, connections, loop, channel, listVars,
                     it, armed, workerVars, amid, clientVars, failed>>
      /\ doing = step /\ doing' = then
      /\ state' = [state EXCEPT ![c] = "kDisconnecting"]
      /\ queueInLoop(l, FALSE, <<f>>)
  BY <1>1, <1>2 DEF Disconnect
<1>4. f \in Functor /\ <<f>> \in Seq(Functor) /\ f.fn = fn /\ f.conn = c
  BY Constants DEF Do, Fn
<1>5. StaysUp /\ state' \in [Conn -> State]
  BY <1>1, <1>3 DEF StaysUp, TypeOK, State
<1>6. LoopInv' /\ BatchOK'
  BY <1>3, <1>4, LoopQueued DEF QueuesSome
<1>7. MayQueue(Ahead(l), f, overtaken')
  <2>1. Do("connectDestroyed", c) \notin Todo(l)
    BY <1>1 DEF FunctorsOK, Placed, Do
  <2>. QED
    BY <1>4, <2>1 DEF MayQueue, Todo
<1>8. Placed(l, f)'
  <2>1. channel[c] # "removed"
    BY <1>1 DEF Stages, Stage
  <2>. QED
    BY <1>2, <1>3, <1>4, <2>1 DEF Placed
<1>. HIDE DEF f
<1>9. Stages' /\ FunctorsOK' /\ Held'
  BY <1>3, <1>4, <1>5, <1>7, <1>8, OneQueued DEF listVars, workerVars
<1>10. ListOK' /\ EventsOK' /\ SendOK'
  BY <1>3, <1>5, ListKept, EventsKept, SendKept DEF listVars, workerVars
<1>11. WalkOK'
  BY <1>1, <1>3 DEF WalkOK, TypeOK
<1>12. TypeOK'
  BY <1>3, <1>5, <1>6 DEF TypeOK, LoopInv, listVars, workerVars, clientVars
<1>. QED
  BY <1>3, <1>6, <1>9, <1>10, <1>11, <1>12 DEF clientVars

LEMMA AdvanceStep ==
  ASSUME ServerInv, Advance
  PROVE  ServerInv'
<1>. USE DEF ServerInv
<1>1. /\ UNCHANGED <<loopVars, next, connections, connVars, listVars, armed, workerVars,
                     amid, clientVars, failed>>
      /\ doing' = "look" /\ it \in Elements(list) /\ it' = After(list, it)
  BY DEF Advance
<1>2. StaysUp
  BY <1>1 DEF StaysUp, connVars
<1>3. WalkOK'
  BY <1>1 DEF WalkOK
<1>4. LoopInv' /\ BatchOK' /\ LifeInv'
  BY <1>1, <1>2, <1>3, SameLife DEF connVars, listVars
<1>5. it' \in Conn \cup {None}
  BY <1>1, AfterConn DEF TypeOK
<1>6. TypeOK'
  BY <1>1, <1>4, <1>5 DEF TypeOK, LoopInv, connVars, listVars, workerVars, clientVars, Doing
<1>. QED
  BY <1>1, <1>4, <1>6 DEF clientVars

LEMMA WalkStep ==
  ASSUME ServerInv, Walk
  PROVE  ServerInv'
<1>1. {"shutdown", "disconnect", "delay", "again", "advance"} \subseteq Doing \ {"look"}
  BY DEF Doing
<1>2. CASE shutdown
  BY <1>1, <1>2, TestStep, DisconnectStep DEF shutdown
<1>3. CASE forceCloseWithDelay
  BY <1>1, <1>3, TestStep, DisconnectStep DEF forceCloseWithDelay
<1>. QED
  BY <1>2, <1>3, LookStep, AdvanceStep DEF Walk

-----------------------------------------------------------------------------
(* The steps of a loop that leave a connection's life as it is.            *)
LEMMA ForceCloseStep ==
  ASSUME ServerInv, NEW l \in Loop, NEW c \in Conn, forceClose(l, c)
  PROVE  ServerInv'
<1>. USE DEF ServerInv
<1>1. /\ UNCHANGED <<phase, batch, ran, next, connections, loop, channel, listVars,
                     it, doing, workerVars, amid, clientVars, failed>>
      /\ Handled(l, CloseTimer(c)) /\ armed' = armed \ {c}
  BY DEF forceClose
<1>2. HandlesOne(l) /\ l = loop[c]
  BY <1>1, Constants DEF HandlesOne, Handled, LifeInv, EventsOK
<1>3. /\ armed' \in SUBSET Conn
      /\ \A k \in Loop : active'[k] \subseteq active[k]
  BY <1>1 DEF TypeOK, Handled, LoopInv, LoopTypeOK
<1>4. StaysUp /\ state' \in [Conn -> State]
  BY <1>1 DEF forceClose, StaysUp, TypeOK, State
<1>7. ListOK' /\ EventsOK' /\ WalkOK' /\ SendOK'
  BY <1>1, <1>3, <1>4, ListKept, EventsKept, WalkKept, SendKept DEF LifeInv, listVars, workerVars
<1>5. LoopInv' /\ BatchOK' /\ LifeInv'
  <2>1. CASE Alive(c) /\ state[c] \in {"kConnected", "kDisconnecting"}
    <3>. DEFINE f == Do("forceCloseInLoop", c)
    <3>1. f \in Functor /\ <<f>> \in Seq(Functor) /\ f.fn = "forceCloseInLoop" /\ f.conn = c
      BY Constants DEF Do, Fn
    <3>2. queueInLoop(l, TRUE, <<f>>)
      BY <2>1 DEF forceClose
    <3>3. LoopInv' /\ BatchOK'
      BY <1>1, <1>2, <3>1, <3>2, LoopHandles DEF QueuesSome
    <3>0. loop[c] \in Loop \ {Base}
      BY <2>1 DEF LifeInv, Stages, Stage
    <3>4. MayQueue(Ahead(l), f, overtaken') /\ Placed(l, f)'
      BY <1>1, <1>2, <3>0, <3>1 DEF MayQueue, Placed, Tied
    <3>. HIDE DEF f
    <3>5. Stages' /\ FunctorsOK' /\ Held'
      BY <1>1, <1>4, <3>1, <3>2, <3>4, OneQueued DEF listVars, workerVars
    <3>. QED
      BY <1>7, <3>3, <3>5 DEF LifeInv
  <2>2. CASE ~(Alive(c) /\ state[c] \in {"kConnected", "kDisconnecting"})
    <3>1. QueuesNone
      BY <2>2 DEF forceClose, QueuesNone
    <3>2. LoopInv' /\ BatchOK'
      BY <1>1, <1>2, <3>1, LoopHandles
    <3>3. \A k \in Loop : Ahead(k)' = Ahead(k)
      BY <1>1, <3>1 DEF QueuesNone, Ahead
    <3>4. Stages' /\ FunctorsOK' /\ Held'
      BY <1>1, <1>4, <3>3, NothingQueued DEF listVars, workerVars
    <3>. QED
      BY <1>7, <3>2, <3>4 DEF LifeInv
  <2>. QED
    BY <2>1, <2>2
<1>6. TypeOK'
  BY <1>1, <1>3, <1>4, <1>5 DEF TypeOK, LoopInv, listVars, workerVars, clientVars
<1>. QED
  BY <1>1, <1>5, <1>6 DEF clientVars

LEMMA GentleRun ==
  ASSUME ServerInv, NEW l \in Loop, NEW f, Running(l, f),
         f.fn \in Raw \cup {"addTimerInLoop"}, armed' \in SUBSET Conn,
         failed' \subseteq MayFail,
         UNCHANGED <<phase, active, pending, batch, woken, next, connections, connVars,
                     listVars, it, doing, workerVars, amid, clientVars>>
  PROVE  ServerInv'
<1>. USE DEF ServerInv
<1>1. LoopInv' /\ BatchOK'
  <2>1. RunsOne(l) /\ QueuesNone
    BY DEF RunsOne, QueuesNone
  <2>. QED
    BY <2>1, LoopRuns
<1>2. /\ Once(Ahead(l))' /\ Ordered(Ahead(l), overtaken)' /\ Todo(l)' \subseteq Todo(l)
      /\ \A g \in Todo(l) : g = f \/ g \in Todo(l)'
      /\ \A k \in Loop \ {l} : ran'[k] = ran[k]
  BY RanAt DEF LoopInv, LifeInv, FunctorsOK, workerVars
<1>3. \A k \in Loop \ {l} : Once(Ahead(k))' /\ Ordered(Ahead(k), overtaken)' /\ Todo(k)' = Todo(k)
  <2>1. \A k \in Loop \ {l} : Ahead(k)' = Ahead(k)
    BY <1>2 DEF Ahead
  <2>. QED
    BY <2>1, SameAt DEF LifeInv, FunctorsOK, workerVars
<1>4. FunctorsOK'
  <2>1. ASSUME NEW k \in Loop, NEW g \in Todo(k)
        PROVE  Placed(k, g)'
    BY <2>1, PlacedSame DEF LifeInv, FunctorsOK, connVars, workerVars
  <2>. QED
    BY <1>2, <1>3, <2>1 DEF FunctorsOK
<1>5. Held'
  <2>1. \A c \in Conn : Do("connectDestroyed", c) # f
    BY DEF Do, Raw
  <2>. QED
    BY <1>2, <1>3, <2>1 DEF LifeInv, Held, connVars
<1>6. Stages' /\ ListOK' /\ EventsOK' /\ WalkOK' /\ SendOK'
  BY DEF LifeInv, connVars, listVars, workerVars, Stages, Stage, ListOK, Up, EventsOK,
         WalkOK, SendOK
<1>7. TypeOK'
  BY <1>1 DEF TypeOK, LoopInv, connVars, listVars, workerVars, clientVars
<1>. QED
  BY <1>1, <1>4, <1>5, <1>6, <1>7 DEF LifeInv, clientVars

LEMMA InLoopStep ==
  ASSUME ServerInv, NEW l \in Loop, NEW c \in Conn, InLoop(l, c)
  PROVE  ServerInv'
<1>1. PICK fn \in Raw : Running(l, Do(fn, c))
  BY DEF InLoop
<1>2. Do(fn, c).fn \in Raw \cup {"addTimerInLoop"}
  BY DEF Do
<1>3. armed' \in SUBSET Conn
  BY DEF InLoop, timerVars, ServerInv, TypeOK
<1>4. failed' \subseteq MayFail
  BY DEF InLoop, Fails, MayFail, ServerInv
<1>. QED
  BY <1>1, <1>2, <1>3, <1>4, GentleRun DEF InLoop, timerVars

LEMMA AddTimerStep ==
  ASSUME ServerInv, NEW l \in Loop, NEW c \in Conn, addTimerInLoop(l, c)
  PROVE  ServerInv'
<1>1. Do("addTimerInLoop", c).fn \in Raw \cup {"addTimerInLoop"}
  BY DEF Do
<1>2. armed' \in SUBSET Conn /\ failed' \subseteq MayFail
  BY DEF addTimerInLoop, ServerInv, TypeOK
<1>. QED
  BY <1>1, <1>2, GentleRun DEF addTimerInLoop

-----------------------------------------------------------------------------
(* The steps of a connection's life.                                       *)
LEMMA NewConnectionStep ==
  ASSUME ServerInv, NEW c \in Conn, newConnection(c)
  PROVE  ServerInv'
<1>. USE DEF ServerInv
<1>. DEFINE f == Do("connectEstablished", c)
<1>1. PICK l \in Loop \ {Base} : l = IOLoops[next]
  BY Constants DEF TypeOK
<1>2. /\ UNCHANGED <<phase, batch, ran, channel, listVars, timerVars, workerVars, amid,
                     clientVars, failed>>
      /\ Handled(Base, Acceptor) /\ state[c] = "none"
      /\ connections' = connections \cup {c}
      /\ state' = [state EXCEPT ![c] = "kConnecting"]
      /\ loop' = [loop EXCEPT ![c] = l]
      /\ queueInLoop(l, FALSE, <<f>>)
  BY <1>1 DEF newConnection
<1>3. f \in Functor /\ <<f>> \in Seq(Functor) /\ f.fn = "connectEstablished" /\ f.conn = c
  BY Constants DEF Do, Fn
<1>4. LoopInv' /\ BatchOK'
  <2>1. HandlesOne(Base)
    BY <1>2, Constants DEF HandlesOne
  <2>. QED
    BY <1>2, <1>3, <2>1, Constants, LoopHandles DEF QueuesSome
<1>5. /\ state'[c] = "kConnecting" /\ loop'[c] = l /\ channel[c] = "new" /\ loop[c] = None
      /\ amid[c] = "none"
      /\ \A d \in Conn \ {c} : state'[d] = state[d] /\ loop'[d] = loop[d]
      /\ Up' = Up
  BY <1>2 DEF TypeOK, LifeInv, Stages, Stage, Up
<1>6. \A k \in Loop : \A g \in Todo(k) : g.conn \in Conn \ {c} /\ Placed(k, g)
  BY <1>2, TodoFunctor, PlacedMade DEF LifeInv, FunctorsOK, LoopInv
<1>7. MayQueue(Ahead(l), f, overtaken')
  BY <1>3, <1>6 DEF MayQueue, Todo, Tied
<1>. HIDE DEF f
<1>8. Once(Ahead(l))' /\ Ordered(Ahead(l), overtaken)' /\ Todo(l)' = Todo(l) \cup {f}
  <2>1. pending'[l] = pending[l] \o <<f>>
    BY <1>2 DEF queueInLoop, LoopInv, LoopTypeOK
  <2>. QED
    BY <1>2, <1>3, <1>7, <2>1, QueuedAt DEF LifeInv, FunctorsOK, LoopInv, workerVars
<1>9. \A k \in Loop \ {l} : Once(Ahead(k))' /\ Ordered(Ahead(k), overtaken)' /\ Todo(k)' = Todo(k)
  <2>1. \A k \in Loop \ {l} : Ahead(k)' = Ahead(k)
    BY <1>2 DEF queueInLoop, LoopInv, LoopTypeOK, Ahead
  <2>. QED
    BY <1>2, <2>1, SameAt DEF LifeInv, FunctorsOK, workerVars
<1>10. FunctorsOK'
  <2>1. ASSUME NEW k \in Loop, NEW g \in Todo(k)
        PROVE  Placed(k, g)'
    BY <1>2, <1>5, <1>6, PlacedSame DEF workerVars
  <2>2. Placed(l, f)'
    BY <1>3, <1>5 DEF Placed, Tied
  <2>. QED
    BY <1>8, <1>9, <2>1, <2>2 DEF FunctorsOK
<1>11. Stages' /\ Held'
  <2>1. Stage(c)'
    BY <1>2, <1>5 DEF Stage
  <2>2. \A d \in Conn \ {c} : Stage(d)'
    BY <1>2, <1>5 DEF LifeInv, Stages, Stage, listVars
  <2>3. Held'
    BY <1>2, <1>5, <1>8, <1>9 DEF LifeInv, Held
  <2>. QED
    BY <2>1, <2>2, <2>3 DEF Stages
<1>12. ListOK'
  BY <1>2, <1>5 DEF LifeInv, ListOK, listVars
<1>15. WalkOK' /\ SendOK'
  <2>1. WalkOK'
    BY <1>2, <1>5 DEF LifeInv, WalkOK, timerVars
  <2>2. SendOK'
    BY <1>2, <1>5, Constants DEF LifeInv, SendOK, workerVars
  <2>. QED
    BY <2>1, <2>2
<1>13. EventsOK'
  <2>1. \A k \in Loop : active'[k] \subseteq active[k]
    BY <1>2 DEF Handled, LoopInv, LoopTypeOK
  <2>2. None \notin Loop
    BY Constants
  <2>. QED
    BY <1>2, <1>5, <2>1, <2>2 DEF LifeInv, EventsOK, Up
<1>14. TypeOK'
  <2>1. next' \in 1..Len(IOLoops)
    <3>1. Len(IOLoops) \in Nat /\ next \in 1..Len(IOLoops)
      BY ServerAssumption DEF TypeOK
    <3>2. next' = IF next = Len(IOLoops) THEN 1 ELSE next + 1
      BY DEF newConnection
    <3>. QED
      BY <3>1, <3>2
  <2>2. /\ connections' \in SUBSET Conn /\ state' \in [Conn -> State]
        /\ loop' \in [Conn -> Loop \cup {None}]
    BY <1>2 DEF TypeOK, State
  <2>. QED
    BY <1>2, <1>4, <2>1, <2>2 DEF TypeOK, LoopInv, listVars, timerVars, workerVars, clientVars
<1>. QED
  BY <1>2, <1>4, <1>10, <1>11, <1>12, <1>13, <1>14, <1>15 DEF LifeInv, clientVars

LEMMA OnMessageStep ==
  ASSUME ServerInv, NEW l \in Loop, NEW c \in Conn, Handled(l, Socket(c)),
         inbox[c] > 0, onMessage(c), ~Busy(l),
         UNCHANGED <<pending, woken, connVars, working, sending, overtaken, phase, batch, ran,
                     next, connections, timerVars, peer, sent>>
  PROVE  ServerInv'
<1>. USE DEF ServerInv
<1>1. /\ c \in Up /\ c \in context /\ c \in Elements(list) /\ l = loop[c]
      /\ amid[c] = "none" /\ amid' = [amid EXCEPT ![c] = "spliced"]
  BY DEF Handled, LifeInv, EventsOK, Stages, Stage, ListOK, Up, Busy, onMessage
<1>0. StaysUp
  BY <1>1 DEF StaysUp, connVars, TypeOK, onMessage, Up
<1>2. LoopInv' /\ BatchOK'
  <2>1. HandlesOne(l) /\ QueuesNone
    BY Constants DEF HandlesOne, QueuesNone
  <2>. QED
    BY <2>1, LoopHandles
<1>3. \A k \in Loop : Ahead(k)' = Ahead(k)
  BY DEF Ahead
<1>4. Stages' /\ FunctorsOK' /\ Held'
  BY <1>0, <1>3, NothingQueued DEF connVars, onMessage
<1>5. ListOK' /\ list' \in Seq(Conn)
  <2>1. /\ Without(list, c) \in Seq(Conn) /\ Injective(Without(list, c))
        /\ Elements(Without(list, c)) = Elements(list) \ {c}
    BY WithoutElements DEF LifeInv, ListOK, TypeOK
  <2>2. /\ list' \in Seq(Conn) /\ Injective(list')
        /\ Elements(list') = (Elements(list) \ {c}) \cup {c}
    BY <2>1, AppendKeepsInjective DEF onMessage
  <2>3. Up' = Up
    BY DEF Up, connVars
  <2>. QED
    <3>1. Elements(list') = Up' /\ Injective(list')
      BY <1>1, <2>2, <2>3 DEF LifeInv, ListOK
    <3>. QED
      BY <2>2, <3>1 DEF ListOK, Injective, Elements
<1>6. EventsOK'
  BY <1>0, EventsKept DEF LifeInv, connVars, Handled, LoopInv, LoopTypeOK
<1>11. WalkOK' /\ SendOK'
  BY <1>0, WalkKept, SendKept DEF LifeInv, timerVars, connVars
<1>7. failed' = failed
  BY <1>1 DEF onMessage, DownAsserts, Fails
<1>8. inbox' \in [Conn -> 0..MaxPackets] /\ \A x \in Conn : inbox'[x] <= sent'[x]
  <2>1. /\ inbox \in [Conn -> 0..MaxPackets] /\ sent \in [Conn -> 0..MaxPackets]
        /\ MaxPackets \in Nat /\ \A x \in Conn : inbox[x] <= sent[x]
    BY ServerAssumption DEF TypeOK
  <2>2. inbox' = [inbox EXCEPT ![c] = inbox[c] - 1]
    BY DEF onMessage
  <2>. QED
    BY <2>1, <2>2
<1>9. jobs' \in Seq(Conn) /\ Len(jobs') <= MaxQueueSize
  BY ServerAssumption DEF onMessage, TypeOK
<1>10. TypeOK'
  BY <1>1, <1>2, <1>5, <1>8, <1>9 DEF TypeOK, LoopInv, connVars, timerVars, onMessage
<1>. QED
  BY <1>2, <1>4, <1>5, <1>6, <1>7, <1>8, <1>10, <1>11 DEF LifeInv

LEMMA RunsPlaced ==
  ASSUME ServerInv, NEW l \in Loop, NEW f, Running(l, f)
  PROVE  f \in Todo(l) /\ Placed(l, f)
<1>. DEFINE run == SubSeq(batch[l], ran[l] + 1, Len(batch[l]))
<1>1. /\ batch[l] \in Seq(Functor) /\ pending[l] \in Seq(Functor) /\ ran[l] \in Nat
      /\ ran[l] < Len(batch[l]) /\ f = batch[l][ran[l] + 1]
  BY DEF Running, Current, ServerInv, LoopInv, LoopTypeOK
<1>2. run # <<>> /\ run[1] = f
  BY <1>1, SubSeqTail
<1>3. run \in Seq(Functor) /\ Ahead(l) = run \o pending[l]
  BY AheadIs DEF ServerInv, LoopInv
<1>. HIDE DEF run
<1>4. f \in Elements(run)
  BY <1>2, <1>3, TailElements
<1>5. f \in Todo(l)
  BY <1>1, <1>3, <1>4, JoinElements DEF Todo
<1>. QED
  BY <1>5 DEF ServerInv, LifeInv, FunctorsOK

(* handleClose sets the state and leaves the rest to CloseCallbacks; the   *)
(* state of a closed connection may be set again.                          *)
LEMMA CloseBegins ==
  ASSUME ServerInv, NEW c \in Conn, handleClose(c),
         state[c] \in {"kConnected", "kDisconnecting"}, amid[c] = "none",
         UNCHANGED <<connections, loop, channel, list, context, workerVars, it, doing>>,
         \A k \in Loop : active'[k] \subseteq active[k] /\ Socket(c) \notin active'[k],
         \A k \in Loop : /\ Once(Ahead(k))' /\ Ordered(Ahead(k), overtaken)'
                         /\ Todo(k)' \subseteq Todo(k),
         \A k \in Loop, d \in Conn :
           Do("connectDestroyed", d) \in Todo(k) => Do("connectDestroyed", d) \in Todo(k)'
  PROVE  /\ LifeInv' /\ failed' = failed /\ state' \in [Conn -> State]
         /\ amid' \in [Conn -> {"none", "pushed", "spliced", "closed"}]
<1>. USE DEF ServerInv, LifeInv
<1>1. /\ state' \in [Conn -> State] /\ state'[c] = "kDisconnected"
      /\ amid' \in [Conn -> {"none", "pushed", "spliced", "closed"}] /\ amid'[c] = "closed"
      /\ \A d \in Conn \ {c} : state'[d] = state[d] /\ amid'[d] = amid[d]
      /\ failed' = failed
  BY DEF handleClose, TypeOK, State, Fails
<1>2. Stages'
  <2>1. Stage(c)'
    BY <1>1 DEF Stages, Stage
  <2>2. \A d \in Conn \ {c} : Stage(d)'
    BY <1>1 DEF Stages, Stage
  <2>. QED
    BY <2>1, <2>2 DEF Stages
<1>3. FunctorsOK'
  <2>1. ASSUME NEW k \in Loop, NEW g \in Todo(k)
        PROVE  Placed(k, g)'
    <3>1. g.conn \in Conn /\ Placed(k, g)
      BY TodoFunctor DEF FunctorsOK, LoopInv
    <3>2. CASE g.conn = c
      BY <3>1, <3>2 DEF Placed, Tied, workerVars
    <3>3. CASE g.conn # c
      BY <1>1, <3>1, <3>3, PlacedSame DEF workerVars
    <3>. QED
      BY <3>2, <3>3
  <2>. QED
    BY <2>1 DEF FunctorsOK
<1>4. Held'
  BY DEF Held
<1>5. ListOK' /\ SendOK'
  BY DEF ListOK, Up, SendOK, workerVars
<1>6. EventsOK'
  BY <1>1 DEF EventsOK, Up
<1>7. WalkOK'
  BY <1>1 DEF WalkOK
<1>. QED
  BY <1>1, <1>2, <1>3, <1>4, <1>5, <1>6, <1>7

LEMMA EndOfStreamStep ==
  ASSUME ServerInv, NEW l \in Loop, NEW c \in Conn, Handled(l, Socket(c)), handleClose(c),
         ~Busy(l), UNCHANGED <<loop, channel, listVars, workerVars, inbox, phase, pending, batch,
                               ran, woken, next, connections, timerVars, peer, sent>>
  PROVE  ServerInv'
<1>. USE DEF ServerInv
<1>1. /\ c \in Up /\ l = loop[c] /\ amid[c] = "none"
      /\ state[c] \in {"kConnected", "kDisconnecting"}
  BY DEF Handled, LifeInv, EventsOK, Busy, Stages, Stage, Up
<1>2. LoopInv' /\ BatchOK'
  <2>1. HandlesOne(l) /\ QueuesNone
    BY Constants DEF HandlesOne, QueuesNone
  <2>. QED
    BY <2>1, LoopHandles
<1>3. \A k \in Loop : active'[k] \subseteq active[k] /\ Socket(c) \notin active'[k]
  BY <1>1 DEF Handled, LoopInv, LoopTypeOK, LifeInv, EventsOK
<1>4. \A k \in Loop : Once(Ahead(k))' /\ Ordered(Ahead(k), overtaken)' /\ Todo(k)' = Todo(k)
  <2>1. \A k \in Loop : Ahead(k)' = Ahead(k)
    BY DEF Ahead
  <2>. QED
    BY <2>1, SameAt DEF LifeInv, FunctorsOK, workerVars
<1>5. /\ LifeInv' /\ failed' = failed /\ state' \in [Conn -> State]
      /\ amid' \in [Conn -> {"none", "pushed", "spliced", "closed"}]
  BY <1>1, <1>3, <1>4, CloseBegins DEF listVars, timerVars
<1>6. TypeOK'
  BY <1>2, <1>5 DEF TypeOK, LoopInv, listVars, workerVars, timerVars
<1>. QED
  BY <1>2, <1>5, <1>6

LEMMA AfterRun ==
  ASSUME ServerInv, NEW l \in Loop, NEW f, Running(l, f), UNCHANGED <<pending, batch, overtaken>>
  PROVE  /\ \A k \in Loop : /\ Once(Ahead(k))' /\ Ordered(Ahead(k), overtaken)'
                            /\ Todo(k)' \subseteq Todo(k)
         /\ \A k \in Loop : \A g \in Todo(k) : (k = l /\ g = f) \/ g \in Todo(k)'
<1>1. /\ Once(Ahead(l))' /\ Ordered(Ahead(l), overtaken)' /\ Todo(l)' \subseteq Todo(l)
      /\ \A g \in Todo(l) : g = f \/ g \in Todo(l)'
      /\ \A k \in Loop \ {l} : ran'[k] = ran[k]
  BY RanAt DEF ServerInv, LoopInv, LifeInv, FunctorsOK
<1>2. \A k \in Loop \ {l} : Once(Ahead(k))' /\ Ordered(Ahead(k), overtaken)' /\ Todo(k)' = Todo(k)
  <2>1. \A k \in Loop \ {l} : Ahead(k)' = Ahead(k)
    BY <1>1 DEF Ahead
  <2>. QED
    BY <2>1, SameAt DEF ServerInv, LifeInv, FunctorsOK
<1>. QED
  BY <1>1, <1>2

LEMMA ForceCloseInLoopStep ==
  ASSUME ServerInv, NEW l \in Loop, NEW c \in Conn, forceCloseInLoop(l, c), ~Busy(l)
  PROVE  ServerInv'
<1>. USE DEF ServerInv
<1>. DEFINE f == Do("forceCloseInLoop", c)
<1>1. /\ UNCHANGED <<phase, active, pending, batch, woken, next, connections, loop, channel,
                     listVars, timerVars, workerVars, clientVars>>
      /\ Running(l, f) /\ f.fn = "forceCloseInLoop" /\ f.conn = c
  BY DEF forceCloseInLoop, Do
<1>. HIDE DEF f
<1>2. LoopInv' /\ BatchOK'
  BY <1>1, LoopRuns DEF RunsOne, QueuesNone
<1>3. /\ \A k \in Loop : /\ Once(Ahead(k))' /\ Ordered(Ahead(k), overtaken)'
                         /\ Todo(k)' \subseteq Todo(k)
      /\ \A k \in Loop : \A g \in Todo(k) : (k = l /\ g = f) \/ g \in Todo(k)'
  BY <1>1, AfterRun DEF workerVars
<1>4. \A k \in Loop, d \in Conn :
        Do("connectDestroyed", d) \in Todo(k) => Do("connectDestroyed", d) \in Todo(k)'
  <2>1. \A d \in Conn : Do("connectDestroyed", d) # f
    BY <1>1 DEF Do
  <2>. QED
    BY <1>3, <2>1
<1>5. l = loop[c]
  BY <1>1, RunsPlaced DEF Placed
<1>6. CASE state[c] \in {"kConnected", "kDisconnecting"}
  <2>1. handleClose(c) /\ amid[c] = "none"
    BY <1>5, <1>6 DEF forceCloseInLoop, Busy
  <2>2. \A k \in Loop : active'[k] \subseteq active[k] /\ Socket(c) \notin active'[k]
    <3>1. active[l] = {}
      BY <1>1 DEF Running, LoopInv, EventsInPhase
    <3>. QED
      BY <1>1, <1>5, <3>1 DEF LifeInv, EventsOK
  <2>3. /\ LifeInv' /\ failed' = failed /\ state' \in [Conn -> State]
        /\ amid' \in [Conn -> {"none", "pushed", "spliced", "closed"}]
    BY <1>1, <1>3, <1>4, <1>6, <2>1, <2>2, CloseBegins DEF listVars, timerVars
  <2>4. TypeOK'
    BY <1>1, <1>2, <2>3 DEF TypeOK, LoopInv, listVars, timerVars, workerVars, clientVars
  <2>. QED
    BY <1>1, <1>2, <2>3, <2>4 DEF clientVars
<1>7. CASE state[c] \notin {"kConnected", "kDisconnecting"}
  <2>1. UNCHANGED <<state, amid, failed>>
    BY <1>7 DEF forceCloseInLoop
  <2>2. FunctorsOK'
    <3>1. ASSUME NEW k \in Loop, NEW g \in Todo(k)
          PROVE  Placed(k, g)'
      BY <1>1, <2>1, <3>1, PlacedSame DEF LifeInv, FunctorsOK, workerVars
    <3>. QED
      BY <1>3, <3>1 DEF FunctorsOK
  <2>3. Held'
    BY <1>1, <1>4 DEF LifeInv, Held
  <2>4. Stages' /\ ListOK' /\ EventsOK' /\ WalkOK' /\ SendOK'
    BY <1>1, <2>1 DEF LifeInv, listVars, timerVars, workerVars, Stages, Stage, ListOK, Up,
                      EventsOK, WalkOK, SendOK
  <2>5. TypeOK'
    BY <1>1, <1>2, <2>1 DEF TypeOK, LoopInv, listVars, timerVars, workerVars, clientVars
  <2>. QED
    BY <1>1, <1>2, <2>1, <2>2, <2>3, <2>4, <2>5 DEF LifeInv, clientVars
<1>. QED
  BY <1>6, <1>7

(* The rest of handleClose: the channel is disabled, the node leaves the   *)
(* list, and the removal from the map is queued.                           *)
LEMMA CloseCallbacksStep ==
  ASSUME ServerInv, NEW c \in Conn, CloseCallbacks(c)
  PROVE  ServerInv'
<1>. USE DEF ServerInv
<1>. DEFINE f == Do("removeConnectionInLoop", c)
<1>1. /\ UNCHANGED <<phase, active, batch, ran, next, connections, state, loop, timerVars,
                     workerVars, clientVars, context, idle>>
      /\ amid[c] = "closed" /\ c \in Elements(list)
      /\ amid' = [amid EXCEPT ![c] = "none"]
      /\ channel' = [channel EXCEPT ![c] = "off"]
      /\ list' = Without(list, c)
      /\ queueInLoop(Base, FALSE, <<f>>)
  BY DEF CloseCallbacks, onConnectionDown
<1>2. /\ c \in Up /\ c \in connections /\ c \in context /\ channel[c] = "on"
      /\ loop[c] \in Loop \ {Base}
      /\ state[c] \in {"kConnected", "kDisconnecting", "kDisconnected"}
      /\ state[c] # "kConnected"
  BY <1>1 DEF LifeInv, Stages, Stage, ListOK, Up
<1>3. /\ channel' \in [Conn -> {"new", "on", "off", "removed"}] /\ channel'[c] = "off"
      /\ amid' \in [Conn -> {"none", "pushed", "spliced", "closed"}] /\ amid'[c] = "none"
      /\ \A d \in Conn \ {c} : channel'[d] = channel[d] /\ amid'[d] = amid[d]
  BY <1>1 DEF TypeOK
<1>4. /\ f \in Functor /\ <<f>> \in Seq(Functor) /\ f.fn = "removeConnectionInLoop"
      /\ f.conn = c /\ Base \in Loop
  BY Constants DEF Do, Fn
<1>5. LoopInv' /\ BatchOK'
  BY <1>1, <1>4, LoopQueued DEF QueuesSome
<1>6. /\ pending'[Base] = pending[Base] \o <<f>>
      /\ \A k \in Loop \ {Base} : pending'[k] = pending[k]
  BY <1>1, <1>4 DEF queueInLoop, LoopInv, LoopTypeOK
<1>7. MayQueue(Ahead(Base), f, overtaken')
  <2>1. f \notin Todo(Base)
    BY <1>2, <1>4 DEF LifeInv, FunctorsOK, Placed
  <2>. QED
    BY <1>4, <2>1 DEF MayQueue, Todo, Tied
<1>. HIDE DEF f
<1>8. Once(Ahead(Base))' /\ Ordered(Ahead(Base), overtaken)' /\ Todo(Base)' = Todo(Base) \cup {f}
  BY <1>1, <1>4, <1>6, <1>7, QueuedAt DEF LifeInv, FunctorsOK, LoopInv, workerVars
<1>9. \A k \in Loop \ {Base} : Once(Ahead(k))' /\ Ordered(Ahead(k), overtaken)' /\ Todo(k)' = Todo(k)
  <2>1. \A k \in Loop \ {Base} : Ahead(k)' = Ahead(k)
    BY <1>1, <1>6 DEF Ahead
  <2>. QED
    BY <1>1, <2>1, SameAt DEF LifeInv, FunctorsOK, workerVars
<1>10. FunctorsOK'
  <2>1. ASSUME NEW k \in Loop, NEW g \in Todo(k)
        PROVE  Placed(k, g)'
    <3>1. g.conn \in Conn /\ Placed(k, g)
      BY TodoFunctor DEF LifeInv, FunctorsOK, LoopInv
    <3>2. CASE g.conn = c
      BY <1>1, <1>2, <1>3, <3>1, <3>2 DEF Placed, Tied, workerVars
    <3>3. CASE g.conn # c
      BY <1>1, <1>3, <3>1, <3>3, PlacedSame DEF workerVars
    <3>. QED
      BY <3>2, <3>3
  <2>2. Placed(Base, f)'
    BY <1>1, <1>2, <1>3, <1>4 DEF Placed, Tied
  <2>. QED
    BY <1>8, <1>9, <2>1, <2>2 DEF FunctorsOK
<1>11. Held'
  BY <1>1, <1>2, <1>3, <1>8, <1>9 DEF LifeInv, Held
<1>12. Stages'
  <2>1. Stage(c)'
    BY <1>1, <1>2, <1>3 DEF Stage
  <2>2. \A d \in Conn \ {c} : Stage(d)'
    BY <1>1, <1>3 DEF LifeInv, Stages, Stage
  <2>. QED
    BY <2>1, <2>2 DEF Stages
<1>13. Up' = Up \ {c}
  BY <1>2, <1>3 DEF Up
<1>14. ListOK' /\ list' \in Seq(Conn)
  <2>1. /\ Without(list, c) \in Seq(Conn) /\ Injective(Without(list, c))
        /\ Elements(Without(list, c)) = Elements(list) \ {c}
    BY WithoutElements DEF LifeInv, ListOK, TypeOK
  <2>. QED
    <3>1. Elements(list') = Up' /\ Injective(list')
      BY <1>1, <1>13, <2>1 DEF LifeInv, ListOK
    <3>. QED
      BY <1>1, <2>1, <3>1 DEF ListOK, Injective, Elements
<1>15. EventsOK'
  BY <1>1, <1>3, <1>13 DEF LifeInv, EventsOK
<1>16. WalkOK' /\ SendOK'
  BY <1>1 DEF LifeInv, WalkOK, SendOK, timerVars, workerVars
<1>17. failed' = failed
  BY <1>1, <1>2 DEF CloseCallbacks, DownAsserts, Fails
<1>18. TypeOK'
  BY <1>1, <1>3, <1>5, <1>14 DEF TypeOK, LoopInv, timerVars, workerVars, clientVars
<1>. QED
  BY <1>1, <1>5, <1>10, <1>11, <1>12, <1>14, <1>15, <1>16, <1>17, <1>18 DEF LifeInv, clientVars

LEMMA FunctorSame ==
  ASSUME NEW f \in Functor, NEW g \in Functor, f.fn = g.fn, f.conn = g.conn
  PROVE  f = g
BY ServerAssumption

LEMMA OthersWait ==
  ASSUME ServerInv, NEW l \in Loop, NEW f, Running(l, f), UNCHANGED <<batch, overtaken>>
  PROVE  /\ \A k \in Loop \ {l} : ran'[k] = ran[k]
         /\ \A k \in Loop \ {l} : pending'[k] = pending[k] =>
              Once(Ahead(k))' /\ Ordered(Ahead(k), overtaken)' /\ Todo(k)' = Todo(k)
<1>1. \A k \in Loop \ {l} : ran'[k] = ran[k]
  BY DEF Running, ServerInv, LoopInv, LoopTypeOK
<1>2. \A k \in Loop \ {l} : pending'[k] = pending[k] => Ahead(k)' = Ahead(k)
  BY <1>1 DEF Ahead
<1>. QED
  BY <1>1, <1>2, SameAt DEF ServerInv, LifeInv, FunctorsOK

LEMMA ConnectEstablishedStep ==
  ASSUME ServerInv, NEW l \in Loop, NEW c \in Conn, connectEstablished(l, c)
  PROVE  ServerInv'
<1>. USE DEF ServerInv
<1>. DEFINE f == Do("connectEstablished", c)
<1>1. /\ UNCHANGED <<phase, active, pending, batch, woken, next, connections, loop,
                     context, idle, timerVars, workerVars, clientVars>>
      /\ Running(l, f) /\ f.fn = "connectEstablished" /\ f.conn = c
      /\ state' = [state EXCEPT ![c] = "kConnected"]
      /\ channel' = [channel EXCEPT ![c] = "on"]
      /\ list' = Append(list, c) /\ amid' = [amid EXCEPT ![c] = "pushed"]
  BY DEF connectEstablished, Do
<1>. HIDE DEF f
<1>2. l = loop[c] /\ state[c] = "kConnecting"
  BY <1>1, RunsPlaced DEF Placed
<1>3. loop[c] \in Loop \ {Base} /\ c \in connections /\ c \notin Elements(list) /\ c \notin Up
      /\ channel[c] = "new"
  BY <1>2, Constants DEF LifeInv, Stages, Stage, ListOK, Up
<1>4. /\ state' \in [Conn -> State] /\ state'[c] = "kConnected"
      /\ channel' \in [Conn -> {"new", "on", "off", "removed"}] /\ channel'[c] = "on"
      /\ amid' \in [Conn -> {"none", "pushed", "spliced", "closed"}] /\ amid'[c] = "pushed"
      /\ \A d \in Conn \ {c} : /\ state'[d] = state[d] /\ channel'[d] = channel[d]
                              /\ amid'[d] = amid[d]
  BY <1>1 DEF TypeOK, State
<1>5. Up' = Up \cup {c}
  BY <1>4 DEF Up
<1>6. LoopInv' /\ BatchOK'
  BY <1>1, LoopRuns DEF RunsOne, QueuesNone
<1>7. /\ Once(Ahead(l))' /\ Ordered(Ahead(l), overtaken)' /\ Todo(l)' \subseteq Todo(l)
      /\ \A g \in Todo(l) : g = f \/ g \in Todo(l)'
      /\ f \notin Todo(l)' /\ f \in Functor
  BY <1>1, RanAt DEF LoopInv, LifeInv, FunctorsOK, workerVars
<1>8. \A k \in Loop \ {l} : Once(Ahead(k))' /\ Ordered(Ahead(k), overtaken)' /\ Todo(k)' = Todo(k)
  BY <1>1, OthersWait DEF workerVars
<1>9. ASSUME NEW k \in Loop, NEW g \in Todo(k)'
      PROVE  Placed(k, g)'
  <2>1. g \in Todo(k) /\ Placed(k, g) /\ g \in Functor /\ g.conn \in Conn /\ (g = f => k # l)
    BY <1>7, <1>8, TodoFunctor DEF LifeInv, FunctorsOK, LoopInv
  <2>2. CASE g.conn = c
    <3>1. g.fn # "connectEstablished"
      <4>1. SUFFICES ASSUME g.fn = "connectEstablished"
                     PROVE  FALSE
        OBVIOUS
      <4>2. g = f
        BY <1>1, <1>7, <2>1, <2>2, <4>1, FunctorSame
      <4>. QED
        BY <1>2, <2>1, <2>2, <4>1, <4>2 DEF Placed
    <3>. QED
      BY <1>1, <1>2, <1>3, <1>4, <2>1, <2>2, <3>1 DEF Placed, Tied, workerVars
  <2>3. CASE g.conn # c
    BY <1>1, <1>4, <2>1, <2>3, PlacedSame DEF workerVars
  <2>. QED
    BY <2>2, <2>3
<1>10. FunctorsOK'
  BY <1>7, <1>8, <1>9 DEF FunctorsOK
<1>11. Held'
  <2>1. \A d \in Conn : Do("connectDestroyed", d) # f
    BY <1>1 DEF Do
  <2>. QED
    BY <1>1, <1>3, <1>4, <1>7, <1>8, <2>1 DEF LifeInv, Held
<1>12. Stages'
  <2>1. Stage(c)'
    BY <1>1, <1>3, <1>4 DEF Stage
  <2>2. \A d \in Conn \ {c} : Stage(d)'
    BY <1>1, <1>4 DEF LifeInv, Stages, Stage
  <2>. QED
    BY <2>1, <2>2 DEF Stages
<1>13. ListOK' /\ list' \in Seq(Conn)
  <2>1. /\ Append(list, c) \in Seq(Conn) /\ Injective(Append(list, c))
        /\ Elements(Append(list, c)) = Elements(list) \cup {c}
    BY <1>3, AppendKeepsInjective DEF LifeInv, ListOK, TypeOK
  <2>. QED
    BY <1>1, <1>5, <2>1 DEF LifeInv, ListOK, Injective, Elements
<1>14. EventsOK'
  BY <1>1, <1>4, <1>5 DEF LifeInv, EventsOK
<1>17. WalkOK' /\ SendOK'
  BY <1>1, <1>2, <1>4 DEF LifeInv, WalkOK, SendOK, timerVars, workerVars
<1>15. failed' = failed
  BY <1>2 DEF connectEstablished, Fails
<1>16. TypeOK'
  BY <1>1, <1>4, <1>6, <1>13 DEF TypeOK, LoopInv, timerVars, workerVars, clientVars
<1>. QED
  BY <1>1, <1>6, <1>10, <1>11, <1>12, <1>13, <1>14, <1>15, <1>16, <1>17 DEF LifeInv, clientVars

LEMMA RemoveConnectionStep ==
  ASSUME ServerInv, NEW l \in Loop, NEW c \in Conn, removeConnectionInLoop(l, c), ~Busy(l)
  PROVE  ServerInv'
<1>. USE DEF ServerInv
<1>. DEFINE f == Do("removeConnectionInLoop", c)
            g == Do("connectDestroyed", c)
<1>1. /\ UNCHANGED <<phase, active, batch, next, connVars, listVars, timerVars, workerVars,
                     amid, clientVars>>
      /\ Running(l, f) /\ f.fn = "removeConnectionInLoop" /\ f.conn = c
      /\ connections' = connections \ {c}
      /\ queueInLoop(loop[c], FALSE, <<g>>)
  BY DEF removeConnectionInLoop, Do
<1>2. g \in Functor /\ <<g>> \in Seq(Functor) /\ g.fn = "connectDestroyed" /\ g.conn = c
  BY Constants DEF Do, Fn
<1>. HIDE DEF f
<1>3. /\ l = Base /\ state[c] \in {"kDisconnecting", "kDisconnected"} /\ c \in connections
      /\ channel[c] = "off"
  BY <1>1, RunsPlaced DEF Placed, LifeInv, Stages, Stage
<1>4. PICK h \in Loop \ {Base} : h = loop[c]
  BY <1>3 DEF LifeInv, Stages, Stage
<1>5. queueInLoop(h, FALSE, <<g>>)
  BY <1>1, <1>4
<1>6. LoopInv' /\ BatchOK'
  BY <1>1, <1>2, <1>5, LoopRuns DEF RunsOne, QueuesSome
<1>7. /\ pending'[h] = pending[h] \o <<g>>
      /\ \A k \in Loop \ {h} : pending'[k] = pending[k]
  BY <1>5 DEF queueInLoop, LoopInv, LoopTypeOK
<1>8. /\ Once(Ahead(l))' /\ Ordered(Ahead(l), overtaken)' /\ Todo(l)' \subseteq Todo(l)
      /\ \A x \in Todo(l) : x = f \/ x \in Todo(l)'
      /\ f \notin Todo(l)' /\ f \in Functor
  BY <1>1, <1>3, <1>4, <1>7, RanAt DEF LoopInv, LifeInv, FunctorsOK, workerVars
<1>9. \A k \in Loop \ {l, h} : Once(Ahead(k))' /\ Ordered(Ahead(k), overtaken)' /\ Todo(k)' = Todo(k)
  BY <1>1, <1>7, OthersWait DEF workerVars
<1>. HIDE DEF g
<1>10. Once(Ahead(h))' /\ Ordered(Ahead(h), overtaken)' /\ Todo(h)' = Todo(h) \cup {g}
  <2>1. MayQueue(Ahead(h), g, overtaken')
    BY <1>2 DEF MayQueue, Tied
  <2>2. ran'[h] = ran[h]
    BY <1>1, <1>3, <1>4, OthersWait DEF workerVars
  <2>. QED
    BY <1>1, <1>2, <1>7, <2>1, <2>2, QueuedAt DEF LifeInv, FunctorsOK, LoopInv, workerVars
<1>11. ASSUME NEW k \in Loop, NEW x \in Todo(k)'
       PROVE  Placed(k, x)'
  <2>1. CASE x = g /\ k = h
    BY <1>1, <1>2, <1>3, <1>4, <2>1 DEF Placed, connVars, Tied
  <2>2. CASE ~(x = g /\ k = h)
    <3>1. x \in Todo(k) /\ Placed(k, x) /\ x \in Functor /\ x.conn \in Conn /\ (x = f => k # l)
      BY <1>8, <1>9, <1>10, <2>2, TodoFunctor DEF LifeInv, FunctorsOK, LoopInv
    <3>2. CASE x.conn = c
      <4>1. x.fn # "removeConnectionInLoop"
        <5>1. SUFFICES ASSUME x.fn = "removeConnectionInLoop"
                       PROVE  FALSE
          OBVIOUS
        <5>2. x = f
          BY <1>1, <1>8, <3>1, <3>2, <5>1, FunctorSame
        <5>. QED
          BY <1>3, <3>1, <5>1, <5>2 DEF Placed
      <4>. QED
        BY <1>1, <1>3, <3>1, <3>2, <4>1 DEF Placed, Tied, connVars, workerVars
    <3>3. CASE x.conn # c
      BY <1>1, <3>1, <3>3, PlacedSame DEF connVars, workerVars
    <3>. QED
      BY <3>2, <3>3
  <2>. QED
    BY <2>1, <2>2
<1>12. FunctorsOK'
  BY <1>8, <1>9, <1>10, <1>11 DEF FunctorsOK
<1>13. Held'
  <2>1. \A d \in Conn : Do("connectDestroyed", d) # f
    BY <1>1 DEF Do
  <2>2. g = Do("connectDestroyed", c)
    BY DEF g
  <2>. QED
    BY <1>1, <1>4, <1>8, <1>9, <1>10, <2>1, <2>2 DEF LifeInv, Held, connVars
<1>14. Stages'
  <2>1. Stage(c)'
    BY <1>1, <1>3, <1>4 DEF LifeInv, Stages, Stage, connVars
  <2>2. \A d \in Conn \ {c} : Stage(d)'
    BY <1>1 DEF LifeInv, Stages, Stage, connVars, listVars
  <2>. QED
    BY <2>1, <2>2 DEF Stages
<1>15. ListOK' /\ EventsOK'
  BY <1>1 DEF LifeInv, ListOK, EventsOK, Up, connVars, listVars
<1>18. WalkOK' /\ SendOK'
  <2>1. doing = "look"
    BY <1>3, Constants DEF Busy, LifeInv, WalkOK
  <2>. QED
    BY <1>1, <2>1 DEF LifeInv, WalkOK, SendOK, timerVars, workerVars, connVars
<1>16. failed' = failed
  BY <1>3 DEF removeConnectionInLoop, Fails
<1>17. TypeOK'
  BY <1>1, <1>6 DEF TypeOK, LoopInv, connVars, listVars, timerVars, workerVars, clientVars
<1>. QED
  BY <1>1, <1>6, <1>12, <1>13, <1>14, <1>15, <1>16, <1>17, <1>18 DEF LifeInv, clientVars

LEMMA ConnectDestroyedStep ==
  ASSUME ServerInv, NEW l \in Loop, NEW c \in Conn, connectDestroyed(l, c)
  PROVE  ServerInv'
<1>. USE DEF ServerInv
<1>. DEFINE f == Do("connectDestroyed", c)
<1>1. /\ UNCHANGED <<phase, active, pending, batch, woken, next, connections, loop, timerVars,
                     workerVars, amid, clientVars>>
      /\ Running(l, f) /\ f.fn = "connectDestroyed" /\ f.conn = c
      /\ channel' = [channel EXCEPT ![c] = "removed"]
  BY DEF connectDestroyed, Do
<1>2. l = loop[c] /\ state[c] \in {"kDisconnecting", "kDisconnected"} /\ c \notin connections
  BY <1>1, RunsPlaced, Constants DEF Placed, LifeInv, Stages, Stage
<1>3. UNCHANGED <<state, listVars, failed>>
  BY <1>2 DEF connectDestroyed
<1>4. /\ channel' \in [Conn -> {"new", "on", "off", "removed"}] /\ channel'[c] = "removed"
      /\ \A d \in Conn \ {c} : channel'[d] = channel[d]
  BY <1>1 DEF TypeOK
<1>5. LoopInv' /\ BatchOK'
  BY <1>1, LoopRuns DEF RunsOne, QueuesNone
<1>. HIDE DEF f
<1>6. /\ Once(Ahead(l))' /\ Ordered(Ahead(l), overtaken)' /\ Todo(l)' \subseteq Todo(l)
      /\ \A g \in Todo(l) : g = f \/ g \in Todo(l)'
      /\ \A g \in Todo(l)' : g.conn = c => ~Tied(g, overtaken)
  BY <1>1, RanAt DEF LoopInv, LifeInv, FunctorsOK, workerVars
<1>7. \A k \in Loop \ {l} : Once(Ahead(k))' /\ Ordered(Ahead(k), overtaken)' /\ Todo(k)' = Todo(k)
  BY <1>1, OthersWait DEF workerVars
<1>8. ASSUME NEW k \in Loop, NEW g \in Todo(k)'
      PROVE  Placed(k, g)'
  <2>1. g \in Todo(k) /\ Placed(k, g) /\ g.conn \in Conn
    BY <1>6, <1>7, TodoFunctor DEF LifeInv, FunctorsOK, LoopInv
  <2>2. CASE g.conn = c
    <3>1. ~Tied(g, overtaken)
      BY <1>2, <1>6, <2>1, <2>2 DEF Placed, Tied
    <3>. QED
      BY <1>1, <1>2, <1>3, <1>4, <2>1, <2>2, <3>1 DEF Placed, workerVars
  <2>3. CASE g.conn # c
    BY <1>1, <1>3, <1>4, <2>1, <2>3, PlacedSame DEF workerVars
  <2>. QED
    BY <2>2, <2>3
<1>9. FunctorsOK'
  BY <1>6, <1>7, <1>8 DEF FunctorsOK
<1>10. Held'
  <2>1. \A d \in Conn \ {c} : Do("connectDestroyed", d) # f
    BY <1>1 DEF Do
  <2>. QED
    BY <1>1, <1>4, <1>6, <1>7, <2>1 DEF LifeInv, Held
<1>11. Stages'
  <2>1. Stage(c)'
    BY <1>1, <1>2, <1>3, <1>4 DEF LifeInv, Stages, Stage
  <2>2. \A d \in Conn \ {c} : Stage(d)'
    BY <1>1, <1>3, <1>4 DEF LifeInv, Stages, Stage, listVars
  <2>. QED
    BY <2>1, <2>2 DEF Stages
<1>12. ListOK' /\ EventsOK' /\ WalkOK' /\ SendOK'
  <2>1. c \notin Up
    BY <1>2 DEF LifeInv, Stages, Stage, Up
  <2>2. Up' = Up
    BY <1>4, <2>1 DEF Up
  <2>. QED
    BY <1>1, <1>3, <2>2 DEF LifeInv, ListOK, EventsOK, WalkOK, SendOK, listVars, timerVars,
                            workerVars
<1>13. TypeOK'
  BY <1>1, <1>3, <1>4, <1>5 DEF TypeOK, LoopInv, listVars, timerVars, workerVars, clientVars
<1>. QED
  BY <1>1, <1>3, <1>5, <1>9, <1>10, <1>11, <1>12, <1>13 DEF LifeInv, clientVars

-----------------------------------------------------------------------------
LEMMA ThreadKeeps ==
  ASSUME ServerInv, NEW l \in Loop, ThreadStep(l)
  PROVE  ServerInv'
<1>1. ASSUME NEW c \in Conn, SetContext(c) \/ AssertLast(c) \/ CloseCallbacks(c)
      PROVE  ServerInv'
  BY <1>1, SetContextStep, AssertLastStep, CloseCallbacksStep
<1>2. CASE Walk
  BY <1>2, WalkStep
<1>3. CASE UseDangling(l)
  BY <1>3, UseDanglingStep
<1>4. ASSUME NEW expired \in SUBSET Timers(l), Poll(l, expired), ~Busy(l)
      PROVE  ServerInv'
  BY <1>4, PollTakesEvents
<1>5. CASE /\ handleRead(l) \/ doPendingFunctors(l) \/ FunctorsDone(l)
           /\ UNCHANGED <<next, connections, connVars, listVars, timerVars, workerVars,
                          amid, clientVars, failed>>
  BY <1>5, IterationStep
<1>6. ASSUME NEW c \in Conn, newConnection(c)
      PROVE  ServerInv'
  BY <1>6, NewConnectionStep
<1>7. ASSUME NEW c \in Conn, handleSocket(l, c), ~Busy(l)
      PROVE  ServerInv'
  <2>1. CASE inbox[c] > 0 /\ onMessage(c) /\ UNCHANGED <<state, working, sending, overtaken>>
    BY <1>7, <2>1, OnMessageStep DEF handleSocket, connVars
  <2>2. CASE handleClose(c) /\ UNCHANGED <<listVars, workerVars, inbox>>
    BY <1>7, <2>2, EndOfStreamStep DEF handleSocket
  <2>. QED
    BY <1>7, <2>1, <2>2 DEF handleSocket
<1>8. ASSUME NEW c \in Conn, forceClose(l, c)
      PROVE  ServerInv'
  BY <1>8, ForceCloseStep
<1>9. ASSUME NEW c \in Conn, FunctorStep(l, c), ~Busy(l)
      PROVE  ServerInv'
  BY <1>9, ConnectEstablishedStep, InLoopStep, AddTimerStep, ForceCloseInLoopStep,
     RemoveConnectionStep, ConnectDestroyedStep DEF FunctorStep
<1>10. CASE l = Base /\ onTimer /\ ~Busy(l)
  BY <1>10, OnTimerStep
<1>. QED
  BY <1>1, <1>2, <1>3, <1>4, <1>5, <1>6, <1>7, <1>8, <1>9, <1>10 DEF ThreadStep

LEMMA NothingKeeps == ServerInv /\ UNCHANGED vars => ServerInv'
<1>. SUFFICES ASSUME ServerInv, UNCHANGED vars
              PROVE  ServerInv'
  OBVIOUS
<1>. USE DEF ServerInv, vars
<1>1. StaysUp
  BY DEF StaysUp, connVars
<1>2. LoopInv' /\ BatchOK' /\ LifeInv'
  <2>1. WalkOK'
    BY <1>1, WalkKept DEF LifeInv, timerVars
  <2>. QED
    BY <1>1, <2>1, SameLife DEF connVars, listVars
<1>3. TypeOK'
  BY <1>2 DEF TypeOK, LoopInv, connVars, listVars, timerVars, workerVars, clientVars
<1>. QED
  BY <1>2, <1>3 DEF clientVars

LEMMA ServerKeeps == ServerInv /\ [Next]_vars => ServerInv'
<1>. SUFFICES ASSUME ServerInv, [Next]_vars
              PROVE  ServerInv'
  OBVIOUS
<1>1. ASSUME NEW l \in Loop, ThreadStep(l)
      PROVE  ServerInv'
  BY <1>1, ThreadKeeps
<1>2. CASE WorkerStep
  BY <1>2, TakeTaskStep, SendStep, QueueReplyStep DEF WorkerStep
<1>3. ASSUME NEW c \in Conn, GrowsIdle(c) \/ Client(c)
      PROVE  ServerInv'
  BY <1>3, GrowsIdleStep, ClientStep
<1>4. CASE UNCHANGED vars
  BY <1>4, NothingKeeps
<1>. QED
  BY <1>1, <1>2, <1>3, <1>4 DEF Next

LEMMA ServerHolds == Spec => []ServerInv
BY InitServer, ServerKeeps, PTL DEF Spec

(* Every variable keeps its type: above all no more tasks wait than the    *)
(* queue of the pool holds.                                                *)
THEOREM ServerTyped == Spec => []TypeOK
<1>1. ServerInv => TypeOK
  BY DEF ServerInv
<1>. QED
  BY ServerHolds, <1>1, PTL

(* In the front end as it queues functors, no loop waits in poll over one. *)
THEOREM ServerLosesNoFunctor == Spec => []NoLostFunctor
<1>1. ServerInv => NoLostFunctor
  BY DEF ServerInv, LoopInv
<1>. QED
  BY ServerHolds, <1>1, PTL

(* The idle list is exactly the connections that read events, for any      *)
(* number of IO loops and however the timer's shutdown races with them (as *)
(* far as one operation on the list is atomic).                            *)
THEOREM ListIsUp == Spec => []ListMatchesUp
<1>1. ServerInv => ListMatchesUp
  BY InjectiveCount DEF ServerInv, TypeOK, LifeInv, ListOK, ListMatchesUp, Up
<1>. QED
  BY ServerHolds, <1>1, PTL

(* A connection that has died was closed and is out of the poller, and no  *)
(* functor that must not outlive it waits for it.                          *)
LEMMA DeadIsGone ==
  ASSUME ServerInv, NEW c \in Conn, Died(c)
  PROVE  /\ state[c] \in {"kDisconnecting", "kDisconnected"} /\ channel[c] = "removed"
         /\ \A l \in Loop : \A f \in Todo(l) : f.conn = c => ~Tied(f, overtaken)
         /\ c \notin Up
<1>1. c \notin connections /\ state[c] # "none"
  BY DEF Died, Alive
<1>2. /\ state[c] \in {"kDisconnecting", "kDisconnected"} /\ channel[c] \in {"off", "removed"}
      /\ loop[c] \in Loop
  BY <1>1 DEF ServerInv, LifeInv, Stages, Stage
<1>3. channel[c] # "off"
  <2>1. SUFFICES ASSUME channel[c] = "off"
                 PROVE  FALSE
    OBVIOUS
  <2>2. PICK l \in Loop : l = loop[c]
    BY <1>2
  <2>3. Do("connectDestroyed", c) \in Todo(l)
    BY <1>1, <2>1, <2>2 DEF ServerInv, LifeInv, Held
  <2>4. Do("connectDestroyed", c) \in Queued(l)
    <3>. DEFINE run == SubSeq(batch[l], ran[l] + 1, Len(batch[l]))
    <3>1. /\ batch[l] \in Seq(Functor) /\ pending[l] \in Seq(Functor)
          /\ ran[l] \in 0..Len(batch[l])
      BY DEF ServerInv, LoopInv, LoopTypeOK, BatchOK
    <3>2. /\ run \in Seq(Functor) /\ Len(run) = Len(batch[l]) - ran[l]
          /\ \A i \in 1..Len(run) : run[i] = batch[l][ran[l] + i]
          /\ Ahead(l) = run \o pending[l]
      BY AheadIs DEF ServerInv, LoopInv
    <3>. HIDE DEF run
    <3>3. Elements(run) \subseteq Elements(batch[l])
      <4>1. \A i \in 1..Len(run) : ran[l] + i \in 1..Len(batch[l])
        BY <3>1, <3>2
      <4>. QED
        BY <3>2, <4>1 DEF Elements
    <3>4. Elements(Ahead(l)) = Elements(run) \cup Elements(pending[l])
      BY <3>1, <3>2, JoinElements
    <3>. QED
      BY <2>3, <3>3, <3>4 DEF Todo, Queued
  <2>. QED
    BY <2>4 DEF Died, Alive, Do, Strong, Fn, Raw
<1>4. \A l \in Loop : \A f \in Todo(l) : f.conn = c => ~Tied(f, overtaken)
  BY <1>2, <1>3 DEF ServerInv, LifeInv, FunctorsOK, Placed
<1>. QED
  BY <1>2, <1>3, <1>4 DEF Up

(* For any number of connections and IO loops, the only functor bound to a *)
(* plain `this` that can outlive its connection is that of a send which the*)
(* map's removal has overtaken; and no event outlives its connection.      *)
THEOREM RawPointersLive == Spec => []RawPointersAlive
<1>1. ServerInv => RawPointersAlive
  <2>1. SUFFICES ASSUME ServerInv, NEW l \in Loop, NEW c \in Conn, Died(c)
                 PROVE  /\ Do("shutdownInLoop", c) \notin Waiting(l)
                        /\ Do("sendInLoop", c) \in Waiting(l) => c \in overtaken
                        /\ Socket(c) \notin active[l]
    BY DEF RawPointersAlive
  <2>. DEFINE run == SubSeq(batch[l], ran[l] + 1, Len(batch[l]))
  <2>2. /\ batch[l] \in Seq(Functor) /\ pending[l] \in Seq(Functor)
        /\ ran[l] \in 0..Len(batch[l]) /\ Len(batch[l]) \in Nat
    BY <2>1 DEF ServerInv, LoopInv, LoopTypeOK, BatchOK
  <2>3. /\ run \in Seq(Functor) /\ Len(run) = Len(batch[l]) - ran[l]
        /\ \A i \in 1..Len(run) : run[i] = batch[l][ran[l] + i]
        /\ Ahead(l) = run \o pending[l]
    BY <2>1, AheadIs DEF ServerInv, LoopInv
  <2>. HIDE DEF run
  <2>4. Todo(l) = Elements(run) \cup Elements(pending[l])
    BY <2>2, <2>3, JoinElements DEF Todo
  <2>5. ASSUME NEW i \in (ran[l] + 1)..Len(batch[l])
        PROVE  batch[l][i] \in Todo(l)
    <3>1. i - ran[l] \in 1..Len(run) /\ ran[l] + (i - ran[l]) = i
      BY <2>2, <2>3
    <3>. QED
      BY <2>3, <2>4, <3>1 DEF Elements
  <2>6. Waiting(l) \subseteq Todo(l)
    BY <2>4, <2>5 DEF Waiting
  <2>7. \A f \in Todo(l) : f.conn = c => ~Tied(f, overtaken)
    BY <2>1, DeadIsGone
  <2>8. Socket(c) \notin active[l]
    BY <2>1, DeadIsGone DEF ServerInv, LifeInv, EventsOK
  <2>. QED
    BY <2>6, <2>7, <2>8 DEF Tied, Do
<1>. QED
  BY ServerHolds, <1>1, PTL

(* Whatever races there are for its state, a connection is established,    *)
(* closed and removed in order, and it is closed and out of the poller when*)
(* its last reference goes.                                                *)
THEOREM LivesInOrder == Spec => []LifeInOrder
<1>1. ServerInv => LifeInOrder
  BY DeadIsGone DEF ServerInv, MayFail, LifeInOrder
<1>. QED
  BY ServerHolds, <1>1, PTL

-----------------------------------------------------------------------------
(* One IO loop.                                                            *)
LEMMA SplicedSame ==
  ASSUME SplicedLast, UNCHANGED <<amid, list>>, "position" \notin failed'
  PROVE  SplicedLast'
BY DEF SplicedLast

(* When no node has been spliced there is nothing to keep.                 *)
LEMMA SplicedNone ==
  ASSUME "position" \notin failed', \A c \in Conn : amid'[c] # "spliced"
  PROVE  SplicedLast'
BY DEF SplicedLast

(* The connections that have been made are all of the one loop, and it does*)
(* one thing at a time.                                                    *)
LEMMA OneAtATime ==
  ASSUME ServerInv, Len(IOLoops) = 1, NEW l \in Loop \ {Base}, ~Busy(l)
  PROVE  \A c \in Conn : amid[c] = "none"
<1>1. \A k \in Loop : k = l \/ k = Base
  <2>1. \A i \in 1..Len(IOLoops) : i = 1
    OBVIOUS
  <2>2. \A k \in Loop : k = Base \/ k = IOLoops[1]
    BY <2>1, ServerAssumption
  <2>. QED
    BY <2>2
<1>. QED
  BY <1>1 DEF ServerInv, LifeInv, Stages, Stage, Busy

LEMMA SplicedMessage ==
  ASSUME ServerInv, SplicedLast, NEW c \in Conn, onMessage(c),
         \A d \in Conn : amid[d] = "none"
  PROVE  SplicedLast'
<1>1. /\ Without(list, c) \in Seq(Conn) /\ Injective(Without(list, c))
      /\ c \notin Elements(Without(list, c))
  BY WithoutElements DEF ServerInv, LifeInv, ListOK, TypeOK
<1>2. list' # <<>> /\ list'[Len(list')] = c
  BY <1>1, AppendKeepsInjective DEF onMessage
<1>3. "position" \notin failed'
  BY DEF onMessage, SplicedLast, DownAsserts, Fails
<1>4. amid'[c] = "spliced" /\ \A d \in Conn \ {c} : amid'[d] = "none"
  BY DEF onMessage, ServerInv, TypeOK
<1>. QED
  BY <1>2, <1>3, <1>4 DEF SplicedLast

LEMMA SplicedBusy ==
  ASSUME ServerInv, SplicedLast, NEW c \in Conn,
         SetContext(c) \/ AssertLast(c) \/ CloseCallbacks(c)
  PROVE  SplicedLast'
<1>1. amid \in [Conn -> {"none", "pushed", "spliced", "closed"}]
  BY DEF ServerInv, TypeOK
<1>2. CASE AssertLast(c)
  BY <1>1, <1>2 DEF AssertLast, Fails, SplicedLast
<1>3. CASE SetContext(c)
  BY <1>1, <1>3 DEF SetContext, SplicedLast
<1>4. CASE CloseCallbacks(c)
  <2>1. "position" \notin failed'
    BY <1>4 DEF CloseCallbacks, DownAsserts, Fails, SplicedLast
  <2>2. \A d \in Conn : amid'[d] # "spliced"
    BY <1>1, <1>4 DEF CloseCallbacks, SplicedLast
  <2>. QED
    BY <2>1, <2>2, SplicedNone
<1>. QED
  BY <1>2, <1>3, <1>4

LEMMA SplicedWalk ==
  ASSUME ServerInv, SplicedLast, Walk
  PROVE  SplicedLast'
<1>1. UNCHANGED <<amid, list, failed>>
  <2>1. CASE Look
    BY <2>1, ListedAlive DEF Look
  <2>2. CASE shutdown \/ forceCloseWithDelay \/ Advance
    BY <2>2 DEF shutdown, forceCloseWithDelay, Advance, Test, Disconnect, listVars
  <2>. QED
    BY <2>1, <2>2 DEF Walk
<1>. QED
  BY <1>1, SplicedSame DEF SplicedLast

LEMMA SplicedFunctor ==
  ASSUME ServerInv, SplicedLast, Len(IOLoops) = 1, NEW l \in Loop, ~Busy(l),
         NEW c \in Conn, FunctorStep(l, c)
  PROVE  SplicedLast'
<1>1. "position" \notin failed
  BY DEF SplicedLast
<1>2. CASE connectEstablished(l, c)
  <2>1. l \in Loop \ {Base}
    <3>1. Placed(l, Do("connectEstablished", c))
      BY <1>2, RunsPlaced DEF connectEstablished
    <3>. QED
      BY <3>1 DEF Placed, Do
  <2>2. "position" \notin failed'
    BY <1>1, <1>2 DEF connectEstablished, Fails
  <2>3. \A d \in Conn : amid'[d] # "spliced"
    BY <1>2, <2>1, OneAtATime DEF connectEstablished, ServerInv, TypeOK
  <2>. QED
    BY <2>2, <2>3, SplicedNone
<1>3. CASE InLoop(l, c) \/ addTimerInLoop(l, c)
  BY <1>1, <1>3, SplicedSame DEF InLoop, addTimerInLoop, listVars, Fails
<1>4. CASE forceCloseInLoop(l, c)
  <2>1. l \in Loop \ {Base}
    <3>1. Placed(l, Do("forceCloseInLoop", c))
      BY <1>4, RunsPlaced DEF forceCloseInLoop
    <3>. QED
      BY <3>1 DEF Placed, Do
  <2>2. "position" \notin failed'
    BY <1>1, <1>4 DEF forceCloseInLoop, handleClose, Fails
  <2>3. \A d \in Conn : amid'[d] # "spliced"
    BY <1>4, <2>1, OneAtATime DEF forceCloseInLoop, handleClose, ServerInv, TypeOK
  <2>. QED
    BY <2>2, <2>3, SplicedNone
<1>5. CASE removeConnectionInLoop(l, c)
  BY <1>1, <1>5, SplicedSame DEF removeConnectionInLoop, Fails, listVars
<1>6. CASE connectDestroyed(l, c)
  <2>1. Placed(l, Do("connectDestroyed", c))
    BY <1>6, RunsPlaced DEF connectDestroyed
  <2>2. state[c] # "kConnected"
    BY <2>1 DEF Placed, Do, ServerInv, LifeInv, Stages, Stage
  <2>. QED
    BY <1>1, <1>6, <2>2, SplicedSame DEF connectDestroyed, listVars
<1>. QED
  BY <1>2, <1>3, <1>4, <1>5, <1>6 DEF FunctorStep

LEMMA SplicedThread ==
  ASSUME ServerInv, SplicedLast, Len(IOLoops) = 1, NEW l \in Loop, ThreadStep(l)
  PROVE  SplicedLast'
<1>0. "position" \notin failed
  BY DEF SplicedLast
<1>1. ASSUME NEW c \in Conn, SetContext(c) \/ AssertLast(c) \/ CloseCallbacks(c)
      PROVE  SplicedLast'
  BY <1>1, SplicedBusy
<1>2. CASE Walk
  BY <1>2, SplicedWalk
<1>3. CASE UseDangling(l)
  BY <1>0, <1>3, SplicedSame DEF UseDangling, listVars
<1>4. ASSUME NEW expired \in SUBSET Timers(l), Poll(l, expired)
      PROVE  SplicedLast'
  BY <1>0, <1>4, SplicedSame DEF Poll, listVars
<1>5. CASE /\ handleRead(l) \/ doPendingFunctors(l) \/ FunctorsDone(l)
           /\ UNCHANGED <<next, connections, connVars, listVars, timerVars, workerVars,
                          amid, clientVars, failed>>
  BY <1>0, <1>5, SplicedSame DEF listVars
<1>6. ASSUME NEW c \in Conn, newConnection(c)
      PROVE  SplicedLast'
  BY <1>0, <1>6, SplicedSame DEF newConnection, listVars
<1>7. ASSUME NEW c \in Conn, handleSocket(l, c), ~Busy(l)
      PROVE  SplicedLast'
  <2>1. Handled(l, Socket(c)) /\ l \in Loop \ {Base}
    BY <1>7 DEF handleSocket, Handled, ServerInv, LifeInv, EventsOK, Stages, Stage, Up
  <2>2. \A d \in Conn : amid[d] = "none"
    BY <1>7, <2>1, OneAtATime
  <2>3. CASE onMessage(c)
    BY <2>2, <2>3, SplicedMessage
  <2>4. CASE handleClose(c)
    <3>1. "position" \notin failed'
      BY <1>0, <2>4 DEF handleClose, Fails
    <3>2. \A d \in Conn : amid'[d] # "spliced"
      BY <2>2, <2>4 DEF handleClose, ServerInv, TypeOK
    <3>. QED
      BY <3>1, <3>2, SplicedNone
  <2>. QED
    BY <1>7, <2>3, <2>4 DEF handleSocket
<1>8. ASSUME NEW c \in Conn, forceClose(l, c)
      PROVE  SplicedLast'
  BY <1>0, <1>8, SplicedSame DEF forceClose, listVars
<1>9. ASSUME NEW c \in Conn, FunctorStep(l, c), ~Busy(l)
      PROVE  SplicedLast'
  BY <1>9, SplicedFunctor
<1>10. CASE onTimer
  BY <1>0, <1>10, SplicedSame DEF onTimer, listVars
<1>. QED
  BY <1>1, <1>2, <1>3, <1>4, <1>5, <1>6, <1>7, <1>8, <1>9, <1>10 DEF ThreadStep

LEMMA SplicedKeeps ==
  ASSUME Len(IOLoops) = 1
  PROVE  ServerInv /\ SplicedLast /\ [Next]_vars => SplicedLast'
<1>. SUFFICES ASSUME ServerInv, SplicedLast, [Next]_vars
              PROVE  SplicedLast'
  OBVIOUS
<1>0. "position" \notin failed
  BY DEF SplicedLast
<1>1. ASSUME NEW l \in Loop, ThreadStep(l)
      PROVE  SplicedLast'
  BY <1>1, SplicedThread
<1>2. CASE WorkerStep
  BY <1>0, <1>2, SplicedSame DEF WorkerStep, listVars
<1>3. ASSUME NEW c \in Conn, GrowsIdle(c)
      PROVE  SplicedLast'
  BY <1>0, <1>3, SplicedSame DEF GrowsIdle
<1>4. ASSUME NEW c \in Conn, Client(c)
      PROVE  SplicedLast'
  BY <1>0, <1>4, SplicedSame DEF Client, listVars
<1>5. CASE UNCHANGED vars
  BY <1>0, <1>5, SplicedSame DEF vars, listVars
<1>. QED
  BY <1>1, <1>2, <1>3, <1>4, <1>5 DEF Next

(* With one IO loop the last assertion of onMessage holds, whatever the    *)
(* number of connections and packets and whatever the timer does.  (With   *)
(* two loops it fails.)                                                    *)
THEOREM OneLoopMovesLast ==
  ASSUME Len(IOLoops) = 1
  PROVE  Spec => []MovedIsLast
<1>1. Init => SplicedLast
  BY DEF Init, SplicedLast
<1>2. SplicedLast => MovedIsLast
  BY DEF SplicedLast, MovedIsLast
<1>. QED
  BY ServerHolds, SplicedKeeps, <1>1, <1>2, PTL DEF Spec
=============================================================================
