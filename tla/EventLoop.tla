----------------------------- MODULE EventLoop ------------------------------
(***************************************************************************)
(* The event loops of the front end (class EventLoop), one per thread.  A  *)
(* loop waits in poll until a channel is ready or the loop is woken, then  *)
(* handles the channels that were ready, then the functors that were queued*)
(* before it swapped the queue.  Other threads hand it functors with       *)
(* queueInLoop; a functor it queues for itself must not wait for the next  *)
(* event.                                                                  *)
(*                                                                         *)
(* queueInLoop appends under the mutex and then writes to the wake-up      *)
(* descriptor: what another thread does between the two it could also do   *)
(* after both, so they are one action.  That poll returns after ten seconds*)
(* when nothing is ready is left out: no functor may have to wait for that.*)
(***************************************************************************)
EXTENDS Naturals, Sequences

CONSTANTS Loop,    \* the loops
          Functor, \* what can be queued
          Channel, \* the channels besides the wake-up channel
          WakeupChannel

ASSUME LoopAssumption == WakeupChannel \notin Channel

VARIABLES phase,   \* loop -> the part of its iteration that it is in
          active,  \* loop -> the ready channels it has still to handle
          pending, \* loop -> pendingFunctors_
          batch,   \* loop -> the functors that doPendingFunctors has swapped out
          ran,     \* loop -> how many of them it has run
          woken    \* loop -> its wake-up descriptor is readable

loopVars == <<phase, active, pending, batch, ran, woken>>

LoopTypeOK ==
  /\ phase \in [Loop -> {"poll", "events", "functors"}]
  /\ active \in [Loop -> SUBSET (Channel \cup {WakeupChannel})]
  /\ pending \in [Loop -> Seq(Functor)]
  /\ batch \in [Loop -> Seq(Functor)]
  /\ ran \in [Loop -> Nat]
  /\ woken \in [Loop -> BOOLEAN]

LoopInit ==
  /\ phase = [l \in Loop |-> "poll"]
  /\ active = [l \in Loop |-> {}]
  /\ pending = [l \in Loop |-> <<>>]
  /\ batch = [l \in Loop |-> <<>>]
  /\ ran = [l \in Loop |-> 0]
  /\ woken = [l \in Loop |-> FALSE]

-----------------------------------------------------------------------------
(* poll returns with the ready channels, if there are any.                 *)
poll(l, ready) ==
  LET on == ready \cup (IF woken[l] THEN {WakeupChannel} ELSE {})
  IN /\ phase[l] = "poll"
     /\ on # {}
     /\ active' = [active EXCEPT ![l] = on]
     /\ phase' = [phase EXCEPT ![l] = "events"]
     /\ UNCHANGED <<pending, batch, ran, woken>>

(* A channel's event is handled; the caller says what it does.             *)
Handled(l, ch) ==
  /\ ch \in active[l]
  /\ active' = [active EXCEPT ![l] = @ \ {ch}]

(* The wake-up channel: handleRead reads the descriptor.                   *)
handleRead(l) ==
  /\ Handled(l, WakeupChannel)
  /\ woken' = [woken EXCEPT ![l] = FALSE]
  /\ UNCHANGED <<phase, pending, batch, ran>>

(* The queue is swapped out; when it was empty the loop is back in poll.   *)
doPendingFunctors(l) ==
  /\ phase[l] = "events"
  /\ active[l] = {}
  /\ phase' = [phase EXCEPT ![l] = IF pending[l] = <<>> THEN "poll" ELSE "functors"]
  /\ batch' = [batch EXCEPT ![l] = pending[l]]
  /\ pending' = [pending EXCEPT ![l] = <<>>]
  /\ UNCHANGED <<active, ran, woken>>

Current(l) == batch[l][ran[l] + 1]

(* The next functor of the batch is run; the caller says what it does.     *)
Running(l, f) ==
  /\ phase[l] = "functors"
  /\ ran[l] < Len(batch[l])
  /\ f = Current(l)
  /\ ran' = [ran EXCEPT ![l] = @ + 1]

(* The swapped vector, and with it every reference that its functors hold, *)
(* lives until all of them have run.                                       *)
FunctorsDone(l) ==
  /\ phase[l] = "functors"
  /\ ran[l] = Len(batch[l])
  /\ phase' = [phase EXCEPT ![l] = "poll"]
  /\ batch' = [batch EXCEPT ![l] = <<>>]
  /\ ran' = [ran EXCEPT ![l] = 0]
  /\ UNCHANGED <<active, pending, woken>>

WakeOwn(l, own, fs) ==  \* mutant: only the loop's own thread writes to the descriptor
  /\ pending' = [pending EXCEPT ![l] = @ \o fs]
  /\ woken' = [woken EXCEPT ![l] = @ \/ (own /\ phase[l] = "functors")]

(* fs are queued for l, by its own thread or by another one.               *)
queueInLoop(l, own, fs) ==
  /\ pending' = [pending EXCEPT ![l] = @ \o fs]
  /\ woken' = [woken EXCEPT ![l] = @ \/ ~own \/ phase[l] = "functors"]

-----------------------------------------------------------------------------
(* The loops by themselves: a thread queues functors whenever it likes, the*)
(* loop's own thread while it handles an event or runs a functor.          *)
LoopStep(l) ==
  \/ \E ready \in SUBSET Channel : poll(l, ready)
  \/ handleRead(l)
  \/ \E ch \in Channel :
       /\ Handled(l, ch)
       /\ \/ UNCHANGED <<pending, woken>>
          \/ \E f \in Functor : queueInLoop(l, TRUE, <<f>>)
       /\ UNCHANGED <<phase, batch, ran>>
  \/ doPendingFunctors(l)
  \/ /\ Running(l, Current(l))
     /\ \/ UNCHANGED <<pending, woken>>
        \/ \E f \in Functor : queueInLoop(l, TRUE, <<f>>)
     /\ UNCHANGED <<phase, active, batch>>
  \/ FunctorsDone(l)

OtherThread(l) ==
  /\ \E fs \in Seq(Functor) : queueInLoop(l, FALSE, fs)
  /\ UNCHANGED <<phase, active, batch, ran>>

LoopNext == \E l \in Loop : LoopStep(l) \/ OtherThread(l)

LoopSpec == LoopInit /\ [][LoopNext]_loopVars

(* No loop sleeps in poll over a functor: whenever it is, or is about to   *)
(* be, in poll and a functor is queued, its descriptor is readable, however*)
(* the functor's arrival meets the reading of the descriptor and the swap  *)
(* of the queue.                                                           *)
NoLostFunctor ==
  \A l \in Loop : phase[l] # "events" /\ pending[l] # <<>> => woken[l]
=============================================================================
