------------------------- MODULE Undisturbed_proofs -------------------------
(***************************************************************************)
(* What the handlers of an output node promise while the codec accepts     *)
(* every record and the client sends what it should, for every set of      *)
(* third ids, codec tasks and source areas: the records describe a stack   *)
(* of windows and a set of audio streams, the codec runs them, and the     *)
(* handlers implement WindowStack.                                         *)
(***************************************************************************)
EXTENDS LogicHandle_proofs, SequenceTheorems

(* What the environment must do for that.  Each condition is needed: a     *)
(* refused record, a channel the client made up, a clear of the audio      *)
(* tasks break what follows (see the README).  Records that are sent       *)
(* without waiting for an answer may be lost.                              *)
Undisturbed ==
  /\ ~ClientMistakes
  /\ LinkFaults \subseteq {"lost"}
  /\ 1 \notin ClearTypes
  /\ AudioID = {} \/ ClearTypes \subseteq {0}

(* ... and then they arrive too.                                           *)
Lossless == LinkFaults = {}

-----------------------------------------------------------------------------
(* The records say what is lent.                                           *)
LentVideo == ids.used \cap AuViTaskID
LentAudio == ids.used \cap AudioTaskID

OpenFor(i) == IF i \in LentAudio THEN 1 ELSE IF i \in LentVideo THEN 2 ELSE 0

RecordsMatch ==
  \A i \in CodecID : dec[i].open = OpenFor(i) /\ (dec[i].swms <=> i \in LentVideo)

(* The priorities of the windows are those of the list, one each.          *)
RankedBy(prio, S, n) ==
  /\ \A i \in S : prio[i] \in 0..(n - 1)
  /\ \A i, j \in S : prio[i] = prio[j] => i = j
  /\ \A p \in 0..(n - 1) : \E i \in S : prio[i] = p

Prio(d) == [i \in CodecID |-> d[i].prio]

Ranked == RankedBy(Prio(dec), LentVideo, Len(winPriority))

(* The maps that status queries read follow the windows.                   *)
SourcesFollow ==
  /\ DOMAIN srcInfo = {th \in DOMAIN ids.third : ids.third[th] \in AuViTaskID}
  /\ \A th \in DOMAIN srcInfo : srcInfo[th] = dec[ids.third[th]].crop

ChannelsFollow ==
  /\ DOMAIN swmsDecInfo = {SwmsChn[i] : i \in LentVideo}
  /\ \A i \in LentVideo : swmsDecInfo[SwmsChn[i]].id = i

(* The device table and the records name each other.                       *)
DevicesBound ==
  /\ DevicesHeld
  /\ \A i \in LentAudio : dec[i].dev \in DOMAIN aoCodec /\ aoCodec[dec[i].dev] = i

NotClearing == ~isClearTasking /\ worker = "idle"

(* What the last answer still says.                                        *)
Answered ==
  reply.ok =>
    /\ reply.cmd \in {"open", "create", "move"} =>
         /\ reply.third \in DOMAIN ids.third
         /\ LET id == ids.third[reply.third]
            IN /\ id \in AuViTaskID
               /\ codec[id] = dec[id]
               /\ dec[id].prio = Len(winPriority) - 1
    /\ reply.cmd = "openAudio" => reply.third \in DOMAIN ids.third
    /\ reply.cmd = "clear" =>
         reply.third \in ClearTypes /\ \A i \in OfClearType(reply.third) : dec[i].open = 0

(* The inductive invariant.                                                *)
Calm ==
  /\ Owned
  /\ RecordsMatch
  /\ Ranked
  /\ SourcesFollow
  /\ ChannelsFollow
  /\ DevicesBound
  /\ NotClearing
  /\ Answered
  /\ Lossless => codec = dec

-----------------------------------------------------------------------------
LEMMA UndisturbedMeans ==
  ASSUME Undisturbed
  PROVE  /\ AudioLeftAlone
         /\ ClearTypes \subseteq {0, 2}
         /\ \A o \in Outcome : o = "ok"
         /\ AudioID \cap WindowID = {}
BY HandlerAssumption DEF Undisturbed, AudioLeftAlone, Outcome

(* A task that a third id has is lent, has a record, and is of the kind of *)
(* that third id.                                                          *)
LEMMA OwnedTask ==
  ASSUME IInv, Calm, Undisturbed, NEW th \in DOMAIN ids.third
  PROVE  /\ ids.third[th] \in ids.used
         /\ ids.third[th] \in CodecID
         /\ Known(th)
         /\ th \in WindowID => ids.third[th] \in LentVideo
         /\ th \in AudioID => ids.third[th] \in LentAudio
         /\ ids.third[th] \in AuViTaskID => th \in WindowID
<1>1. ids.third[th] \in ids.used
  BY DEF Calm, Owned, LentOnce
<1>2. ids.third[th] \in CodecID
  BY <1>1 DEF IInv, TablesInv, AreTables
<1>3. Known(th)
  BY <1>2 DEF Known, HasTask
<1>4. \/ th \in WindowID /\ ids.third[th] \in AuViTaskID
      \/ th \in AudioID /\ ids.third[th] \in AudioTaskID
  BY DEF Calm, Owned, OwnerTypes
<1>5. AudioID \cap WindowID = {} /\ AuViTaskID \cap AudioTaskID = {}
  BY UndisturbedMeans, PoolsApart
<1> QED
  BY <1>1, <1>2, <1>3, <1>4, <1>5 DEF LentVideo, LentAudio

LEMMA LentHasOwner ==
  ASSUME IInv, Calm, NEW i \in ids.used
  PROVE  /\ \E th \in DOMAIN ids.third : ids.third[th] = i
         /\ Borrowers(ids, i) # {}
         /\ i \in AuViTaskID \/ i \in AudioTaskID
<1>1. \E th \in DOMAIN ids.third : ids.third[th] = i
  BY DEF Calm, Owned, LentOnce
<1> QED
  BY <1>1 DEF Borrowers, Calm, Owned, OwnerTypes

(* Nothing fails: a step opens, raises or closes a window, clears, opens,  *)
(* shifts or closes an audio stream, or changes nothing but the answer.    *)
Quiet ==
  /\ UNCHANGED <<taskVars, windowVars, aoCodec, clearVars>>
  /\ \/ reply' = reply
     \/ ~reply'.ok
     \/ reply'.cmd = "closeAudio"
     \/ reply'.cmd = "openAudio" /\ reply'.third \in DOMAIN ids.third

WindowOpened(th, src) ==
  /\ OpenDone(th, src)
  /\ \E cmd \in {"open", "create"} : reply' = Reply(cmd, th, TRUE)

WindowRaised(th, src) ==
  /\ \E show \in BOOLEAN : RaiseDone(th, src, show)
  /\ \E cmd \in {"open", "move"} : reply' = Reply(cmd, th, TRUE)

LEMMA CalmWindowStep ==
  ASSUME IInv, Calm, Undisturbed, NEW th \in WindowID,
         OpenOrCreate(th) \/ RaiseOrMove(th) \/ Close(th)
  PROVE  \/ \E src \in SrcVideo : WindowOpened(th, src) \/ WindowRaised(th, src)
         \/ CloseWindow(th)
         \/ Quiet
<1>1. \A o \in Outcome : o = "ok"
  BY UndisturbedMeans
<1>2. HasTask(th) => Known(th) /\ ids.third[th] \in CodecID
  BY OwnedTask DEF HasTask
<1>3. HasTask(th) => winPriority # <<>>
  <2> SUFFICES ASSUME HasTask(th) PROVE winPriority # <<>>
    OBVIOUS
  <2>1. ids.third[th] \in LentVideo
    BY OwnedTask DEF HasTask
  <2>2. Len(winPriority) # 0
    BY <2>1 DEF Calm, Ranked, RankedBy
  <2> QED
    BY <2>2
<1>4. CASE OpenOrCreate(th)
  <2>1. ASSUME OpenWindowRejected(th) \/ CreateWindowRejected(th)
        PROVE  Quiet
    <3>1. ids' = ids
      BY <2>1, LendThenRemove DEF OpenWindowRejected, CreateWindowRejected, OpenRejected, IInv,
         TablesInv, HasTask, TaskType
    <3>2. UNCHANGED <<dec, codec, windowVars, aoCodec, clearVars>> /\ ~reply'.ok
      BY <2>1 DEF OpenWindowRejected, CreateWindowRejected, OpenRejected, NoReply, Reply
    <3> QED
      BY <3>1, <3>2 DEF Quiet, taskVars
  <2>2. ASSUME CreateWindowAgain(th)
        PROVE  Quiet
    BY <2>2 DEF CreateWindowAgain, Quiet, Reply
  <2>3. ASSUME NEW src \in SrcVideo, OpenWindow(th, src) \/ CreateWindow(th, src)
        PROVE  WindowOpened(th, src)
    BY <2>3 DEF OpenWindow, CreateWindow, WindowOpened
  <2>4. ASSUME NEW src \in SrcVideo, NEW o \in Outcome,
               OpenWindowFails(th, src, o) \/ CreateWindowFails(th, src, o)
        PROVE  FALSE
    BY <1>1, <2>4 DEF OpenWindowFails, CreateWindowFails, OpenFails
  <2> QED
    BY <1>4, <2>1, <2>2, <2>3, <2>4 DEF OpenOrCreate
<1>5. CASE RaiseOrMove(th)
  <2>1. ASSUME RaiseRejected(th) \/ RaiseWithoutStack(th)
        PROVE  FALSE
    BY <1>2, <1>3, <2>1 DEF RaiseRejected, RaiseWithoutStack, Undisturbed, Known
  <2>2. ASSUME NEW src \in SrcVideo, RaiseWindow(th, src) \/ MoveWindow(th, src)
        PROVE  WindowRaised(th, src)
    BY <2>2 DEF RaiseWindow, MoveWindow, WindowRaised
  <2>3. ASSUME NEW src \in SrcVideo, MoveWindowRejected(th, src)
        PROVE  Quiet
    BY <1>2, <1>3, <2>3
       DEF MoveWindowRejected, Undisturbed, Quiet, Reply, taskVars, Known
  <2>4. ASSUME NEW src \in SrcVideo, NEW o \in Outcome,
               RaiseWindowFails(th, src, o) \/ MoveWindowFails(th, src, o)
        PROVE  FALSE
    BY <1>1, <2>4 DEF RaiseWindowFails, MoveWindowFails, RaiseFails
  <2> QED
    BY <1>5, <2>1, <2>2, <2>3, <2>4 DEF RaiseOrMove
<1>6. CASE Close(th)
  <2>1. ASSUME CloseWindowUnknown(th)
        PROVE  Quiet
    BY <2>1 DEF CloseWindowUnknown, Quiet, NoReply
  <2>2. ASSUME NEW o \in Outcome, CloseWindowFails(th, o)
        PROVE  FALSE
    BY <1>1, <2>2 DEF CloseWindowFails
  <2> QED
    BY <1>6, <2>1, <2>2 DEF Close
<1> QED
  BY <1>4, <1>5, <1>6

LEMMA CalmAudioStep ==
  ASSUME IInv, Calm, Undisturbed, NEW th \in AudioID, Audio(th)
  PROVE  \/ \E ao \in AOChn : OpenAudio(th, ao) \/ ShiftAudio(th, ao)
         \/ \E ao : CloseAudio(th, ao)
         \/ Quiet
<1>1. \A o \in Outcome : o = "ok"
  BY UndisturbedMeans
<1>2. ASSUME OpenAudioAgain(th)
      PROVE  Quiet
  BY <1>2 DEF OpenAudioAgain, Quiet, Reply, HasTask
<1>3. ASSUME CloseAudioUnknown(th)
      PROVE  Quiet
  BY <1>3 DEF CloseAudioUnknown, Quiet, Reply
<1>4. ASSUME NEW ao \in AOChn, OpenAudioRejected(th, ao)
      PROVE  Quiet
  BY <1>4 DEF OpenAudioRejected, Quiet, Reply
<1>5. ASSUME NEW o \in Outcome,
             \/ CloseAudioFails(th, o)
             \/ \E ao \in AOChn : \/ OpenAudioFails(th, ao, o)
                                  \/ \E stopped \in BOOLEAN : ShiftAudioFails(th, ao, o, stopped)
      PROVE  FALSE
  BY <1>1, <1>5 DEF CloseAudioFails, OpenAudioFails, ShiftAudioFails
<1> QED
  BY <1>2, <1>3, <1>4, <1>5 DEF Audio

LEMMA CalmClearStep ==
  ASSUME IInv, Calm, Undisturbed, NEW ty \in ClearTypes, Clear(ty)
  PROVE  ClearAllTask(ty, "ok")
<1>1. \A i \in ToClear(ty) : i \in CodecID /\ ~Orphan(i)
  <2>1. \A i \in ToClear(ty) : i \in CodecID /\ dec[i].open # 0
    BY HandlerAssumption DEF ToClear, OfClearType, CodecID
  <2>2. \A i \in ToClear(ty) : i \in ids.used
    BY <2>1 DEF Calm, RecordsMatch, OpenFor, LentAudio, LentVideo
  <2> QED
    BY <2>1, <2>2, LentHasOwner DEF Orphan
<1>2. Cleared(ty) = ToClear(ty)
  BY <1>1 DEF Cleared, Met
<1> QED
  BY <1>2, UndisturbedMeans DEF Clear, ClearAborted

-----------------------------------------------------------------------------
(* What the window handlers do to the ranks: the one opened goes on top,   *)
(* the one raised too and those above it close the gap, and so they do for *)
(* the one closed.                                                         *)
LEMMA OneDown ==
  ASSUME NEW p \in 1..(U32 - 1)
  PROVE  (p + U32 - 1) % U32 = p - 1
<1>1. U32 \in Nat \ {0} /\ p - 1 \in 0..(U32 - 1)
  BY HandlerAssumption
<1>2. p + U32 - 1 = (p - 1) + 1 * U32
  BY <1>1
<1> QED
  BY <1>1, <1>2

LEMMA OpenedRanks ==
  ASSUME NEW S, NEW n \in Nat, NEW f, NEW g, RankedBy(f, S, n),
         NEW id, id \notin S, g[id] = n, \A i \in S : g[i] = f[i]
  PROVE  RankedBy(g, S \cup {id}, n + 1)
<1>1. \A i \in S \cup {id} : g[i] \in 0..n
  BY DEF RankedBy
<1>2. \A i, j \in S \cup {id} : g[i] = g[j] => i = j
  BY DEF RankedBy
<1>3. \A p \in 0..n : \E i \in S \cup {id} : g[i] = p
  BY DEF RankedBy
<1> QED
  BY <1>1, <1>2, <1>3 DEF RankedBy

LEMMA RaisedRanks ==
  ASSUME NEW S, NEW n \in Nat, NEW f, NEW g, RankedBy(f, S, n), NEW id \in S,
         \A i \in S : g[i] = IF i = id THEN n - 1 ELSE IF f[i] > f[id] THEN f[i] - 1 ELSE f[i]
  PROVE  RankedBy(g, S, n)
<1>1. \A i \in S : f[i] \in 0..(n - 1) /\ (i # id => f[i] # f[id])
  BY DEF RankedBy
<1>2. \A i \in S : g[i] \in 0..(n - 1)
  BY <1>1
<1>3. ASSUME NEW i \in S, NEW j \in S, g[i] = g[j]
      PROVE  f[i] = f[j]
  BY <1>1, <1>3
<1>4. ASSUME NEW p \in 0..(n - 1)
      PROVE  \E i \in S : g[i] = p
  <2>1. CASE p = n - 1
    BY <2>1
  <2>2. CASE p < f[id]
    BY <1>1, <2>2 DEF RankedBy
  <2>3. CASE p >= f[id] /\ p < n - 1
    <3>1. PICK i \in S : f[i] = p + 1
      BY <2>3 DEF RankedBy
    <3> QED
      BY <1>1, <2>3, <3>1
  <2> QED
    BY <1>1, <2>1, <2>2, <2>3
<1>5. \A i, j \in S : g[i] = g[j] => i = j
  BY <1>3 DEF RankedBy
<1> QED
  BY <1>2, <1>4, <1>5 DEF RankedBy

LEMMA ClosedRanks ==
  ASSUME NEW S, NEW n \in Nat, NEW f, NEW g, RankedBy(f, S, n), NEW id \in S,
         \A i \in S \ {id} : g[i] = IF f[i] > f[id] THEN f[i] - 1 ELSE f[i]
  PROVE  RankedBy(g, S \ {id}, n - 1)
<1>1. \A i \in S : f[i] \in 0..(n - 1) /\ (i # id => f[i] # f[id])
  BY DEF RankedBy
<1>2. \A i \in S \ {id} : g[i] \in 0..(n - 2)
  BY <1>1
<1>3. ASSUME NEW i \in S \ {id}, NEW j \in S \ {id}, g[i] = g[j]
      PROVE  i = j
  <2>1. f[i] = f[j]
    BY <1>1, <1>3
  <2> QED
    BY <2>1 DEF RankedBy
<1>4. ASSUME NEW p \in 0..(n - 2)
      PROVE  \E i \in S \ {id} : g[i] = p
  <2>1. CASE p < f[id]
    <3>1. PICK i \in S : f[i] = p
      BY <1>1 DEF RankedBy
    <3> QED
      BY <1>1, <2>1, <3>1
  <2>2. CASE p >= f[id]
    <3>1. PICK i \in S : f[i] = p + 1
      BY DEF RankedBy
    <3> QED
      BY <1>1, <2>2, <3>1
  <2> QED
    BY <1>1, <2>1, <2>2
<1> QED
  BY <1>2, <1>3, <1>4 DEF RankedBy

(* The list has as many entries as there are windows, and its last is the  *)
(* priority of the top.                                                    *)
LEMMA ListOfPriorities ==
  ASSUME IInv, Calm
  PROVE  /\ Len(winPriority) \in 0..MaxPriorities
         /\ winPriority = StackOf(Len(winPriority))
         /\ Len(winPriority) # 0 => Back = Len(winPriority) - 1
         /\ winPriority = <<>> <=> Len(winPriority) = 0
         /\ \A i \in LentVideo : /\ i \in CodecID
                                 /\ dec[i].prio \in 0..(Len(winPriority) - 1)
                                 /\ dec[i].prio \in 0..(U32 - 1)
<1>1. PICK n \in 0..MaxPriorities : winPriority = StackOf(n)
  BY DEF IInv, Stacked
<1>2. Len(winPriority) = n /\ winPriority \in Seq(0..(U32 - 1))
  BY <1>1, StackIsSorted
<1>3. \A i \in LentVideo : i \in CodecID
  BY PoolsApart DEF LentVideo
<1>4. \A i \in LentVideo : dec[i].prio \in 0..(n - 1)
  BY <1>2, <1>3 DEF Calm, Ranked, RankedBy, Prio
<1>5. n \in Nat /\ n - 1 <= U32 - 1 /\ U32 \in Nat
  BY HandlerAssumption
<1>6. n > 0 => Back = n - 1
  BY <1>1, PushAndPop
<1> QED
  BY <1>1, <1>2, <1>3, <1>4, <1>5, <1>6

-----------------------------------------------------------------------------
(* The handlers, record by record.                                         *)
LEMMA OpenEffect ==
  ASSUME IInv, Calm, Undisturbed, NEW th \in WindowID, NEW src \in SrcVideo, OpenDone(th, src)
  PROVE  \E id \in AuViTaskID \ ids.used :
           /\ id \in CodecID
           /\ th \notin DOMAIN ids.third
           /\ ids'.third = Put(ids.third, th, id)
           /\ ids'.used = ids.used \cup {id}
           /\ LentVideo' = LentVideo \cup {id} /\ LentAudio' = LentAudio
           /\ dec'[id].open = 2 /\ dec'[id].swms /\ dec'[id].crop = src
           /\ dec'[id].prio = Len(winPriority)
           /\ \A i \in CodecID \ {id} : dec'[i] = dec[i]
           /\ codec' = [codec EXCEPT ![id] = dec'[id]]
           /\ winPriority' = StackOf(Len(winPriority) + 1)
           /\ Len(winPriority') = Len(winPriority) + 1
           /\ srcInfo' = Insert(srcInfo, th, src)
           /\ swmsDecInfo' = Insert(swmsDecInfo, SwmsChn[id], Copy(dec', id))
<1> DEFINE id == FindNewID(ids, th, "auvi")
           n == Len(winPriority)
<1>1. IsTaskID(id) /\ id \in AuViTaskID /\ id \notin ids.used /\ th \notin DOMAIN ids.third
  BY FoundIsFree DEF OpenDone, TaskType, Pool
<1>2. id \in CodecID /\ id \notin AudioTaskID
  BY <1>1, PoolsApart
<1>3. ids'.third = Put(ids.third, th, id) /\ ids'.used = ids.used \cup {id}
  BY <1>1 DEF OpenDone, Lend
<1>4. n \in 0..MaxPriorities /\ n < MaxPriorities /\ winPriority = StackOf(n)
  BY ListOfPriorities DEF OpenDone
<1>5. NextPriority = n /\ Pushed = StackOf(n + 1)
  BY <1>4, PushAndPop
<1>6. winPriority' = StackOf(n + 1) /\ dec' = Opened(id, src) /\ codec' = Sent(dec', id, "ok")
  BY <1>5 DEF OpenDone
<1>7. Len(winPriority') = n + 1
  <2>1. n + 1 \in 0..MaxPriorities
    BY <1>4, HandlerAssumption
  <2> QED
    BY <1>6, <2>1, StackIsSorted
<1>8. dec \in [CodecID -> AVDec] /\ dec[id] \in AVDec
  BY <1>2 DEF IInv, RecordsOK
<1> HIDE DEF id, n
<1>9. /\ dec'[id].open = 2 /\ dec'[id].swms /\ dec'[id].crop = src /\ dec'[id].prio = n
      /\ \A i \in CodecID \ {id} : dec'[i] = dec[i]
  BY <1>2, <1>5, <1>6, <1>8 DEF Opened, AVDec
<1>10. LentVideo' = LentVideo \cup {id} /\ LentAudio' = LentAudio
  BY <1>1, <1>2, <1>3 DEF LentVideo, LentAudio
<1>11. codec' = [codec EXCEPT ![id] = dec'[id]]
  BY <1>6 DEF Sent
<1>12. /\ srcInfo' = Insert(srcInfo, th, src)
       /\ swmsDecInfo' = Insert(swmsDecInfo, SwmsChn[id], Copy(dec', id))
  BY DEF OpenDone, id
<1> QED
  BY <1>1, <1>2, <1>3, <1>6, <1>7, <1>9, <1>10, <1>11, <1>12 DEF n

(* The other windows that a raised or closed window was below.             *)
LEMMA LoweredWindows ==
  ASSUME IInv, Calm, NEW id \in LentVideo, NEW d \in [CodecID -> AVDec],
         \A i \in CodecID \ {id} : d[i] = dec[i]
  PROVE  LET others == Above(d, id, dec[id].prio)
         IN /\ id \notin others
            /\ others \subseteq LentVideo
            /\ \A i \in CodecID \ {id} :
                 /\ Lowered(d, others)[i].open = dec[i].open
                 /\ Lowered(d, others)[i].swms = dec[i].swms
                 /\ Lowered(d, others)[i].crop = dec[i].crop
                 /\ Lowered(d, others)[i].dev = dec[i].dev
                 /\ i \in LentVideo =>
                      Lowered(d, others)[i].prio =
                        IF dec[i].prio > dec[id].prio THEN dec[i].prio - 1 ELSE dec[i].prio
            /\ Lowered(d, others)[id] = d[id]
<1> DEFINE others == Above(d, id, dec[id].prio)
           low == Lowered(d, others)
<1>1. id \notin others
  BY DEF Above
<1>2. ASSUME NEW i \in CodecID \ {id}, dec[i].swms
      PROVE  i \in LentVideo
  BY <1>2 DEF Calm, RecordsMatch
<1>3. others \subseteq LentVideo
  BY <1>2 DEF Above
<1>4. ASSUME NEW i \in LentVideo \ {id}
      PROVE  /\ dec[i].swms /\ i \in CodecID
             /\ dec[i].prio # dec[id].prio
             /\ dec[i].prio \in 0..(U32 - 1) /\ dec[id].prio \in 0..(U32 - 1)
  <2>1. id \in CodecID /\ i \in CodecID
    BY ListOfPriorities
  <2>2. dec[i].prio # dec[id].prio
    BY <2>1 DEF Calm, Ranked, RankedBy, Prio
  <2>3. dec[i].swms
    BY <2>1 DEF Calm, RecordsMatch
  <2> QED
    BY <2>1, <2>2, <2>3, ListOfPriorities
<1>5. \A i \in LentVideo \ {id} : i \in others <=> dec[i].prio > dec[id].prio
  BY <1>4 DEF Above
<1> HIDE DEF others
<1>6. ASSUME NEW i \in CodecID \ {id}
      PROVE  /\ low[i].open = dec[i].open
             /\ low[i].swms = dec[i].swms
             /\ low[i].crop = dec[i].crop
             /\ low[i].dev = dec[i].dev
             /\ i \in others => low[i].prio = (dec[i].prio + U32 - 1) % U32
             /\ i \notin others => low[i].prio = dec[i].prio
  <2>1. d[i] = dec[i] /\ d[i] \in AVDec
    OBVIOUS
  <2> QED
    BY <2>1 DEF Lowered, AVDec
<1>7. ASSUME NEW i \in CodecID \ {id}, i \in LentVideo
      PROVE  low[i].prio =
               IF dec[i].prio > dec[id].prio THEN dec[i].prio - 1 ELSE dec[i].prio
  <2>1. CASE dec[i].prio > dec[id].prio
    <3>1. dec[i].prio \in 1..(U32 - 1)
      BY <1>4, <1>7, <2>1, HandlerAssumption
    <3>2. i \in others
      BY <1>5, <1>7, <2>1
    <3> QED
      BY <1>6, <2>1, <3>1, <3>2, OneDown
  <2>2. CASE ~(dec[i].prio > dec[id].prio)
    BY <1>5, <1>6, <1>7, <2>2
  <2> QED
    BY <2>1, <2>2
<1>8. low[id] = d[id]
  <2>1. id \in CodecID
    BY ListOfPriorities
  <2> QED
    BY <1>1, <2>1 DEF Lowered
<1> QED
  BY <1>1, <1>3, <1>6, <1>7, <1>8 DEF others

(* Without losses what the handler sends leaves the codec in step.         *)
LEMMA AllArrive ==
  ASSUME IInv, Calm, Lossless, NEW id \in CodecID, NEW d \in [CodecID -> AVDec],
         \A i \in CodecID \ {id} : d[i] = dec[i], NEW others, id \notin others,
         NEW c, \E S \in Arrivals(others) : c = Arrived(Sent(d, id, "ok"), Lowered(d, others), S)
  PROVE  c = Lowered(d, others)
<1> DEFINE low == Lowered(d, others)
<1>1. c = Arrived(Sent(d, id, "ok"), low, others)
  BY DEF Lossless, Arrivals
<1>2. codec = dec /\ codec \in [CodecID -> AVDec]
  BY DEF Calm, IInv, RecordsOK
<1>3. \A i \in CodecID : Sent(d, id, "ok")[i] = d[i]
  BY <1>2 DEF Sent
<1>4. \A i \in CodecID : i \notin others => low[i] = d[i]
  BY DEF Lowered
<1>5. low \in [CodecID -> AVDec]
  BY LoweredIsTyped
<1> HIDE DEF low
<1>6. c = [i \in CodecID |-> low[i]]
  BY <1>1, <1>3, <1>4 DEF Arrived
<1> QED
  BY <1>5, <1>6 DEF low

LEMMA RaiseEffect ==
  ASSUME IInv, Calm, Undisturbed, NEW th \in WindowID, NEW src \in SrcVideo,
         NEW show \in BOOLEAN, RaiseDone(th, src, show)
  PROVE  \E id \in LentVideo :
           /\ id \in CodecID
           /\ th \in DOMAIN ids.third /\ ids.third[th] = id
           /\ UNCHANGED <<ids, winPriority, aoCodec, clearVars>>
           /\ dec'[id].open = dec[id].open /\ dec'[id].swms = dec[id].swms
           /\ dec'[id].dev = dec[id].dev /\ dec'[id].crop = src
           /\ dec'[id].prio = Len(winPriority) - 1
           /\ \A i \in CodecID \ {id} :
                /\ dec'[i].open = dec[i].open /\ dec'[i].swms = dec[i].swms
                /\ dec'[i].dev = dec[i].dev /\ dec'[i].crop = dec[i].crop
                /\ i \in LentVideo =>
                     dec'[i].prio =
                       IF dec[i].prio > dec[id].prio THEN dec[i].prio - 1 ELSE dec[i].prio
           /\ codec'[id] = dec'[id]
           /\ Lossless => codec' = dec'
           /\ srcInfo' = Put(srcInfo, th, src)
           /\ \E x : swmsDecInfo' = Put(swmsDecInfo, SwmsChn[id], x) /\ x.id = id
<1> DEFINE id == ids.third[th]
           n == Len(winPriority)
           d == [Raised(id, src) EXCEPT ![id].swms = @ \/ show]
           others == Above(d, id, dec[id].prio)
<1>1. th \in DOMAIN ids.third /\ winPriority # <<>>
  BY DEF RaiseDone, Known, HasTask
<1>2. id \in LentVideo /\ id \in CodecID
  BY <1>1, OwnedTask
<1>3. dec \in [CodecID -> AVDec] /\ dec[id] \in AVDec /\ dec[id].swms
  BY <1>2 DEF IInv, RecordsOK, Calm, RecordsMatch
<1>4. Back = n - 1 /\ n # 0
  BY <1>1, ListOfPriorities
<1>5. d \in [CodecID -> AVDec]
  <2>1. Raised(id, src) \in [CodecID -> AVDec]
    BY <1>1, <1>2, WindowRecordsStayTyped
  <2>2. [Raised(id, src)[id] EXCEPT !.swms = @ \/ show] \in AVDec
    BY <2>1, <1>2 DEF AVDec
  <2> QED
    BY <2>1, <2>2
<1>6. /\ d[id].open = dec[id].open /\ d[id].swms = dec[id].swms
      /\ d[id].dev = dec[id].dev /\ d[id].crop = src /\ d[id].prio = n - 1
      /\ \A i \in CodecID \ {id} : d[i] = dec[i]
  <2>1. d[id].open = dec[id].open /\ d[id].dev = dec[id].dev /\ d[id].crop = src
        /\ d[id].prio = Back
    BY <1>2, <1>3 DEF Raised, AVDec
  <2>2. d[id].swms = dec[id].swms
    BY <1>2, <1>3 DEF Raised, AVDec
  <2>3. \A i \in CodecID \ {id} : d[i] = dec[i]
    BY <1>3 DEF Raised
  <2> QED
    BY <2>1, <2>2, <2>3, <1>4
<1>7. /\ dec' = Lowered(d, others)
      /\ \E S \in Arrivals(others) : codec' = Arrived(Sent(d, id, "ok"), dec', S)
      /\ UNCHANGED <<ids, winPriority, aoCodec, clearVars>>
      /\ srcInfo' = Put(srcInfo, th, src)
      /\ swmsDecInfo' = Put(swmsDecInfo, SwmsChn[id], Copy(d, id))
  BY DEF RaiseDone
<1> HIDE DEF id, n, d
<1>8. Copy(d, id).id = id
  BY DEF Copy
<1>9. id \notin others /\ dec'[id] = d[id]
  BY <1>2, <1>5, <1>6, <1>7, LoweredWindows
<1>10. \A i \in CodecID \ {id} :
         /\ dec'[i].open = dec[i].open /\ dec'[i].swms = dec[i].swms
         /\ dec'[i].dev = dec[i].dev /\ dec'[i].crop = dec[i].crop
         /\ i \in LentVideo =>
              dec'[i].prio = IF dec[i].prio > dec[id].prio THEN dec[i].prio - 1 ELSE dec[i].prio
  BY <1>2, <1>5, <1>6, <1>7, LoweredWindows
<1> HIDE DEF others
<1>11. codec'[id] = dec'[id]
  <2>1. codec \in [CodecID -> AVDec]
    BY DEF IInv, RecordsOK
  <2>2. Sent(d, id, "ok")[id] = d[id]
    BY <1>2, <2>1 DEF Sent
  <2> QED
    BY <1>2, <1>7, <1>9, <2>2 DEF Arrived
<1>12. Lossless => codec' = dec'
  BY <1>2, <1>5, <1>6, <1>7, <1>9, AllArrive
<1> QED
  BY <1>1, <1>2, <1>6, <1>7, <1>8, <1>9, <1>10, <1>11, <1>12 DEF id, n

LEMMA CloseEffect ==
  ASSUME IInv, Calm, Undisturbed, NEW th \in WindowID, CloseWindow(th)
  PROVE  \E id \in LentVideo :
           /\ id \in CodecID
           /\ th \in DOMAIN ids.third /\ ids.third[th] = id
           /\ ids'.third = Erase(ids.third, th)
           /\ ids'.used = ids.used \ {id}
           /\ LentVideo' = LentVideo \ {id} /\ LentAudio' = LentAudio
           /\ dec'[id].open = 0 /\ ~dec'[id].swms
           /\ \A i \in CodecID \ {id} :
                /\ dec'[i].open = dec[i].open /\ dec'[i].swms = dec[i].swms
                /\ dec'[i].dev = dec[i].dev /\ dec'[i].crop = dec[i].crop
                /\ i \in LentVideo =>
                     dec'[i].prio =
                       IF dec[i].prio > dec[id].prio THEN dec[i].prio - 1 ELSE dec[i].prio
           /\ Lossless => codec' = dec'
           /\ winPriority' = StackOf(Len(winPriority) - 1)
           /\ Len(winPriority') = Len(winPriority) - 1
           /\ srcInfo' = Erase(srcInfo, th)
           /\ swmsDecInfo' = Erase(swmsDecInfo, SwmsChn[id])
           /\ UNCHANGED <<aoCodec, clearVars>>
<1> DEFINE id == ids.third[th]
           n == Len(winPriority)
           d == Hidden(id)
           others == Above(d, id, d[id].prio)
<1>1. th \in DOMAIN ids.third
  BY DEF CloseWindow, Known, HasTask
<1>2. id \in LentVideo /\ id \in CodecID /\ id \in ids.used
  BY <1>1, OwnedTask
<1>3. dec \in [CodecID -> AVDec] /\ dec[id] \in AVDec
  BY <1>2 DEF IInv, RecordsOK
<1>4. ids'.third = Erase(ids.third, th) /\ ids'.used = ids.used \ {id}
  <2>1. TypeOfID(id) # "none"
    BY <1>2, TypeOfCodecID DEF TaskType
  <2>2. ids' = RemoveCodecTaskID(ids, th)
    BY DEF CloseWindow
  <2> QED
    BY <1>1, <1>2, <2>1, <2>2 DEF RemoveCodecTaskID
<1>5. LentVideo' = LentVideo \ {id} /\ LentAudio' = LentAudio
  BY <1>2, <1>4, PoolsApart DEF LentVideo, LentAudio
<1>6. d \in [CodecID -> AVDec]
  BY <1>2, RecordsStayTyped
<1>7. /\ d[id].open = 0 /\ ~d[id].swms /\ d[id].prio = dec[id].prio
      /\ \A i \in CodecID \ {id} : d[i] = dec[i]
  BY <1>2, <1>3 DEF Hidden, AVDec
<1>8. /\ dec' = Lowered(d, others)
      /\ \E S \in Arrivals(others) : codec' = Arrived(Sent(d, id, "ok"), dec', S)
      /\ srcInfo' = Erase(srcInfo, th)
      /\ swmsDecInfo' = Erase(swmsDecInfo, SwmsChn[id])
      /\ UNCHANGED <<aoCodec, clearVars>>
      /\ winPriority' = IF winPriority = <<>> THEN <<>> ELSE Sorted(Front(winPriority))
  BY DEF CloseWindow
<1>9. winPriority' = StackOf(n - 1) /\ Len(winPriority') = n - 1
  <2>1. n \in 0..MaxPriorities /\ winPriority = StackOf(n) /\ n # 0 /\ winPriority # <<>>
    BY <1>2, ListOfPriorities
  <2>2. n > 0 /\ n - 1 \in 0..MaxPriorities
    BY <2>1, HandlerAssumption
  <2>3. Front(winPriority) = StackOf(n - 1)
    BY <2>1, <2>2, PushAndPop
  <2> QED
    BY <1>8, <2>1, <2>2, <2>3, StackIsSorted
<1> HIDE DEF id, n, d
<1>10. id \notin others /\ dec'[id] = d[id]
  BY <1>2, <1>6, <1>7, <1>8, LoweredWindows
<1>11. \A i \in CodecID \ {id} :
         /\ dec'[i].open = dec[i].open /\ dec'[i].swms = dec[i].swms
         /\ dec'[i].dev = dec[i].dev /\ dec'[i].crop = dec[i].crop
         /\ i \in LentVideo =>
              dec'[i].prio = IF dec[i].prio > dec[id].prio THEN dec[i].prio - 1 ELSE dec[i].prio
  BY <1>2, <1>6, <1>7, <1>8, LoweredWindows
<1> HIDE DEF others
<1>12. Lossless => codec' = dec'
  BY <1>2, <1>6, <1>7, <1>8, <1>10, AllArrive
<1> QED
  BY <1>1, <1>2, <1>4, <1>5, <1>7, <1>8, <1>9, <1>10, <1>11, <1>12 DEF id, n

(* Whatever the kind, a clear ends every window, and leaves an audio       *)
(* stream only when it is of the video kind.                               *)
LEMMA ClearEffect ==
  ASSUME IInv, Calm, Undisturbed, NEW ty \in ClearTypes, ClearAllTask(ty, "ok")
  PROVE  /\ LentVideo' = {} /\ LentAudio' = IF ty = 0 THEN LentAudio ELSE {}
         /\ ty \in {0, 2} /\ (ty = 2 => LentAudio = {})
         /\ ids'.third = [th \in {x \in DOMAIN ids.third : ids.third[x] \in LentAudio}
                            |-> ids.third[th]]
         /\ \A i \in CodecID :
              /\ dec'[i].open = (IF i \in LentAudio THEN dec[i].open ELSE 0)
              /\ dec'[i].swms = FALSE
              /\ dec'[i].dev = dec[i].dev
         /\ Lossless => codec' = dec'
         /\ winPriority' = <<>> /\ swmsDecInfo' = EmptyMap
         /\ DOMAIN srcInfo' = {}
         /\ UNCHANGED <<aoCodec, worker>> /\ ~isClearTasking'
<1> DEFINE S == ToClear(ty)
<1>1. ty \in {0, 2} /\ (ty = 2 => AudioID = {})
  BY UndisturbedMeans DEF Undisturbed
<1>2. ty = 2 => LentAudio = {}
  <2> SUFFICES ASSUME ty = 2, NEW i \in LentAudio
               PROVE  FALSE
    OBVIOUS
  <2>1. PICK th \in DOMAIN ids.third : ids.third[th] = i
    BY LentHasOwner DEF LentAudio
  <2>2. i \in AuViTaskID
    BY <1>1, <2>1 DEF Calm, Owned, OwnerTypes
  <2> QED
    BY <2>2, PoolsApart DEF LentAudio
<1>3. \A i \in CodecID : i \in S <=> i \in LentVideo
  <2>1. \A i \in CodecID : dec[i].open # 0 <=> i \in LentVideo \/ i \in LentAudio
    BY DEF Calm, RecordsMatch, OpenFor
  <2>2. \A i \in CodecID : i \in LentVideo => i \in OfClearType(ty)
    BY <1>1, PoolsApart DEF LentVideo, OfClearType
  <2>3. ty = 0 => \A i \in LentAudio : i \notin OfClearType(ty)
    BY PoolsApart DEF LentAudio, OfClearType
  <2> QED
    BY <1>1, <1>2, <2>1, <2>2, <2>3 DEF ToClear
<1>4. S = LentVideo
  <2>1. S \subseteq CodecID
    BY HandlerAssumption DEF ToClear, OfClearType, CodecID
  <2> QED
    BY <1>3, <2>1, ListOfPriorities
<1>5. /\ ids' = GiveBack(S)
      /\ dec' = AllHidden(S)
      /\ codec' = [i \in CodecID |->
                     IF i \in S THEN [codec[i] EXCEPT !.open = 0, !.swms = FALSE] ELSE codec[i]]
      /\ srcInfo' = [th \in DOMAIN srcInfo \ {FirstBorrower(i) : i \in S} |-> srcInfo[th]]
      /\ winPriority' = <<>> /\ swmsDecInfo' = EmptyMap
      /\ UNCHANGED <<aoCodec, worker>> /\ ~isClearTasking'
  BY DEF ClearAllTask
<1>6. ids'.used = ids.used \ S
  BY <1>5 DEF GiveBack
<1>7. LentVideo' = {} /\ LentAudio' = LentAudio
  BY <1>4, <1>6, PoolsApart DEF LentVideo, LentAudio
<1>8. ASSUME NEW i \in S
      PROVE  FirstBorrower(i) \in DOMAIN ids.third /\ ids.third[FirstBorrower(i)] = i
  <2>1. Borrowers(ids, i) \in SUBSET Nat /\ Borrowers(ids, i) # {}
    BY <1>4, TaskIDAssumption, LentHasOwner
       DEF IInv, TablesInv, AreTables, IsMap, Borrowers, LentVideo
  <2> QED
    BY <2>1, LeastInSet DEF FirstBorrower, Borrowers
<1>9. \A th \in DOMAIN ids.third :
        th \in {FirstBorrower(i) : i \in S} <=> ids.third[th] \in LentVideo
  BY <1>4, <1>8 DEF Calm, Owned, LentOnce
<1>10. \A th \in DOMAIN ids.third : ids.third[th] \notin LentVideo <=> ids.third[th] \in LentAudio
  <2>1. \A th \in DOMAIN ids.third : ids.third[th] \in LentVideo \/ ids.third[th] \in LentAudio
    BY OwnedTask, LentHasOwner DEF LentVideo, LentAudio
  <2> QED
    BY <2>1, PoolsApart DEF LentVideo, LentAudio
<1>11. ids'.third = [th \in {x \in DOMAIN ids.third : ids.third[x] \in LentAudio}
                       |-> ids.third[th]]
  <2>1. DOMAIN ids.third \ {FirstBorrower(i) : i \in S}
          = {x \in DOMAIN ids.third : ids.third[x] \in LentAudio}
    BY <1>9, <1>10
  <2> QED
    BY <1>5, <2>1 DEF GiveBack
<1>12. DOMAIN srcInfo' = {}
  <2>1. \A th \in DOMAIN srcInfo : th \in DOMAIN ids.third /\ ids.third[th] \in LentVideo
    <3>1. \A th \in DOMAIN srcInfo : th \in DOMAIN ids.third /\ ids.third[th] \in AuViTaskID
      BY DEF Calm, SourcesFollow
    <3> QED
      BY <3>1, OwnedTask DEF LentVideo
  <2>2. DOMAIN srcInfo' = DOMAIN srcInfo \ {FirstBorrower(i) : i \in S}
    BY <1>5
  <2> QED
    BY <1>9, <2>1, <2>2
<1>13. ASSUME NEW i \in CodecID
       PROVE  /\ dec'[i].open = (IF i \in LentAudio THEN dec[i].open ELSE 0)
              /\ dec'[i].swms = FALSE
              /\ dec'[i].dev = dec[i].dev
  <2>1. dec[i] \in AVDec
    BY DEF IInv, RecordsOK
  <2>2. dec[i].open = OpenFor(i) /\ (dec[i].swms <=> i \in LentVideo)
    BY DEF Calm, RecordsMatch
  <2>3. CASE i \in LentVideo
    <3>1. i \notin LentAudio /\ dec'[i] = [dec[i] EXCEPT !.open = 0, !.swms = FALSE]
      BY <1>4, <1>5, <2>3, PoolsApart DEF AllHidden, LentVideo, LentAudio
    <3> QED
      BY <2>1, <3>1 DEF AVDec
  <2>4. CASE i \notin LentVideo
    <3>1. dec'[i] = dec[i]
      BY <1>4, <1>5, <2>4 DEF AllHidden
    <3>2. dec[i].swms \in BOOLEAN
      BY <2>1 DEF AVDec
    <3> QED
      BY <2>2, <2>4, <3>1, <3>2 DEF OpenFor
  <2> QED
    BY <2>3, <2>4
<1>14. Lossless => codec' = dec'
  BY <1>5 DEF Calm, AllHidden
<1> QED
  BY <1>1, <1>2, <1>5, <1>7, <1>11, <1>12, <1>13, <1>14

-----------------------------------------------------------------------------
(* Each handler keeps the invariant.                                       *)
LEMMA DevicesStay ==
  ASSUME Calm, aoCodec' = aoCodec, LentAudio' = LentAudio,
         \A i \in LentAudio : dec'[i].dev = dec[i].dev
  PROVE  DevicesBound'
BY DEF Calm, DevicesBound, DevicesHeld, LentAudio

(* The channel of a window is its own.                                     *)
LEMMA ChannelsApart ==
  ASSUME NEW i \in AuViTaskID, NEW j \in AuViTaskID, SwmsChn[i] = SwmsChn[j]
  PROVE  i = j
BY HandlerAssumption

LEMMA CalmOpen ==
  ASSUME IInv, Calm, Undisturbed, Owned', NEW th \in WindowID, NEW src \in SrcVideo,
         WindowOpened(th, src)
  PROVE  Calm'
<1> DEFINE n == Len(winPriority)
<1>1. OpenDone(th, src) /\ n \in Nat
  BY ListOfPriorities, HandlerAssumption DEF WindowOpened
<1>2. PICK id \in AuViTaskID \ ids.used :
         /\ id \in CodecID
         /\ th \notin DOMAIN ids.third
         /\ ids'.third = Put(ids.third, th, id)
         /\ ids'.used = ids.used \cup {id}
         /\ LentVideo' = LentVideo \cup {id} /\ LentAudio' = LentAudio
         /\ dec'[id].open = 2 /\ dec'[id].swms /\ dec'[id].crop = src
         /\ dec'[id].prio = n
         /\ \A i \in CodecID \ {id} : dec'[i] = dec[i]
         /\ codec' = [codec EXCEPT ![id] = dec'[id]]
         /\ winPriority' = StackOf(n + 1)
         /\ Len(winPriority') = n + 1
         /\ srcInfo' = Insert(srcInfo, th, src)
         /\ swmsDecInfo' = Insert(swmsDecInfo, SwmsChn[id], Copy(dec', id))
  BY <1>1, OpenEffect
<1>3. id \notin LentVideo /\ id \notin LentAudio
  BY <1>2 DEF LentVideo, LentAudio
<1>4. RecordsMatch'
  <2>1. ASSUME NEW i \in CodecID
        PROVE  dec'[i].open = OpenFor(i)' /\ (dec'[i].swms <=> i \in LentVideo')
    BY <1>2, <1>3, <2>1, PoolsApart DEF Calm, RecordsMatch, OpenFor
  <2> QED
    BY <2>1 DEF RecordsMatch
<1>5. Ranked'
  <2>1. Prio(dec)'[id] = n /\ \A i \in LentVideo : Prio(dec)'[i] = Prio(dec)[i]
    BY <1>2, <1>3, ListOfPriorities DEF Prio
  <2>2. RankedBy(Prio(dec)', LentVideo \cup {id}, n + 1)
    BY <1>1, <1>3, <2>1, OpenedRanks DEF Calm, Ranked
  <2> QED
    BY <1>2, <2>2 DEF Ranked
<1>6. th \notin DOMAIN srcInfo /\ SwmsChn[id] \notin DOMAIN swmsDecInfo
  <2>1. th \notin DOMAIN srcInfo
    BY <1>2 DEF Calm, SourcesFollow
  <2>2. \A i \in LentVideo : SwmsChn[i] # SwmsChn[id]
    BY <1>2, <1>3, ChannelsApart DEF LentVideo
  <2> QED
    BY <2>1, <2>2 DEF Calm, ChannelsFollow
<1>7. SourcesFollow'
  <2>1. srcInfo' = Put(srcInfo, th, src)
    BY <1>2, <1>6 DEF Insert
  <2>2. \A x \in DOMAIN ids.third : ids.third[x] \in CodecID \ {id}
    BY <1>2, OwnedTask
  <2>3. DOMAIN ids'.third = DOMAIN ids.third \cup {th} /\ ids'.third[th] = id
        /\ \A x \in DOMAIN ids.third : ids'.third[x] = ids.third[x]
    BY <1>2 DEF Put
  <2>4. DOMAIN srcInfo' = DOMAIN srcInfo \cup {th} /\ srcInfo'[th] = src
        /\ \A x \in DOMAIN srcInfo : x # th => srcInfo'[x] = srcInfo[x]
    BY <2>1 DEF Put
  <2> QED
    BY <1>2, <1>6, <2>2, <2>3, <2>4 DEF Calm, SourcesFollow
<1>8. ChannelsFollow'
  <2>1. swmsDecInfo' = Put(swmsDecInfo, SwmsChn[id], Copy(dec', id))
    BY <1>2, <1>6 DEF Insert
  <2>2. Copy(dec', id).id = id
    BY DEF Copy
  <2>3. \A i \in LentVideo : SwmsChn[i] # SwmsChn[id]
    BY <1>6 DEF Calm, ChannelsFollow
  <2> QED
    BY <1>2, <2>1, <2>2, <2>3 DEF Calm, ChannelsFollow, Put
<1>9. DevicesBound' /\ NotClearing'
  <2>1. UNCHANGED <<aoCodec, clearVars>>
    BY <1>1 DEF OpenDone
  <2>2. \A i \in LentAudio : dec'[i].dev = dec[i].dev
    BY <1>2, <1>3, PoolsApart DEF LentAudio
  <2> QED
    BY <1>2, <2>1, <2>2, DevicesStay DEF Calm, NotClearing, clearVars
<1>10. codec'[id] = dec'[id] /\ (Lossless => codec' = dec')
  <2>1. codec \in [CodecID -> AVDec] /\ dec \in [CodecID -> AVDec]
    BY DEF IInv, RecordsOK
  <2>2. dec' = [dec EXCEPT ![id] = dec'[id]]
    <3>1. dec' = Opened(FindNewID(ids, th, "auvi"), src)
      BY <1>1 DEF OpenDone
    <3>2. DOMAIN dec' = CodecID /\ dec' = [i \in CodecID |-> dec'[i]]
      BY <2>1, <3>1 DEF Opened
    <3> QED
      BY <1>2, <2>1, <3>2
  <2> QED
    BY <1>2, <2>1, <2>2 DEF Calm
<1>11. Answered'
  <2>1. PICK cmd \in {"open", "create"} : reply' = Reply(cmd, th, TRUE)
    BY DEF WindowOpened
  <2>2. reply'.third = th /\ reply'.cmd \in {"open", "create"}
    BY <2>1 DEF Reply
  <2>3. th \in DOMAIN ids'.third /\ ids'.third[th] = id
    BY <1>2 DEF Put
  <2> QED
    BY <1>1, <1>2, <1>10, <2>2, <2>3 DEF Answered
<1> QED
  BY <1>4, <1>5, <1>7, <1>8, <1>9, <1>10, <1>11 DEF Calm, Lossless

LEMMA CalmRaise ==
  ASSUME IInv, Calm, Undisturbed, Owned', NEW th \in WindowID, NEW src \in SrcVideo,
         WindowRaised(th, src)
  PROVE  Calm'
<1> DEFINE n == Len(winPriority)
<1>1. n \in Nat /\ \E show \in BOOLEAN : RaiseDone(th, src, show)
  BY ListOfPriorities, HandlerAssumption DEF WindowRaised
<1>2. PICK id \in LentVideo :
         /\ id \in CodecID
         /\ th \in DOMAIN ids.third /\ ids.third[th] = id
         /\ UNCHANGED <<ids, winPriority, aoCodec, clearVars>>
         /\ dec'[id].open = dec[id].open /\ dec'[id].swms = dec[id].swms
         /\ dec'[id].dev = dec[id].dev /\ dec'[id].crop = src
         /\ dec'[id].prio = n - 1
         /\ \A i \in CodecID \ {id} :
              /\ dec'[i].open = dec[i].open /\ dec'[i].swms = dec[i].swms
              /\ dec'[i].dev = dec[i].dev /\ dec'[i].crop = dec[i].crop
              /\ i \in LentVideo =>
                   dec'[i].prio =
                     IF dec[i].prio > dec[id].prio THEN dec[i].prio - 1 ELSE dec[i].prio
         /\ codec'[id] = dec'[id]
         /\ Lossless => codec' = dec'
         /\ srcInfo' = Put(srcInfo, th, src)
         /\ \E x : swmsDecInfo' = Put(swmsDecInfo, SwmsChn[id], x) /\ x.id = id
  BY <1>1, RaiseEffect
<1>3. LentVideo' = LentVideo /\ LentAudio' = LentAudio /\ Len(winPriority') = n
  BY <1>2 DEF LentVideo, LentAudio
<1>4. RecordsMatch'
  BY <1>2, <1>3 DEF Calm, RecordsMatch, OpenFor
<1>5. Ranked'
  <2>1. \A i \in LentVideo : Prio(dec)'[i] = dec'[i].prio /\ Prio(dec)[i] = dec[i].prio
                             /\ i \in CodecID
    BY ListOfPriorities DEF Prio
  <2>2. \A i \in LentVideo :
          Prio(dec)'[i] = IF i = id THEN n - 1
                          ELSE IF Prio(dec)[i] > Prio(dec)[id] THEN Prio(dec)[i] - 1
                                                               ELSE Prio(dec)[i]
    BY <1>2, <2>1
  <2>3. RankedBy(Prio(dec)', LentVideo, n)
    BY <1>1, <2>2, RaisedRanks DEF Calm, Ranked
  <2> QED
    BY <1>3, <2>3 DEF Ranked
<1>6. SourcesFollow'
  <2>1. DOMAIN srcInfo' = DOMAIN srcInfo
    BY <1>2 DEF Calm, SourcesFollow, Put, LentVideo
  <2>2. ASSUME NEW x \in DOMAIN srcInfo'
        PROVE  srcInfo'[x] = dec'[ids'.third[x]].crop
    <3>1. x \in DOMAIN ids.third /\ ids.third[x] \in CodecID /\ srcInfo[x] = dec[ids.third[x]].crop
      BY <2>1, OwnedTask DEF Calm, SourcesFollow
    <3>2. ids.third[x] = id => x = th
      BY <1>2, <3>1 DEF Calm, Owned, LentOnce
    <3>3. CASE x = th
      BY <1>2, <3>3 DEF Put
    <3>4. CASE x # th
      BY <1>2, <3>1, <3>2, <3>4, <2>1 DEF Put
    <3> QED
      BY <3>3, <3>4
  <2> QED
    BY <1>2, <2>1, <2>2 DEF Calm, SourcesFollow
<1>7. ChannelsFollow'
  <2>1. PICK x : swmsDecInfo' = Put(swmsDecInfo, SwmsChn[id], x) /\ x.id = id
    BY <1>2
  <2>2. \A i \in LentVideo : SwmsChn[i] = SwmsChn[id] => i = id
    BY <1>2, ChannelsApart DEF LentVideo
  <2>3. SwmsChn[id] \in DOMAIN swmsDecInfo
    BY <1>2 DEF Calm, ChannelsFollow
  <2> QED
    BY <1>2, <1>3, <2>1, <2>2, <2>3 DEF Calm, ChannelsFollow, Put
<1>8. DevicesBound' /\ NotClearing'
  <2>1. \A i \in LentAudio : dec'[i].dev = dec[i].dev
    BY <1>2, PoolsApart DEF LentAudio
  <2> QED
    BY <1>2, <1>3, <2>1, DevicesStay DEF Calm, NotClearing, clearVars
<1>9. Answered'
  <2>1. PICK cmd \in {"open", "move"} : reply' = Reply(cmd, th, TRUE)
    BY DEF WindowRaised
  <2>2. reply'.third = th /\ reply'.cmd \in {"open", "move"}
    BY <2>1 DEF Reply
  <2> QED
    BY <1>2, <1>3, <2>2 DEF Answered, LentVideo
<1> QED
  BY <1>2, <1>4, <1>5, <1>6, <1>7, <1>8, <1>9 DEF Calm, Lossless

LEMMA CalmClose ==
  ASSUME IInv, Calm, Undisturbed, Owned', NEW th \in WindowID, CloseWindow(th)
  PROVE  Calm'
<1> DEFINE n == Len(winPriority)
<1>1. n \in Nat
  BY ListOfPriorities, HandlerAssumption
<1>2. PICK id \in LentVideo :
         /\ id \in CodecID
         /\ th \in DOMAIN ids.third /\ ids.third[th] = id
         /\ ids'.third = Erase(ids.third, th)
         /\ ids'.used = ids.used \ {id}
         /\ LentVideo' = LentVideo \ {id} /\ LentAudio' = LentAudio
         /\ dec'[id].open = 0 /\ ~dec'[id].swms
         /\ \A i \in CodecID \ {id} :
              /\ dec'[i].open = dec[i].open /\ dec'[i].swms = dec[i].swms
              /\ dec'[i].dev = dec[i].dev /\ dec'[i].crop = dec[i].crop
              /\ i \in LentVideo =>
                   dec'[i].prio =
                     IF dec[i].prio > dec[id].prio THEN dec[i].prio - 1 ELSE dec[i].prio
         /\ Lossless => codec' = dec'
         /\ winPriority' = StackOf(n - 1)
         /\ Len(winPriority') = n - 1
         /\ srcInfo' = Erase(srcInfo, th)
         /\ swmsDecInfo' = Erase(swmsDecInfo, SwmsChn[id])
         /\ UNCHANGED <<aoCodec, clearVars>>
  BY CloseEffect
<1>3. id \in AuViTaskID /\ id \notin LentAudio
  BY <1>2, PoolsApart DEF LentVideo, LentAudio
<1>4. RecordsMatch'
  <2>1. ASSUME NEW i \in CodecID
        PROVE  dec'[i].open = OpenFor(i)' /\ (dec'[i].swms <=> i \in LentVideo')
    BY <1>2, <1>3, <2>1 DEF Calm, RecordsMatch, OpenFor
  <2> QED
    BY <2>1 DEF RecordsMatch
<1>5. Ranked'
  <2>1. \A i \in LentVideo : Prio(dec)'[i] = dec'[i].prio /\ Prio(dec)[i] = dec[i].prio
                             /\ i \in CodecID
    BY ListOfPriorities DEF Prio
  <2>2. \A i \in LentVideo \ {id} :
          Prio(dec)'[i] = IF Prio(dec)[i] > Prio(dec)[id] THEN Prio(dec)[i] - 1
                                                          ELSE Prio(dec)[i]
    BY <1>2, <2>1
  <2>3. RankedBy(Prio(dec)', LentVideo \ {id}, n - 1)
    BY <1>1, <2>2, ClosedRanks DEF Calm, Ranked
  <2> QED
    BY <1>2, <2>3 DEF Ranked
<1>6. SourcesFollow'
  <2>1. DOMAIN ids'.third = DOMAIN ids.third \ {th}
        /\ \A x \in DOMAIN ids.third \ {th} : ids'.third[x] = ids.third[x]
    BY <1>2 DEF Erase
  <2>2. DOMAIN srcInfo' = DOMAIN srcInfo \ {th}
        /\ \A x \in DOMAIN srcInfo \ {th} : srcInfo'[x] = srcInfo[x]
    BY <1>2 DEF Erase
  <2>3. \A x \in DOMAIN ids.third \ {th} : ids.third[x] \in CodecID \ {id}
    BY <1>2, OwnedTask DEF Calm, Owned, LentOnce
  <2>4. ASSUME NEW x \in DOMAIN srcInfo'
        PROVE  srcInfo'[x] = dec'[ids'.third[x]].crop
    <3>1. x \in DOMAIN srcInfo /\ x # th /\ x \in DOMAIN ids.third
          /\ srcInfo[x] = dec[ids.third[x]].crop
      BY <2>2 DEF Calm, SourcesFollow
    <3> QED
      BY <1>2, <2>1, <2>2, <2>3, <3>1
  <2>5. DOMAIN srcInfo = {x \in DOMAIN ids.third : ids.third[x] \in AuViTaskID}
    BY DEF Calm, SourcesFollow
  <2> HIDE DEF Calm
  <2>6. DOMAIN srcInfo' = {x \in DOMAIN ids'.third : ids'.third[x] \in AuViTaskID}
    BY <2>1, <2>2, <2>5
  <2> QED
    BY <2>4, <2>6 DEF SourcesFollow
<1>7. ChannelsFollow'
  <2>1. \A i \in LentVideo : SwmsChn[i] = SwmsChn[id] => i = id
    BY <1>2, ChannelsApart DEF LentVideo
  <2>2. DOMAIN swmsDecInfo = {SwmsChn[i] : i \in LentVideo}
        /\ \A i \in LentVideo : swmsDecInfo[SwmsChn[i]].id = i
    BY DEF Calm, ChannelsFollow
  <2> QED
    BY <1>2, <2>1, <2>2 DEF ChannelsFollow, Erase
<1>8. DevicesBound' /\ NotClearing'
  <2>1. \A i \in LentAudio : dec'[i].dev = dec[i].dev
    BY <1>2, <1>3, PoolsApart DEF LentAudio
  <2> QED
    BY <1>2, <2>1, DevicesStay DEF Calm, NotClearing, clearVars
<1>9. Answered'
  BY DEF CloseWindow, Reply, Answered
<1> QED
  BY <1>2, <1>4, <1>5, <1>6, <1>7, <1>8, <1>9 DEF Calm, Lossless

LEMMA CalmClear ==
  ASSUME IInv, Calm, Undisturbed, Owned', NEW ty \in ClearTypes, ClearAllTask(ty, "ok")
  PROVE  Calm'
<1>1. /\ LentVideo' = {} /\ LentAudio' = IF ty = 0 THEN LentAudio ELSE {}
      /\ ty \in {0, 2} /\ (ty = 2 => LentAudio = {})
      /\ ids'.third = [th \in {x \in DOMAIN ids.third : ids.third[x] \in LentAudio}
                         |-> ids.third[th]]
      /\ \A i \in CodecID :
           /\ dec'[i].open = (IF i \in LentAudio THEN dec[i].open ELSE 0)
           /\ dec'[i].swms = FALSE
           /\ dec'[i].dev = dec[i].dev
      /\ Lossless => codec' = dec'
      /\ winPriority' = <<>> /\ swmsDecInfo' = EmptyMap
      /\ DOMAIN srcInfo' = {}
      /\ UNCHANGED <<aoCodec, worker>> /\ ~isClearTasking'
  BY ClearEffect
<1>2. LentAudio' = LentAudio
  BY <1>1
<1>3. RecordsMatch'
  <2>1. ASSUME NEW i \in CodecID
        PROVE  dec'[i].open = OpenFor(i)' /\ (dec'[i].swms <=> i \in LentVideo')
    BY <1>1, <1>2 DEF Calm, RecordsMatch, OpenFor
  <2> QED
    BY <2>1 DEF RecordsMatch
<1>4. Ranked'
  BY <1>1 DEF Ranked, RankedBy
<1>5. SourcesFollow'
  BY <1>1, PoolsApart DEF SourcesFollow, LentAudio
<1>6. ChannelsFollow'
  BY <1>1 DEF ChannelsFollow, EmptyMap
<1>7. DevicesBound' /\ NotClearing'
  <2>1. \A i \in LentAudio : dec'[i].dev = dec[i].dev
    BY <1>1, PoolsApart DEF LentAudio
  <2> QED
    BY <1>1, <1>2, <2>1, DevicesStay DEF Calm, NotClearing
<1>8. Answered'
  <2>1. reply'.third = ty /\ reply'.cmd = "clear"
    BY DEF ClearAllTask, Reply
  <2>2. \A i \in OfClearType(ty) : i \in CodecID /\ i \notin LentAudio
    BY <1>1, PoolsApart DEF OfClearType, CodecID, LentAudio
  <2> QED
    BY <1>1, <2>1, <2>2 DEF Answered
<1> QED
  BY <1>1, <1>3, <1>4, <1>5, <1>6, <1>7, <1>8 DEF Calm, Lossless

(* The audio commands leave the windows alone.                             *)
LEMMA WindowsStay ==
  ASSUME IInv, Calm, LentVideo' = LentVideo, UNCHANGED <<windowVars, clearVars>>,
         \A i \in LentVideo : dec'[i] = dec[i],
         \A th : (th \in DOMAIN ids'.third /\ ids'.third[th] \in AuViTaskID)
                   <=> (th \in DOMAIN ids.third /\ ids.third[th] \in AuViTaskID),
         \A th \in DOMAIN ids.third : ids.third[th] \in AuViTaskID => ids'.third[th] = ids.third[th]
  PROVE  Ranked' /\ SourcesFollow' /\ ChannelsFollow' /\ NotClearing'
<1>1. Ranked'
  <2>1. Len(winPriority') = Len(winPriority)
    BY DEF windowVars
  <2>2. \A i \in LentVideo : Prio(dec)'[i] = Prio(dec)[i]
    BY ListOfPriorities DEF Prio
  <2> QED
    BY <2>1, <2>2 DEF Calm, Ranked, RankedBy
<1>2. SourcesFollow'
  <2>1. srcInfo' = srcInfo
    BY DEF windowVars
  <2>2. DOMAIN srcInfo = {th \in DOMAIN ids.third : ids.third[th] \in AuViTaskID}
        /\ \A th \in DOMAIN srcInfo : srcInfo[th] = dec[ids.third[th]].crop
    BY DEF Calm, SourcesFollow
  <2>3. \A th \in DOMAIN srcInfo : ids.third[th] \in LentVideo
    BY <2>2 DEF Calm, Owned, LentOnce, LentVideo
  <2>4. DOMAIN srcInfo = {th \in DOMAIN ids'.third : ids'.third[th] \in AuViTaskID}
    BY <2>2
  <2> QED
    BY <2>1, <2>2, <2>3, <2>4 DEF SourcesFollow
<1>3. ChannelsFollow' /\ NotClearing'
  BY DEF Calm, ChannelsFollow, NotClearing, windowVars, clearVars
<1> QED
  BY <1>1, <1>2, <1>3

LEMMA CalmOpenAudio ==
  ASSUME IInv, Calm, Undisturbed, Owned', NEW th \in AudioID, NEW ao \in AOChn, OpenAudio(th, ao)
  PROVE  Calm'
<1> DEFINE id == FindNewID(ids, th, "audio")
<1>1. /\ IsTaskID(id) /\ id \in AudioTaskID /\ id \notin ids.used /\ th \notin DOMAIN ids.third
      /\ ao \notin DOMAIN aoCodec
  BY FoundIsFree DEF OpenAudio, TaskType, Pool
<1>2. /\ ids'.third = Put(ids.third, th, id) /\ ids'.used = ids.used \cup {id}
      /\ dec' = Streaming(id, ao) /\ codec' = Sent(dec', id, "ok")
      /\ aoCodec' = Put(aoCodec, ao, id)
      /\ reply' = Reply("openAudio", th, TRUE)
      /\ UNCHANGED <<windowVars, clearVars>>
  BY <1>1 DEF OpenAudio, Lend
<1> HIDE DEF id
<1>3. id \in CodecID /\ id \notin AuViTaskID
  BY <1>1, PoolsApart
<1>4. LentVideo' = LentVideo /\ LentAudio' = LentAudio \cup {id} /\ id \notin LentAudio
  BY <1>1, <1>2, <1>3 DEF LentVideo, LentAudio
<1>5. dec \in [CodecID -> AVDec] /\ codec \in [CodecID -> AVDec] /\ dec[id] \in AVDec
  BY <1>3 DEF IInv, RecordsOK
<1>6. /\ dec'[id].open = 1 /\ dec'[id].dev = ao /\ dec'[id].swms = dec[id].swms
      /\ \A i \in CodecID \ {id} : dec'[i] = dec[i]
  BY <1>2, <1>3, <1>5 DEF Streaming, AVDec
<1>7. RecordsMatch'
  <2>1. ASSUME NEW i \in CodecID
        PROVE  dec'[i].open = OpenFor(i)' /\ (dec'[i].swms <=> i \in LentVideo')
    BY <1>4, <1>6, PoolsApart DEF Calm, RecordsMatch, OpenFor
  <2> QED
    BY <2>1 DEF RecordsMatch
<1>8. Ranked' /\ SourcesFollow' /\ ChannelsFollow' /\ NotClearing'
  <2>1. \A i \in LentVideo : dec'[i] = dec[i]
    BY <1>3, <1>6, ListOfPriorities DEF LentVideo
  <2>2. \A x : (x \in DOMAIN ids'.third /\ ids'.third[x] \in AuViTaskID)
                 <=> (x \in DOMAIN ids.third /\ ids.third[x] \in AuViTaskID)
    BY <1>1, <1>2, <1>3 DEF Put
  <2>3. \A x \in DOMAIN ids.third : ids'.third[x] = ids.third[x]
    BY <1>1, <1>2 DEF Put
  <2> QED
    BY <1>2, <1>4, <2>1, <2>2, <2>3, WindowsStay
<1>9. DevicesBound'
  <2>1. DevicesHeld'
    BY DEF Owned
  <2>2. ASSUME NEW i \in LentAudio'
        PROVE  dec'[i].dev \in DOMAIN aoCodec' /\ aoCodec'[dec'[i].dev] = i
    <3>1. CASE i = id
      BY <1>2, <1>6, <3>1 DEF Put
    <3>2. CASE i # id
      <4>1. i \in LentAudio /\ i \in CodecID
        BY <1>4, <3>2, PoolsApart DEF LentAudio
      <4>2. dec[i].dev \in DOMAIN aoCodec /\ aoCodec[dec[i].dev] = i
        BY <4>1 DEF Calm, DevicesBound
      <4> QED
        BY <1>1, <1>2, <1>6, <3>2, <4>1, <4>2 DEF Put
    <3> QED
      BY <3>1, <3>2
  <2> QED
    BY <2>1, <2>2 DEF DevicesBound
<1>10. Answered'
  BY <1>2 DEF Answered, Reply, Put
<1>11. Lossless => codec' = dec'
  <2>1. codec = dec => codec' = dec'
    <3>1. codec' = [codec EXCEPT ![id] = dec'[id]]
      BY <1>2 DEF Sent
    <3>2. dec' = [dec EXCEPT ![id] = dec'[id]]
      BY <1>2, <1>3, <1>5 DEF Streaming
    <3> QED
      BY <3>1, <3>2
  <2> QED
    BY <2>1 DEF Calm
<1> QED
  BY <1>7, <1>8, <1>9, <1>10, <1>11 DEF Calm, Lossless

LEMMA CalmShift ==
  ASSUME IInv, Calm, Undisturbed, Owned', NEW th \in AudioID, NEW ao \in AOChn, ShiftAudio(th, ao)
  PROVE  Calm'
<1> DEFINE id == aoCodec[ao]
<1>1. /\ th \notin DOMAIN ids.third /\ ao \in DOMAIN aoCodec
      /\ id \in LentAudio /\ dec[id].dev = ao
      /\ dec' = Restarted(id, ao) /\ codec' = Sent(dec', id, "ok")
      /\ ids' = UpdateThirdTaskID(ids, th, id)
      /\ reply' = Reply("openAudio", th, TRUE)
      /\ UNCHANGED <<windowVars, clearVars, aoCodec>>
  BY DEF ShiftAudio, HasTask, Calm, DevicesBound, DevicesHeld, LentAudio
<1> HIDE DEF id
<1>2. id \in CodecID /\ id \in AudioTaskID /\ id \notin AuViTaskID /\ id \in ids.used
      /\ TypeOfID(id) = "audio"
  BY <1>1, PoolsApart DEF LentAudio
<1>3. PICK had \in DOMAIN ids.third : /\ ids.third[had] = id
                                      /\ ids'.third = Put(Erase(ids.third, had), th, id)
  BY <1>1, <1>2, UpdateKeepsLentOnce DEF Calm, Owned, IInv
<1>4. ids'.used = ids.used
  BY <1>1 DEF UpdateThirdTaskID, IInv, TablesInv, AreTables
<1>5. LentVideo' = LentVideo /\ LentAudio' = LentAudio
  BY <1>4 DEF LentVideo, LentAudio
<1>6. dec \in [CodecID -> AVDec] /\ dec[id] \in AVDec
  BY <1>2 DEF IInv, RecordsOK
<1>7. dec[id].open = 1
  BY <1>1, <1>2 DEF Calm, RecordsMatch, OpenFor
<1>8. dec' = dec
  <2>1. [dec[id] EXCEPT !.open = 1, !.dev = ao] = dec[id]
    BY <1>1, <1>6, <1>7 DEF AVDec
  <2> QED
    BY <1>1, <1>2, <1>6, <2>1 DEF Restarted
<1>9. RecordsMatch'
  BY <1>5, <1>8 DEF Calm, RecordsMatch, OpenFor
<1>10. Ranked' /\ SourcesFollow' /\ ChannelsFollow' /\ NotClearing'
  <2>1. \A i \in LentVideo : dec'[i] = dec[i]
    BY <1>8
  <2>2. \A x : (x \in DOMAIN ids'.third /\ ids'.third[x] \in AuViTaskID)
                 <=> (x \in DOMAIN ids.third /\ ids.third[x] \in AuViTaskID)
    BY <1>1, <1>2, <1>3 DEF Put, Erase
  <2>3. \A x \in DOMAIN ids.third : ids.third[x] \in AuViTaskID => ids'.third[x] = ids.third[x]
    BY <1>1, <1>2, <1>3 DEF Put, Erase
  <2> QED
    BY <1>1, <1>5, <2>1, <2>2, <2>3, WindowsStay
<1>11. DevicesBound'
  BY <1>1, <1>5, <1>8, DevicesStay
<1>12. Answered'
  BY <1>1, <1>3 DEF Answered, Reply, Put
<1>13. Lossless => codec' = dec'
  <2>1. [dec EXCEPT ![id] = dec[id]] = dec
    BY <1>6
  <2>2. codec = dec => codec' = dec'
    BY <1>1, <1>8, <2>1 DEF Sent
  <2> QED
    BY <2>2 DEF Calm
<1> QED
  BY <1>9, <1>10, <1>11, <1>12, <1>13 DEF Calm, Lossless

LEMMA CalmCloseAudio ==
  ASSUME IInv, Calm, Undisturbed, Owned', NEW th \in AudioID, NEW ao, CloseAudio(th, ao)
  PROVE  Calm'
<1> DEFINE id == ids.third[th]
<1>1. th \in DOMAIN ids.third
  BY DEF CloseAudio, Known, HasTask
<1>2. id \in LentAudio /\ id \in CodecID /\ id \in AudioTaskID /\ id \in ids.used
      /\ TypeOfID(id) = "audio" /\ id \notin AuViTaskID
  BY <1>1, OwnedTask, PoolsApart DEF LentAudio
<1>3. /\ ao = dec[id].dev
      /\ dec' = Muted(id) /\ codec' = Sent(dec', id, "ok")
      /\ ids' = RemoveCodecTaskID(ids, th)
      /\ aoCodec' = Erase(aoCodec, ao)
      /\ reply' = Reply("closeAudio", th, TRUE)
      /\ UNCHANGED <<windowVars, clearVars>>
  BY <1>2 DEF CloseAudio, Undisturbed
<1>4. ids'.third = Erase(ids.third, th) /\ ids'.used = ids.used \ {id}
  BY <1>1, <1>2, <1>3 DEF RemoveCodecTaskID
<1> HIDE DEF id
<1>5. LentVideo' = LentVideo /\ LentAudio' = LentAudio \ {id}
  BY <1>2, <1>4 DEF LentVideo, LentAudio
<1>6. dec \in [CodecID -> AVDec] /\ codec \in [CodecID -> AVDec] /\ dec[id] \in AVDec
  BY <1>2 DEF IInv, RecordsOK
<1>7. dec' = [dec EXCEPT ![id].open = 0]
  BY <1>2, <1>3 DEF Muted
<1>8. /\ dec'[id].open = 0 /\ dec'[id].swms = dec[id].swms
      /\ \A i \in CodecID \ {id} : dec'[i] = dec[i]
  BY <1>2, <1>6, <1>7 DEF AVDec
<1>9. RecordsMatch'
  <2>1. ASSUME NEW i \in CodecID
        PROVE  dec'[i].open = OpenFor(i)' /\ (dec'[i].swms <=> i \in LentVideo')
    BY <1>2, <1>5, <1>8 DEF Calm, RecordsMatch, OpenFor, LentVideo
  <2> QED
    BY <2>1 DEF RecordsMatch
<1>10. Ranked' /\ SourcesFollow' /\ ChannelsFollow' /\ NotClearing'
  <2>1. \A i \in LentVideo : dec'[i] = dec[i]
    BY <1>2, <1>8, ListOfPriorities DEF LentVideo
  <2>2. \A x : (x \in DOMAIN ids'.third /\ ids'.third[x] \in AuViTaskID)
                 <=> (x \in DOMAIN ids.third /\ ids.third[x] \in AuViTaskID)
    BY <1>2, <1>4 DEF Erase, id
  <2>3. \A x \in DOMAIN ids.third : ids.third[x] \in AuViTaskID => ids'.third[x] = ids.third[x]
    BY <1>2, <1>4 DEF Erase, id
  <2> QED
    BY <1>3, <1>5, <2>1, <2>2, <2>3, WindowsStay
<1>11. DevicesBound'
  <2>1. DevicesHeld'
    BY DEF Owned
  <2>2. ASSUME NEW i \in LentAudio'
        PROVE  dec'[i].dev \in DOMAIN aoCodec' /\ aoCodec'[dec'[i].dev] = i
    <3>1. i \in LentAudio /\ i # id /\ i \in CodecID
      BY <1>5, PoolsApart DEF LentAudio
    <3>2. dec[i].dev \in DOMAIN aoCodec /\ aoCodec[dec[i].dev] = i
      BY <3>1 DEF Calm, DevicesBound
    <3>3. dec[id].dev \in DOMAIN aoCodec /\ aoCodec[dec[id].dev] = id
      BY <1>2 DEF Calm, DevicesBound
    <3> QED
      BY <1>3, <1>8, <3>1, <3>2, <3>3 DEF Erase
  <2> QED
    BY <2>1, <2>2 DEF DevicesBound
<1>12. Answered'
  BY <1>3 DEF Answered, Reply
<1>13. Lossless => codec' = dec'
  <2>1. codec = dec => codec' = dec'
    BY <1>2, <1>3, <1>6, <1>7 DEF Sent
  <2> QED
    BY <2>1 DEF Calm
<1> QED
  BY <1>9, <1>10, <1>11, <1>12, <1>13 DEF Calm, Lossless

LEMMA CalmQuiet ==
  ASSUME IInv, Calm, Owned', Quiet
  PROVE  Calm'
<1>1. UNCHANGED <<ids, dec, codec, winPriority, swmsDecInfo, srcInfo, aoCodec, isClearTasking,
                  latch, worker>>
  BY DEF Quiet, taskVars, windowVars, clearVars
<1>2. LentVideo' = LentVideo /\ LentAudio' = LentAudio
  BY <1>1 DEF LentVideo, LentAudio
<1>3. RecordsMatch' /\ Ranked' /\ SourcesFollow' /\ ChannelsFollow' /\ DevicesBound' /\ NotClearing'
  BY <1>1, <1>2 DEF Calm, RecordsMatch, OpenFor, Ranked, Prio, SourcesFollow, ChannelsFollow,
     DevicesBound, DevicesHeld, NotClearing
<1>4. Answered'
  <2>1. CASE reply' = reply
    BY <1>1, <2>1 DEF Calm, Answered
  <2>2. CASE reply' # reply
    BY <1>1, <2>2 DEF Quiet, Answered
  <2> QED
    BY <2>1, <2>2
<1> QED
  BY <1>1, <1>3, <1>4 DEF Calm, Lossless

-----------------------------------------------------------------------------
LEMMA CalmAtStart ==
  ASSUME Undisturbed, Init
  PROVE  Calm
<1>1. LentVideo = {} /\ LentAudio = {} /\ DOMAIN ids.third = {}
  BY DEF Init, NoTables, EmptyMap, LentVideo, LentAudio
<1>2. Owned
  BY UndisturbedMeans, OwnedNext
<1>3. RecordsMatch /\ Ranked
  BY <1>1 DEF Init, Closed, RecordsMatch, OpenFor, Ranked, RankedBy
<1>4. SourcesFollow /\ ChannelsFollow /\ DevicesBound
  BY <1>1 DEF Init, EmptyMap, SourcesFollow, ChannelsFollow, DevicesBound, DevicesHeld
<1>5. NotClearing /\ Answered /\ codec = dec
  BY DEF Init, NotClearing, Answered, NoReply
<1> QED
  BY <1>2, <1>3, <1>4, <1>5 DEF Calm

LEMMA CalmNext ==
  ASSUME Undisturbed, IInv, Calm, [Next]_vars
  PROVE  Calm'
<1>1. Owned'
  BY UndisturbedMeans, OwnedNext DEF Calm
<1>2. ASSUME NEW th \in WindowID, OpenOrCreate(th) \/ RaiseOrMove(th) \/ Close(th)
      PROVE  Calm'
  BY <1>1, <1>2, CalmWindowStep, CalmOpen, CalmRaise, CalmClose, CalmQuiet
<1>3. ASSUME NEW th \in AudioID, Audio(th)
      PROVE  Calm'
  BY <1>1, <1>3, CalmAudioStep, CalmOpenAudio, CalmShift, CalmCloseAudio, CalmQuiet
<1>4. ASSUME NEW ty \in ClearTypes, Clear(ty)
      PROVE  Calm'
  BY <1>1, <1>4, CalmClearStep, CalmClear
<1>5. ASSUME WaitForClear
      PROVE  FALSE
  BY <1>5 DEF WaitForClear, Calm, NotClearing
<1>6. ASSUME UNCHANGED vars
      PROVE  Calm'
  BY <1>1, <1>6, CalmQuiet DEF vars, Quiet
<1> QED
  BY <1>2, <1>3, <1>4, <1>5, <1>6 DEF Next

THEOREM StaysCalm == Undisturbed => (Spec => [](IInv /\ Calm))
<1> SUFFICES ASSUME Undisturbed
             PROVE  Spec => [](IInv /\ Calm)
  OBVIOUS
<1>1. Init => Calm
  BY CalmAtStart
<1>2. IInv /\ Calm /\ [Next]_vars => Calm'
  BY CalmNext
<1> QED
  BY <1>1, <1>2, InvariantHolds, PTL DEF Spec

-----------------------------------------------------------------------------
(* What follows for the screen.                                            *)

(* A set with one rank each has as many members as there are ranks, and m  *)
(* members of a rank below m.                                              *)
LEMMA RanksCount ==
  ASSUME NEW S, NEW n \in Nat, NEW f, RankedBy(f, S, n)
  PROVE  /\ IsFiniteSet(S)
         /\ Cardinality(S) = n
         /\ \A m \in 0..n, T \in SUBSET S :
              (\A i \in S : i \in T <=> f[i] < m) => Cardinality(T) = m
<1>1. ASSUME NEW T \in SUBSET S, NEW m \in 0..n,
             \A i \in S : i \in T <=> f[i] < m
      PROVE  IsFiniteSet(T) /\ Cardinality(T) = m
  <2> DEFINE At(p) == CHOOSE i \in S : f[i] = p
             g == [p \in 0..(m - 1) |-> At(p)]
  <2>1. ASSUME NEW p \in 0..(m - 1)
        PROVE  At(p) \in T /\ f[At(p)] = p
    <3>1. \E i \in S : f[i] = p
      BY DEF RankedBy
    <3> QED
      BY <1>1, <3>1
  <2> HIDE DEF At
  <2>2. \A i \in T : f[i] \in 0..(m - 1) /\ g[f[i]] = i
    <3>1. ASSUME NEW i \in T
          PROVE  f[i] \in 0..(m - 1) /\ g[f[i]] = i
      <4>1. f[i] \in 0..(n - 1) /\ f[i] < m
        BY <1>1 DEF RankedBy
      <4>2. f[i] \in 0..(m - 1)
        BY <4>1
      <4>3. At(f[i]) = i
        BY <2>1, <4>2 DEF RankedBy
      <4> QED
        BY <4>2, <4>3
    <3> QED
      BY <3>1
  <2>3. g \in Bijection(0..(m - 1), T)
    <3>1. g \in [0..(m - 1) -> T]
      BY <2>1
    <3>2. \A p, q \in 0..(m - 1) : g[p] = g[q] => p = q
      BY <2>1
    <3>3. \A i \in T : \E p \in 0..(m - 1) : g[p] = i
      BY <2>2
    <3> QED
      BY <3>1, <3>2, <3>3 DEF Bijection, Injection, Surjection, IsInjective
  <2>4. IsFiniteSet(0..(m - 1)) /\ Cardinality(0..(m - 1)) = m
    BY FS_Interval
  <2>5. ExistsBijection(0..(m - 1), T)
    BY <2>3 DEF ExistsBijection
  <2> QED
    BY <2>4, <2>5, FS_Bijection
<1>2. \A i \in S : f[i] \in 0..(n - 1)
  BY DEF RankedBy
<1>3. IsFiniteSet(S) /\ Cardinality(S) = n
  BY <1>1, <1>2
<1> QED
  BY <1>1, <1>3

LEMMA WindowsAreLent ==
  ASSUME IInv, Calm
  PROVE  /\ Windows = LentVideo
         /\ \A i \in LentVideo : i \in CodecID /\ i \in ids.used
         /\ \A th \in DOMAIN ids.third : ids.third[th] \in LentVideo <=> ids.third[th] \in AuViTaskID
         /\ RankedBy([i \in CodecID |-> dec[i].prio], LentVideo, Len(winPriority))
         /\ Len(winPriority) \in Nat
<1>1. \A i \in LentVideo : i \in CodecID /\ i \in ids.used
  BY PoolsApart DEF LentVideo
<1>2. Windows = LentVideo
  BY <1>1 DEF Windows, Calm, RecordsMatch
<1>3. \A th \in DOMAIN ids.third : ids.third[th] \in LentVideo <=> ids.third[th] \in AuViTaskID
  BY DEF LentVideo, Calm, Owned, LentOnce
<1>4. Len(winPriority) \in Nat
  BY ListOfPriorities, HandlerAssumption
<1> QED
  BY <1>1, <1>2, <1>3, <1>4 DEF Calm, Ranked, Prio

(* The n windows have the priorities 0 to n-1, and the list is just that.  *)
THEOREM PrioritiesStack == Undisturbed => (Spec => []PriorityStack)
<1>1. ASSUME IInv, Calm
      PROVE  PriorityStack
  <2> DEFINE n == Len(winPriority)
             f == [i \in CodecID |-> dec[i].prio]
  <2>1. /\ Windows = LentVideo /\ n \in Nat
        /\ \A i \in LentVideo : i \in CodecID
        /\ RankedBy(f, LentVideo, n)
    BY <1>1, WindowsAreLent
  <2>2. Cardinality(Windows) = n
    BY <2>1, RanksCount
  <2>3. winPriority = [k \in 1..n |-> k - 1]
    BY <1>1, ListOfPriorities DEF StackOf
  <2>4. \A i \in Windows : f[i] = dec[i].prio
    BY <2>1
  <2> HIDE DEF n, f
  <2>5. {dec[i].prio : i \in Windows} = 0..(n - 1)
    BY <2>1, <2>4 DEF RankedBy
  <2> QED
    BY <2>2, <2>3, <2>5 DEF PriorityStack, n
<1> QED
  BY <1>1, StaysCalm, PTL

(* A record is open, and a window, exactly when its id is lent for it.     *)
THEOREM OpenMeansLent == Undisturbed => (Spec => []OpenIsLent)
<1>1. ASSUME IInv, Calm
      PROVE  OpenIsLent
  <2>1. ASSUME NEW i \in CodecID
        PROVE  /\ dec[i].open # 0 <=> i \in ids.used
               /\ dec[i].swms <=> i \in ids.used /\ TypeOfID(i) # "audio"
    <3>1. i \in ids.used => i \in AuViTaskID \/ i \in AudioTaskID
      BY <1>1, LentHasOwner
    <3>2. dec[i].open = OpenFor(i) /\ (dec[i].swms <=> i \in LentVideo)
      BY <1>1 DEF Calm, RecordsMatch
    <3> QED
      BY <3>1, <3>2, PoolsApart DEF OpenFor, LentVideo, LentAudio
  <2> QED
    BY <2>1 DEF OpenIsLent
<1> QED
  BY <1>1, StaysCalm, PTL

(* A window answered with success is above all others, and the codec runs  *)
(* it so, even when the lowered priorities of the others are lost.         *)
THEOREM AnsweredGoOnTop == Undisturbed => (Spec => []AnsweredOnTop)
<1>1. ASSUME IInv, Calm
      PROVE  AnsweredOnTop
  <2> SUFFICES ASSUME reply.ok, reply.cmd \in {"open", "create", "move"}
               PROVE  LET id == ids.third[reply.third]
                      IN /\ codec[id] = dec[id]
                         /\ \A j \in (Windows \cap ids.used) \ {id} : dec[j].prio < dec[id].prio
    BY DEF AnsweredOnTop
  <2> DEFINE id == ids.third[reply.third]
             n == Len(winPriority)
  <2>1. /\ reply.third \in DOMAIN ids.third /\ id \in AuViTaskID
        /\ codec[id] = dec[id] /\ dec[id].prio = n - 1
    BY <1>1 DEF Calm, Answered
  <2>2. id \in LentVideo
    BY <1>1, <2>1, WindowsAreLent
  <2>3. ASSUME NEW j \in Windows \ {id}
        PROVE  dec[j].prio < dec[id].prio
    <3>1. j \in LentVideo /\ j \in CodecID /\ id \in CodecID /\ n \in Nat
      BY <1>1, <2>2, WindowsAreLent
    <3>2. dec[j].prio # dec[id].prio
      BY <1>1, <2>2, <3>1 DEF Calm, Ranked, RankedBy, Prio
    <3>3. dec[j].prio \in 0..(n - 1)
      BY <1>1, <3>1, ListOfPriorities
    <3> QED
      BY <2>1, <3>1, <3>2, <3>3
  <2> QED
    BY <2>1, <2>3
<1> QED
  BY <1>1, StaysCalm, PTL

(* The worker never waits for a clear.                                     *)
THEOREM WorkerNeverStuck == Undisturbed => (Spec => []WorkerNotStuck)
<1>1. Calm => WorkerNotStuck
  BY DEF Calm, NotClearing, WorkerNotStuck
<1> QED
  BY <1>1, StaysCalm, PTL

-----------------------------------------------------------------------------
(* ... and when no record is lost.                                         *)

(* The codec runs every task with the record the node holds.               *)
THEOREM CodecStaysInStep == Undisturbed /\ Lossless => (Spec => []CodecInStep)
<1> SUFFICES ASSUME Undisturbed, Lossless
             PROVE  Spec => []CodecInStep
  OBVIOUS
<1>1. Calm => CodecInStep
  BY DEF Calm, CodecInStep
<1> QED
  BY <1>1, StaysCalm, PTL

(* A status query reports one entry per window on the screen, with its     *)
(* owner and the area the codec cuts.                                      *)
THEOREM ReportIsTheScreen == Undisturbed /\ Lossless => (Spec => []ReportMatchesScreen)
<1> SUFFICES ASSUME Undisturbed, Lossless
             PROVE  Spec => []ReportMatchesScreen
  OBVIOUS
<1>1. ASSUME IInv, Calm
      PROVE  ReportMatchesScreen
  <2>1. codec = dec /\ Windows = LentVideo
    BY <1>1, WindowsAreLent DEF Calm
  <2>2. {j \in CodecID : codec[j].swms} = LentVideo
    BY <2>1 DEF Windows
  <2>3. /\ DOMAIN swmsDecInfo = {SwmsChn[i] : i \in LentVideo}
        /\ \A i \in LentVideo : swmsDecInfo[SwmsChn[i]].id = i
    BY <1>1 DEF Calm, ChannelsFollow
  <2>4. ASSUME NEW i \in LentVideo
        PROVE  \E th \in Borrowers(ids, i) \cap DOMAIN srcInfo : srcInfo[th] = codec[i].crop
    <3>1. PICK th \in DOMAIN ids.third : ids.third[th] = i
      BY <1>1, LentHasOwner DEF LentVideo
    <3>2. th \in DOMAIN srcInfo /\ srcInfo[th] = dec[i].crop
      BY <1>1, <3>1 DEF Calm, SourcesFollow, LentVideo
    <3> QED
      BY <2>1, <3>1, <3>2 DEF Borrowers
  <2>5. ASSUME NEW c \in DOMAIN swmsDecInfo
        PROVE  /\ swmsDecInfo[c].id \in LentVideo
               /\ SwmsChn[swmsDecInfo[c].id] = c
    BY <2>3
  <2> QED
    BY <2>2, <2>3, <2>4, <2>5 DEF ReportMatchesScreen
<1> QED
  BY <1>1, StaysCalm, PTL

(* After a clear no task of its kind runs on the codec.                    *)
THEOREM ClearedAreClosed == Undisturbed /\ Lossless => (Spec => []ClearedMeansClosed)
<1> SUFFICES ASSUME Undisturbed, Lossless
             PROVE  Spec => []ClearedMeansClosed
  OBVIOUS
<1>1. ASSUME IInv, Calm
      PROVE  ClearedMeansClosed
  <2> SUFFICES ASSUME reply.cmd = "clear", reply.ok, NEW i \in CodecID,
                      reply.third = 0 => i \notin AudioTaskID,
                      reply.third = 1 => i \in AudioTaskID
               PROVE  codec[i].open = 0
    BY DEF ClearedMeansClosed
  <2>1. reply.third \in {0, 2} /\ \A j \in OfClearType(reply.third) : dec[j].open = 0
    BY <1>1, UndisturbedMeans DEF Calm, Answered
  <2>2. i \in OfClearType(reply.third)
    BY <2>1 DEF OfClearType, CodecID
  <2> QED
    BY <1>1, <2>1, <2>2 DEF Calm
<1> QED
  BY <1>1, StaysCalm, PTL

(* A window command answered with success leaves its window on the screen. *)
THEOREM AnsweredAreShown == Undisturbed => (Spec => []AnsweredIsShown)
<1>1. ASSUME IInv, Calm
      PROVE  AnsweredIsShown
  <2> SUFFICES ASSUME reply.ok, reply.cmd \in {"open", "create", "move"}
               PROVE  codec[ids.third[reply.third]].swms
    BY DEF AnsweredIsShown
  <2> DEFINE id == ids.third[reply.third]
  <2>1. reply.third \in DOMAIN ids.third /\ id \in AuViTaskID /\ codec[id] = dec[id]
    BY <1>1 DEF Calm, Answered
  <2>2. id \in LentVideo /\ id \in CodecID
    BY <1>1, <2>1, WindowsAreLent
  <2> QED
    BY <1>1, <2>1, <2>2 DEF Calm, RecordsMatch
<1> QED
  BY <1>1, StaysCalm, PTL

(* The device table names the task that plays on the device.               *)
THEOREM AudioIsOwned == Undisturbed /\ Lossless => (Spec => []AudioOwned)
<1> SUFFICES ASSUME Undisturbed, Lossless
             PROVE  Spec => []AudioOwned
  OBVIOUS
<1>1. ASSUME IInv, Calm
      PROVE  AudioOwned
  <2>1. ASSUME NEW ao \in DOMAIN aoCodec
        PROVE  /\ Cardinality(Borrowers(ids, aoCodec[ao])) = 1
               /\ aoCodec[ao] \in ids.used
               /\ codec[aoCodec[ao]].open = 1
               /\ codec[aoCodec[ao]].dev = ao
    <3> DEFINE id == aoCodec[ao]
    <3>1. id \in LentAudio /\ dec[id].dev = ao
      BY <1>1 DEF Calm, DevicesBound, DevicesHeld, LentAudio
    <3>2. id \in CodecID /\ id \in ids.used
      BY <3>1, PoolsApart DEF LentAudio
    <3>3. dec[id].open = 1
      BY <1>1, <3>1, <3>2 DEF Calm, RecordsMatch, OpenFor
    <3>4. PICK th \in DOMAIN ids.third : ids.third[th] = id
      BY <1>1, <3>2, LentHasOwner
    <3>5. Borrowers(ids, id) = {th}
      BY <1>1, <3>4 DEF Borrowers, Calm, Owned, LentOnce
    <3>6. Cardinality(Borrowers(ids, id)) = 1
      BY <3>5, FS_Singleton
    <3> QED
      BY <1>1, <3>1, <3>2, <3>3, <3>6 DEF Calm
  <2> QED
    BY <2>1 DEF AudioOwned
<1> QED
  BY <1>1, StaysCalm, PTL

(* Two audio tasks never play on one device.                               *)
THEOREM OneTaskOnADevice == Undisturbed /\ Lossless => (Spec => []OneTaskPerDevice)
<1> SUFFICES ASSUME Undisturbed, Lossless
             PROVE  Spec => []OneTaskPerDevice
  OBVIOUS
<1>1. ASSUME IInv, Calm
      PROVE  OneTaskPerDevice
  <2>1. ASSUME NEW i \in AudioTaskID, codec[i].open # 0
        PROVE  aoCodec[codec[i].dev] = i
    <3>1. i \in CodecID /\ i \notin AuViTaskID /\ codec = dec
      BY <1>1, PoolsApart DEF Calm
    <3>2. i \in LentAudio
      BY <1>1, <2>1, <3>1 DEF Calm, RecordsMatch, OpenFor, LentVideo
    <3> QED
      BY <1>1, <3>1, <3>2 DEF Calm, DevicesBound
  <2> QED
    BY <2>1 DEF OneTaskPerDevice
<1> QED
  BY <1>1, StaysCalm, PTL

(* A third id told that its stream is open has a task that plays.          *)
THEOREM AnsweredAudioIsPlaying == Undisturbed /\ Lossless => (Spec => []AnsweredAudioPlays)
<1> SUFFICES ASSUME Undisturbed, Lossless
             PROVE  Spec => []AnsweredAudioPlays
  OBVIOUS
<1>1. ASSUME IInv, Calm
      PROVE  AnsweredAudioPlays
  <2> SUFFICES ASSUME reply.cmd = "openAudio", reply.ok
               PROVE  codec[ids.third[reply.third]].open # 0
    BY DEF AnsweredAudioPlays
  <2> DEFINE id == ids.third[reply.third]
  <2>1. reply.third \in DOMAIN ids.third
    BY <1>1 DEF Calm, Answered
  <2>2. id \in CodecID /\ id \in ids.used
    BY <1>1, <2>1, OwnedTask
  <2>3. id \in LentVideo \/ id \in LentAudio
    BY <1>1, <2>2, LentHasOwner DEF LentVideo, LentAudio
  <2> QED
    BY <1>1, <2>2, <2>3 DEF Calm, RecordsMatch, OpenFor
<1> QED
  BY <1>1, StaysCalm, PTL

-----------------------------------------------------------------------------
(***************************************************************************)
(* The handlers of an output node implement WindowStack: while the codec   *)
(* accepts every record and the client sends what it should, the screen    *)
(* starts empty, and every step of a handler opens, adjusts or closes one  *)
(* window of the stack, clears it, or leaves it as it is.                  *)
(***************************************************************************)

(* The third ids that have a window, and what the screen shows of each.    *)
Owners == {th \in DOMAIN ids.third : ids.third[th] \in AuViTaskID}

Rank(th) == dec[ids.third[th]].prio

Entry(th) == [win |-> th, area |-> dec[ids.third[th]].crop]

Entries == [win : ThirdID, area : SrcVideo \cup {NoCrop}]

(* A stack of n entries, in the order of the ranks of their owners.        *)
IsStackOf(s, n, O, rank, entry) ==
  /\ s \in Seq(Entries)
  /\ Len(s) = n
  /\ \A th \in O : /\ rank[th] \in Nat
                   /\ rank[th] + 1 \in 1..n
                   /\ s[rank[th] + 1] = entry[th]
  /\ \A k \in 1..n : \E th \in O : rank[th] + 1 = k

Ranks == [th \in Owners |-> Rank(th)]
EntryOf == [th \in Owners |-> Entry(th)]

ScreenIsStack == IsStackOf(Screen, Len(winPriority), Owners, Ranks, EntryOf)

-----------------------------------------------------------------------------
(* The windows below a window are as many as its priority says.            *)
Shown == {i \in CodecID : codec[i].swms}

Below(i) == {j \in Shown : \/ codec[j].prio < codec[i].prio
                           \/ codec[j].prio = codec[i].prio /\ j < i}

LEMMA ShownWindows ==
  ASSUME IInv, Calm, Undisturbed, Lossless
  PROVE  /\ codec = dec /\ Shown = LentVideo
         /\ \A i \in LentVideo : i \in CodecID /\ i \in ids.used /\ ~(i < i)
         /\ RankedBy(Prio(dec), LentVideo, Len(winPriority))
         /\ \A i \in LentVideo : Prio(dec)[i] = dec[i].prio
         /\ Len(winPriority) \in Nat
<1>1. \A i \in LentVideo : i \in CodecID /\ i \in ids.used
  BY WindowsAreLent
<1>2. \A i \in CodecID : ~(i < i)
  <2>1. CodecID \subseteq Nat
    BY TaskIDAssumption DEF CodecID
  <2>2. \A i \in Nat : ~(i < i)
    OBVIOUS
  <2> QED
    BY <2>1, <2>2
<1>3. codec = dec /\ Shown = LentVideo
  BY WindowsAreLent DEF Calm, Shown, Windows
<1> QED
  BY <1>1, <1>2, <1>3, WindowsAreLent DEF Prio

LEMMA BelowCount ==
  ASSUME IInv, Calm, Undisturbed, Lossless
  PROVE  /\ Cardinality(Shown) = Len(winPriority)
         /\ \A i \in LentVideo : /\ dec[i].prio + 1 \in 1..Len(winPriority)
                                 /\ Cardinality(Below(i)) = dec[i].prio
<1> DEFINE n == Len(winPriority)
           f == Prio(dec)
<1>1. /\ codec = dec /\ Shown = LentVideo /\ n \in Nat
      /\ \A i \in LentVideo : ~(i < i) /\ f[i] = dec[i].prio
      /\ RankedBy(f, LentVideo, n)
  BY ShownWindows
<1> HIDE DEF n, f
<1>2. Cardinality(LentVideo) = n
  BY <1>1, RanksCount
<1>3. ASSUME NEW i \in LentVideo
      PROVE  dec[i].prio + 1 \in 1..n /\ Cardinality(Below(i)) = dec[i].prio
  <2>1. f[i] \in 0..(n - 1)
    BY <1>1 DEF RankedBy
  <2>2. \A j \in LentVideo : f[j] = f[i] => j = i
    BY <1>1 DEF RankedBy
  <2>3. Below(i) \in SUBSET LentVideo /\ \A j \in LentVideo : j \in Below(i) <=> f[j] < f[i]
    BY <1>1, <2>2 DEF Below
  <2>4. f[i] \in 0..n
    BY <1>1, <2>1
  <2>5. Cardinality(Below(i)) = f[i]
    BY <1>1, <2>3, <2>4, RanksCount
  <2> QED
    BY <1>1, <2>1, <2>5
<1> QED
  BY <1>1, <1>2, <1>3 DEF n

LEMMA ScreenFollows ==
  ASSUME IInv, Calm, Undisturbed, Lossless
  PROVE  ScreenIsStack
<1> DEFINE n == Len(winPriority)
           f == Prio(dec)
           At(k) == CHOOSE i \in Shown : Cardinality(Below(i)) = k - 1
           Who(k) == CHOOSE th \in DOMAIN ids.third : ids.third[th] = At(k)
<1>1. /\ codec = dec /\ Shown = LentVideo /\ n \in Nat
      /\ \A i \in LentVideo : i \in CodecID /\ i \in ids.used /\ f[i] = dec[i].prio
      /\ RankedBy(f, LentVideo, n)
  BY ShownWindows
<1>2. Screen = [k \in 1..Cardinality(Shown) |-> [win |-> Who(k), area |-> codec[At(k)].crop]]
  BY DEF Screen, Shown, Below
<1>3. Cardinality(Shown) = n
  BY BelowCount
<1> HIDE DEF f, n
<1>4. \A i \in LentVideo : f[i] + 1 \in 1..n /\ Cardinality(Below(i)) = f[i]
  BY <1>1, BelowCount DEF n
<1>5. ASSUME NEW i \in LentVideo
      PROVE  At(f[i] + 1) = i
  <2>1. f[i] + 1 \in 1..n /\ f[i] \in 0..(n - 1)
    BY <1>1, <1>4 DEF RankedBy
  <2>2. \A j \in LentVideo : f[j] = f[i] => j = i
    BY <1>1 DEF RankedBy
  <2>3. \A j \in Shown : Cardinality(Below(j)) = (f[i] + 1) - 1 <=> j = i
    BY <1>1, <1>4, <2>1, <2>2
  <2> QED
    BY <1>1, <2>3
<1> HIDE DEF At
<1>6. ASSUME NEW th \in Owners
      PROVE  /\ ids.third[th] \in LentVideo
             /\ th \in ThirdID
             /\ dec[ids.third[th]].crop \in SrcVideo \cup {NoCrop}
             /\ Who(f[ids.third[th]] + 1) = th
  <2>1. th \in DOMAIN ids.third /\ ids.third[th] \in LentVideo
    BY WindowsAreLent DEF Owners
  <2>2. th \in ThirdID
    BY <2>1 DEF IInv, TablesInv, AreTables, IsMap
  <2>3. dec[ids.third[th]] \in AVDec
    BY <1>1, <2>1 DEF IInv, RecordsOK
  <2>4. \A x \in DOMAIN ids.third : ids.third[x] = ids.third[th] => x = th
    BY <2>1 DEF Calm, Owned, LentOnce
  <2>5. Who(f[ids.third[th]] + 1) = th
    BY <1>5, <2>1, <2>4
  <2> QED
    BY <2>1, <2>2, <2>3, <2>5 DEF AVDec
<1>7. ASSUME NEW k \in 1..n
      PROVE  \E th \in Owners : f[ids.third[th]] + 1 = k
  <2>1. k - 1 \in 0..(n - 1)
    BY <1>1
  <2>2. PICK i \in LentVideo : f[i] = k - 1
    BY <1>1, <2>1 DEF RankedBy
  <2>3. PICK th \in DOMAIN ids.third : ids.third[th] = i
    BY <1>1, LentHasOwner
  <2>4. th \in Owners
    BY <2>2, <2>3 DEF Owners, LentVideo
  <2> QED
    BY <2>1, <2>2, <2>3, <2>4
<1>8. \A th \in Owners : Ranks[th] = f[ids.third[th]] /\ EntryOf[th] = Entry(th)
  BY <1>1, <1>6 DEF Ranks, Rank, EntryOf
<1>9. ASSUME NEW th \in Owners
      PROVE  Screen[Ranks[th] + 1] = EntryOf[th] /\ Ranks[th] \in Nat /\ Ranks[th] + 1 \in 1..n
  <2> DEFINE k == f[ids.third[th]] + 1
  <2>1. ids.third[th] \in LentVideo /\ k \in 1..n /\ f[ids.third[th]] \in Nat
    BY <1>1, <1>4, <1>6 DEF RankedBy
  <2>2. Screen[k] = [win |-> Who(k), area |-> codec[At(k)].crop]
    BY <1>2, <1>3, <2>1
  <2>3. Who(k) = th /\ At(k) = ids.third[th] /\ codec = dec
    BY <1>1, <1>5, <1>6, <2>1
  <2> HIDE DEF k, Who
  <2>4. Screen[k] = Entry(th)
    BY <2>2, <2>3 DEF Entry
  <2> QED
    BY <1>8, <2>1, <2>4 DEF k
<1>10. Screen \in Seq(Entries) /\ Len(Screen) = n
  <2>1. ASSUME NEW k \in 1..n
        PROVE  Screen[k] \in Entries
    <3>1. PICK th \in Owners : f[ids.third[th]] + 1 = k
      BY <1>7
    <3>2. Screen[k] = Entry(th)
      BY <1>8, <1>9, <3>1
    <3> QED
      BY <1>6, <3>2 DEF Entry, Entries
  <2> HIDE DEF Who
  <2>2. Screen = [k \in 1..n |-> Screen[k]]
    BY <1>2, <1>3
  <2>3. Screen \in [1..n -> Entries]
    BY <2>1, <2>2
  <2> QED
    BY <1>1, <2>3
<1>11. \A k \in 1..n : \E th \in Owners : Ranks[th] + 1 = k
  BY <1>7, <1>8
<1> QED
  BY <1>9, <1>10, <1>11 DEF ScreenIsStack, IsStackOf, n

-----------------------------------------------------------------------------
(* Taking an entry out of a sequence.                                      *)
LEMMA RemovedAt ==
  ASSUME NEW R, NEW s \in Seq(R), NEW k \in 1..Len(s)
  PROVE  /\ RemoveAt(s, k) \in Seq(R)
         /\ Len(RemoveAt(s, k)) = Len(s) - 1
         /\ \A j \in 1..(Len(s) - 1) : RemoveAt(s, k)[j] = IF j < k THEN s[j] ELSE s[j + 1]
<1>1. /\ SubSeq(s, 1, k - 1) \in Seq(R) /\ Len(SubSeq(s, 1, k - 1)) = k - 1
      /\ \A j \in 1..(k - 1) : SubSeq(s, 1, k - 1)[j] = s[j]
  OBVIOUS
<1>2. /\ SubSeq(s, k + 1, Len(s)) \in Seq(R) /\ Len(SubSeq(s, k + 1, Len(s))) = Len(s) - k
      /\ \A j \in 1..(Len(s) - k) : SubSeq(s, k + 1, Len(s))[j] = s[k + j]
  OBVIOUS
<1> DEFINE u == SubSeq(s, 1, k - 1)
           v == SubSeq(s, k + 1, Len(s))
<1> HIDE DEF u, v
<1>3. /\ u \o v \in Seq(R) /\ Len(u \o v) = Len(s) - 1
      /\ \A j \in 1..(Len(s) - 1) : (u \o v)[j] = IF j < k THEN u[j] ELSE v[j - k + 1]
  <2>1. u \in Seq(R) /\ v \in Seq(R) /\ Len(u) = k - 1 /\ Len(v) = Len(s) - k
    BY <1>1, <1>2 DEF u, v
  <2>2. /\ u \o v \in Seq(R)
        /\ Len(u \o v) = Len(u) + Len(v)
        /\ \A i \in 1..(Len(u) + Len(v)) : (u \o v)[i] = IF i <= Len(u) THEN u[i] ELSE v[i - Len(u)]
    BY <2>1, ConcatProperties
  <2>3. Len(s) \in Nat
    OBVIOUS
  <2> QED
    BY <2>1, <2>2, <2>3
<1> QED
  <2>1. RemoveAt(s, k) = u \o v
    BY DEF RemoveAt, u, v
  <2>2. \A j \in 1..(k - 1) : u[j] = s[j]
    BY <1>1 DEF u
  <2>3. \A j \in 1..(Len(s) - k) : v[j] = s[k + j]
    BY <1>2 DEF v
  <2>4. Len(s) \in Nat
    OBVIOUS
  <2>5. ASSUME NEW j \in 1..(Len(s) - 1)
        PROVE  (u \o v)[j] = IF j < k THEN s[j] ELSE s[j + 1]
    <3>1. CASE j < k
      BY <1>3, <2>2, <3>1
    <3>2. CASE ~(j < k)
      <4>1. j - k + 1 \in 1..(Len(s) - k) /\ k + (j - k + 1) = j + 1
        BY <2>4, <3>2
      <4> QED
        BY <1>3, <2>3, <3>2, <4>1
    <3> QED
      BY <3>1, <3>2
  <2> QED
    BY <1>3, <2>1, <2>5

LEMMA SameSequence ==
  ASSUME NEW s \in Seq(Entries), NEW t \in Seq(Entries), Len(s) = Len(t),
         \A k \in 1..Len(s) : s[k] = t[k]
  PROVE  s = t
OBVIOUS

(* The stacks that the owners, their ranks and their entries describe: the *)
(* windows other than th keep their places, with th on top or not, or     *)
(* close the gap that th left.                                             *)
KeepPlaces(O, r, e, r2, e2) == \A x \in O : r2[x] = r[x] /\ e2[x] = e[x]

JoinOnTop(s, t, n, O, th, r, e, r2, e2) ==
  /\ IsStackOf(s, n, O, r, e)
  /\ IsStackOf(t, n + 1, O \cup {th}, r2, e2)
  /\ th \notin O /\ r2[th] = n /\ KeepPlaces(O, r, e, r2, e2)

CloseGap(O, th, r, e, r2, e2) ==
  \A x \in O \ {th} : /\ r2[x] = IF r[x] > r[th] THEN r[x] - 1 ELSE r[x]
                      /\ e2[x] = e[x]
                      /\ r[x] # r[th]

LEMMA StackStays ==
  ASSUME NEW s, NEW t, NEW n \in Nat, NEW O, NEW r, NEW e, NEW r2, NEW e2,
         IsStackOf(s, n, O, r, e), IsStackOf(t, n, O, r2, e2),
         KeepPlaces(O, r, e, r2, e2)
  PROVE  t = s
<1>1. \A k \in 1..n : t[k] = s[k]
  BY DEF IsStackOf, KeepPlaces
<1> QED
  BY <1>1, SameSequence DEF IsStackOf

LEMMA StackGrows ==
  ASSUME NEW s, NEW t, NEW n \in Nat, NEW O, NEW r, NEW e, NEW r2, NEW e2, NEW th,
         JoinOnTop(s, t, n, O, th, r, e, r2, e2)
  PROVE  t = Append(s, e2[th])
<1>1. t[n + 1] = e2[th] /\ e2[th] \in Entries
  BY DEF IsStackOf, JoinOnTop
<1>2. ASSUME NEW k \in 1..n
      PROVE  t[k] = s[k]
  <2>1. PICK x \in O : r[x] + 1 = k
    BY DEF IsStackOf, JoinOnTop
  <2> QED
    BY <2>1 DEF IsStackOf, JoinOnTop, KeepPlaces
<1> DEFINE u == Append(s, e2[th])
<1>3. u \in Seq(Entries) /\ Len(u) = n + 1 /\ u[n + 1] = e2[th] /\ \A k \in 1..n : u[k] = s[k]
  BY <1>1 DEF IsStackOf, JoinOnTop
<1> HIDE DEF u
<1>4. \A k \in 1..(n + 1) : t[k] = u[k]
  BY <1>1, <1>2, <1>3
<1>5. t = u
  BY <1>3, <1>4, SameSequence DEF IsStackOf, JoinOnTop
<1> QED
  BY <1>5 DEF u

LEMMA StackShrinks ==
  ASSUME NEW s, NEW t, NEW n \in Nat, NEW O, NEW r, NEW e, NEW r2, NEW e2, NEW th \in O,
         NEW m, m = n - 1, NEW O2, O2 = O \ {th},
         IsStackOf(s, n, O, r, e), IsStackOf(t, m, O2, r2, e2),
         CloseGap(O, th, r, e, r2, e2)
  PROVE  t = RemoveAt(s, r[th] + 1)
<1> DEFINE p == r[th] + 1
           u == RemoveAt(s, p)
<1>1. s \in Seq(Entries) /\ Len(s) = n /\ p \in 1..n
  BY DEF IsStackOf
<1>2. /\ u \in Seq(Entries) /\ Len(u) = n - 1
      /\ \A k \in 1..(n - 1) : u[k] = IF k < p THEN s[k] ELSE s[k + 1]
  BY <1>1, RemovedAt
<1> HIDE DEF u
<1>3. ASSUME NEW k \in 1..(n - 1)
      PROVE  t[k] = u[k]
  <2>1. PICK x \in O \ {th} : r2[x] + 1 = k
    BY DEF IsStackOf
  <2>2. /\ t[k] = e2[x] /\ e2[x] = e[x] /\ r[x] + 1 \in 1..n /\ r[th] + 1 \in 1..n /\ s[r[x] + 1] = e[x]
        /\ r[x] \in Nat /\ r[th] \in Nat
    BY <2>1 DEF IsStackOf, CloseGap
  <2>3. CASE r[x] > r[th]
    <3>1. r[x] = k /\ ~(k < p)
      BY <2>1, <2>2, <2>3 DEF CloseGap
    <3> QED
      BY <1>2, <2>2, <3>1
  <2>4. CASE ~(r[x] > r[th])
    <3>1. r[x] + 1 = k /\ k < p
      BY <2>1, <2>2, <2>4 DEF CloseGap
    <3> QED
      BY <1>2, <2>2, <3>1
  <2> QED
    BY <2>3, <2>4
<1>4. t = u
  BY <1>2, <1>3, SameSequence DEF IsStackOf
<1> QED
  BY <1>4 DEF u

LEMMA StackRises ==
  ASSUME NEW s, NEW t, NEW n \in Nat, NEW O, NEW r, NEW e, NEW r2, NEW e2, NEW th \in O,
         IsStackOf(s, n, O, r, e), IsStackOf(t, n, O, r2, e2), r2[th] = n - 1,
         CloseGap(O, th, r, e, r2, e2)
  PROVE  t = Append(RemoveAt(s, r[th] + 1), e2[th])
<1> DEFINE p == r[th] + 1
           w == RemoveAt(s, p)
           u == Append(w, e2[th])
<1>1. s \in Seq(Entries) /\ Len(s) = n /\ p \in 1..n /\ t[n] = e2[th] /\ e2[th] \in Entries
  BY DEF IsStackOf
<1>2. /\ w \in Seq(Entries) /\ Len(w) = n - 1
      /\ \A k \in 1..(n - 1) : w[k] = IF k < p THEN s[k] ELSE s[k + 1]
  BY <1>1, RemovedAt
<1> HIDE DEF w
<1>3. u \in Seq(Entries) /\ Len(u) = n /\ u[n] = e2[th] /\ \A k \in 1..(n - 1) : u[k] = w[k]
  BY <1>1, <1>2
<1> HIDE DEF u
<1>4. t[n] = u[n]
  BY <1>1, <1>3
<1>5. ASSUME NEW k \in 1..(n - 1)
      PROVE  t[k] = u[k]
  <2>1. PICK x \in O : r2[x] + 1 = k
    BY DEF IsStackOf
  <2>2. x # th
    BY <2>1
  <2>3. /\ t[k] = e2[x] /\ e2[x] = e[x] /\ r[x] + 1 \in 1..n /\ r[th] + 1 \in 1..n /\ s[r[x] + 1] = e[x]
        /\ r[x] \in Nat /\ r[th] \in Nat
    BY <2>1, <2>2 DEF IsStackOf, CloseGap
  <2>4. CASE r[x] > r[th]
    <3>1. r[x] = k /\ ~(k < p)
      BY <2>1, <2>2, <2>3, <2>4 DEF CloseGap
    <3> QED
      BY <1>2, <1>3, <2>3, <3>1
  <2>5. CASE ~(r[x] > r[th])
    <3>1. r[x] + 1 = k /\ k < p
      BY <2>1, <2>2, <2>3, <2>5 DEF CloseGap
    <3> QED
      BY <1>2, <1>3, <2>3, <3>1
  <2> QED
    BY <2>4, <2>5
<1>6. \A k \in 1..n : t[k] = u[k]
  BY <1>4, <1>5
<1>7. t = u
  BY <1>3, <1>6, SameSequence DEF IsStackOf
<1> QED
  BY <1>7 DEF u, w

(* An owner is found at its rank, and nobody else is found.                *)
LEMMA OwnersAreFound ==
  ASSUME IInv, Calm, Undisturbed, Lossless
  PROVE  /\ ScreenIsStack
         /\ Len(winPriority) \in Nat
         /\ \A w : Stack!IsShown(w) <=> w \in Owners
         /\ \A w \in Owners : Stack!Place(w) = Ranks[w] + 1
         /\ \A w \in Owners : ids.third[w] \in LentVideo
         /\ \A x, y \in Owners : Ranks[x] = Ranks[y] => x = y
<1> DEFINE n == Len(winPriority)
<1>1. IsStackOf(Screen, n, Owners, Ranks, EntryOf)
  BY ScreenFollows DEF ScreenIsStack
<1>2. \A w \in Owners : EntryOf[w].win = w
  BY DEF EntryOf, Entry
<1>3. \A x \in Owners : Ranks[x] + 1 \in 1..n /\ Screen[Ranks[x] + 1].win = x
  BY <1>1, <1>2 DEF IsStackOf
<1>4. \A k \in 1..n : \E x \in Owners : Ranks[x] + 1 = k /\ Screen[k].win = x
  BY <1>1, <1>3 DEF IsStackOf
<1>5. Len(Screen) = n
  BY <1>1 DEF IsStackOf
<1>6. \A w \in Owners, k \in 1..n : Screen[k].win = w <=> k = Ranks[w] + 1
  BY <1>3, <1>4
<1>7. \A w \in Owners : Stack!Place(w) = Ranks[w] + 1
  BY <1>3, <1>5, <1>6 DEF Stack!Place
<1>8. \A w : Stack!IsShown(w) <=> w \in Owners
  BY <1>3, <1>4, <1>5 DEF Stack!IsShown
<1>9. \A x, y \in Owners : Ranks[x] = Ranks[y] => x = y
  BY <1>3
<1> QED
  BY <1>7, <1>8, <1>9, ScreenFollows, WindowsAreLent DEF Owners

-----------------------------------------------------------------------------
(* Each handler is a step of the stack.                                    *)
LEMMA StackOpen ==
  ASSUME IInv, Calm, Undisturbed, Lossless, ScreenIsStack',
         NEW th \in WindowID, NEW src \in SrcVideo, WindowOpened(th, src)
  PROVE  Stack!Open(th, src)
<1> DEFINE n == Len(winPriority)
<1>1. OpenDone(th, src)
  BY DEF WindowOpened
<1>2. PICK id \in AuViTaskID \ ids.used :
         /\ id \in CodecID
         /\ th \notin DOMAIN ids.third
         /\ ids'.third = Put(ids.third, th, id)
         /\ dec'[id].crop = src /\ dec'[id].prio = n
         /\ \A i \in CodecID \ {id} : dec'[i] = dec[i]
         /\ Len(winPriority') = n + 1
  BY <1>1, OpenEffect
<1>3. /\ ScreenIsStack /\ n \in Nat
      /\ \A x \in Owners : ids.third[x] \in CodecID \ {id}
      /\ ~Stack!IsShown(th) /\ th \notin Owners
  <2>1. \A x \in Owners : ids.third[x] \in LentVideo
    BY OwnersAreFound
  <2>2. \A i \in LentVideo : i \in CodecID /\ i # id
    BY <1>2, WindowsAreLent
  <2>3. th \notin Owners
    BY <1>2 DEF Owners
  <2> QED
    BY <2>1, <2>2, <2>3, OwnersAreFound
<1>4. /\ Owners' = Owners \cup {th} /\ ids'.third[th] = id
      /\ \A x \in Owners : ids'.third[x] = ids.third[x]
  BY <1>2 DEF Owners, Put
<1>5. Ranks'[th] = n /\ EntryOf'[th] = [win |-> th, area |-> src]
  BY <1>2, <1>4 DEF Ranks, Rank, EntryOf, Entry
<1>6. KeepPlaces(Owners, Ranks, EntryOf, Ranks', EntryOf')
  BY <1>2, <1>3, <1>4 DEF KeepPlaces, Ranks, Rank, EntryOf, Entry
<1>7. /\ IsStackOf(Screen', Len(winPriority'), Owners', Ranks', EntryOf')
      /\ IsStackOf(Screen, n, Owners, Ranks, EntryOf)
  BY <1>3 DEF ScreenIsStack
<1>8. Screen' = Append(Screen, EntryOf'[th])
  <2>1. JoinOnTop(Screen, Screen', n, Owners, th, Ranks, EntryOf, Ranks', EntryOf')
    BY <1>2, <1>3, <1>4, <1>5, <1>6, <1>7 DEF JoinOnTop
  <2>2. n \in Nat
    BY <1>3
  <2> HIDE DEF n
  <2> QED
    BY ONLY <2>1, <2>2, StackGrows
<1> QED
  BY <1>3, <1>5, <1>8 DEF Stack!Open

LEMMA StackAdjust ==
  ASSUME IInv, Calm, Undisturbed, Lossless, ScreenIsStack',
         NEW th \in WindowID, NEW src \in SrcVideo, WindowRaised(th, src)
  PROVE  Stack!Adjust(th, src)
<1> DEFINE n == Len(winPriority)
<1>1. \E show \in BOOLEAN : RaiseDone(th, src, show)
  BY DEF WindowRaised
<1>2. PICK id \in LentVideo :
         /\ id \in CodecID
         /\ th \in DOMAIN ids.third /\ ids.third[th] = id
         /\ UNCHANGED <<ids, winPriority>>
         /\ dec'[id].crop = src /\ dec'[id].prio = n - 1
         /\ \A i \in CodecID \ {id} :
              /\ dec'[i].crop = dec[i].crop
              /\ i \in LentVideo =>
                   dec'[i].prio =
                     IF dec[i].prio > dec[id].prio THEN dec[i].prio - 1 ELSE dec[i].prio
  BY <1>1, RaiseEffect
<1>3. th \in Owners /\ Owners' = Owners
  BY <1>2 DEF Owners, LentVideo
<1>4. /\ ScreenIsStack /\ n \in Nat /\ Stack!IsShown(th) /\ Stack!Place(th) = Ranks[th] + 1
      /\ \A x \in Owners : ids.third[x] \in LentVideo
      /\ \A x, y \in Owners : Ranks[x] = Ranks[y] => x = y
  BY <1>3, OwnersAreFound
<1>5. \A x \in Owners \ {th} : ids.third[x] \in CodecID \ {id} /\ Ranks[x] # Ranks[th]
  <2>1. \A x \in Owners \ {th} : Ranks[x] # Ranks[th]
    BY <1>3, <1>4
  <2>2. \A x \in Owners \ {th} : ids.third[x] # id
    BY <1>2, <1>3, <2>1 DEF Ranks, Rank
  <2>3. \A i \in LentVideo : i \in CodecID
    BY WindowsAreLent
  <2> QED
    BY <1>4, <2>1, <2>2, <2>3
<1>6. Ranks'[th] = n - 1 /\ EntryOf'[th] = [win |-> th, area |-> src]
  BY <1>2, <1>3 DEF Ranks, Rank, EntryOf, Entry
<1>7. ASSUME NEW x \in Owners \ {th}
      PROVE  /\ Ranks'[x] = IF Ranks[x] > Ranks[th] THEN Ranks[x] - 1 ELSE Ranks[x]
             /\ EntryOf'[x] = EntryOf[x]
             /\ Ranks[x] # Ranks[th]
  <2>1. /\ Ranks[x] = dec[ids.third[x]].prio /\ Ranks[th] = dec[id].prio
        /\ Ranks'[x] = dec'[ids.third[x]].prio
    BY <1>2, <1>3 DEF Ranks, Rank
  <2>2. EntryOf'[x] = EntryOf[x]
    BY <1>2, <1>3, <1>5 DEF EntryOf, Entry
  <2> QED
    BY <1>2, <1>4, <1>5, <2>1, <2>2
<1>8. CloseGap(Owners, th, Ranks, EntryOf, Ranks', EntryOf')
  BY <1>7 DEF CloseGap
<1>9. /\ IsStackOf(Screen', n, Owners, Ranks', EntryOf')
      /\ IsStackOf(Screen, n, Owners, Ranks, EntryOf)
  BY <1>2, <1>3, <1>4 DEF ScreenIsStack
<1>10. Screen' = Append(RemoveAt(Screen, Ranks[th] + 1), EntryOf'[th])
  <2>1. Ranks'[th] = n - 1 /\ th \in Owners /\ n \in Nat
    BY <1>3, <1>4, <1>6
  <2> QED
    BY <1>8, <1>9, <2>1, StackRises
<1> QED
  BY <1>4, <1>6, <1>10 DEF Stack!Adjust, Stack!Without, Stack!RemoveAt, RemoveAt

LEMMA StackClose ==
  ASSUME IInv, Calm, Undisturbed, Lossless, ScreenIsStack',
         NEW th \in WindowID, CloseWindow(th)
  PROVE  Stack!Close(th)
<1> DEFINE n == Len(winPriority)
<1>1. PICK id \in LentVideo :
         /\ id \in CodecID
         /\ th \in DOMAIN ids.third /\ ids.third[th] = id
         /\ ids'.third = Erase(ids.third, th)
         /\ \A i \in CodecID \ {id} :
              /\ dec'[i].crop = dec[i].crop
              /\ i \in LentVideo =>
                   dec'[i].prio =
                     IF dec[i].prio > dec[id].prio THEN dec[i].prio - 1 ELSE dec[i].prio
         /\ Len(winPriority') = n - 1
  BY CloseEffect
<1>2. /\ th \in Owners /\ Owners' = Owners \ {th}
      /\ \A x \in Owners \ {th} : ids'.third[x] = ids.third[x]
  BY <1>1 DEF Owners, LentVideo, Erase
<1>3. /\ ScreenIsStack /\ n \in Nat /\ Stack!IsShown(th) /\ Stack!Place(th) = Ranks[th] + 1
      /\ \A x \in Owners : ids.third[x] \in LentVideo
      /\ \A x, y \in Owners : Ranks[x] = Ranks[y] => x = y
  BY <1>2, OwnersAreFound
<1>4. \A x \in Owners \ {th} : ids.third[x] \in CodecID \ {id} /\ Ranks[x] # Ranks[th]
  <2>1. \A x \in Owners \ {th} : Ranks[x] # Ranks[th]
    BY <1>2, <1>3
  <2>2. \A x \in Owners \ {th} : ids.third[x] # id
    BY <1>1, <1>2, <2>1 DEF Ranks, Rank
  <2>3. \A i \in LentVideo : i \in CodecID
    BY WindowsAreLent
  <2> QED
    BY <1>3, <2>1, <2>2, <2>3
<1>5. ASSUME NEW x \in Owners \ {th}
      PROVE  /\ Ranks'[x] = IF Ranks[x] > Ranks[th] THEN Ranks[x] - 1 ELSE Ranks[x]
             /\ EntryOf'[x] = EntryOf[x]
             /\ Ranks[x] # Ranks[th]
  <2>1. /\ Ranks[x] = dec[ids.third[x]].prio /\ Ranks[th] = dec[id].prio
        /\ Ranks'[x] = dec'[ids.third[x]].prio
    BY <1>1, <1>2 DEF Ranks, Rank
  <2>2. EntryOf'[x] = EntryOf[x]
    BY <1>1, <1>2, <1>4 DEF EntryOf, Entry
  <2> QED
    BY <1>1, <1>3, <1>4, <2>1, <2>2
<1>6. CloseGap(Owners, th, Ranks, EntryOf, Ranks', EntryOf')
  BY <1>5 DEF CloseGap
<1>7. /\ IsStackOf(Screen', Len(winPriority'), Owners', Ranks', EntryOf')
      /\ IsStackOf(Screen, n, Owners, Ranks, EntryOf)
  BY <1>3 DEF ScreenIsStack
<1>8. Screen' = RemoveAt(Screen, Ranks[th] + 1)
  BY <1>1, <1>2, <1>3, <1>6, <1>7, StackShrinks
<1> QED
  BY <1>3, <1>8 DEF Stack!Close, Stack!Without, Stack!RemoveAt, RemoveAt

LEMMA StackClear ==
  ASSUME IInv, Calm, Undisturbed, ScreenIsStack', NEW ty \in ClearTypes, ClearAllTask(ty, "ok")
  PROVE  Stack!Clear
<1>1. winPriority' = <<>>
  BY ClearEffect
<1>2. Screen' \in Seq(Entries) /\ Len(Screen') = 0
  BY <1>1 DEF ScreenIsStack, IsStackOf
<1> QED
  BY <1>2 DEF Stack!Clear

(* A step that lends, moves or returns no window task and rewrites no      *)
(* record of one leaves the screen alone.                                  *)
LEMMA StackUnmoved ==
  ASSUME IInv, Calm, Undisturbed, Lossless, ScreenIsStack', winPriority' = winPriority,
         Owners' = Owners,
         \A x \in Owners : ids'.third[x] = ids.third[x] /\ dec'[ids.third[x]] = dec[ids.third[x]]
  PROVE  Screen' = Screen
<1> DEFINE n == Len(winPriority)
<1>1. /\ IsStackOf(Screen', n, Owners, Ranks', EntryOf')
      /\ IsStackOf(Screen, n, Owners, Ranks, EntryOf) /\ n \in Nat
  BY OwnersAreFound DEF ScreenIsStack
<1>2. KeepPlaces(Owners, Ranks, EntryOf, Ranks', EntryOf')
  BY DEF KeepPlaces, Ranks, Rank, EntryOf, Entry
<1> QED
  BY <1>1, <1>2, StackStays

LEMMA AudioTouches ==
  ASSUME IInv, Calm, Undisturbed, NEW th \in AudioID,
         \/ \E ao \in AOChn : OpenAudio(th, ao) \/ ShiftAudio(th, ao)
         \/ \E ao : CloseAudio(th, ao)
  PROVE  \E id \in AudioTaskID :
           /\ \A i \in CodecID \ {id} : dec'[i] = dec[i]
           /\ \A x : (x \in DOMAIN ids'.third /\ ids'.third[x] \in AuViTaskID)
                       <=> (x \in DOMAIN ids.third /\ ids.third[x] \in AuViTaskID)
           /\ \A x \in DOMAIN ids.third : ids.third[x] \in AuViTaskID =>
                                            ids'.third[x] = ids.third[x]
<1>1. dec \in [CodecID -> AVDec] /\ AuViTaskID \cap AudioTaskID = {}
  BY PoolsApart DEF IInv, RecordsOK
<1>2. ASSUME NEW ao \in AOChn, OpenAudio(th, ao)
      PROVE  \E id \in AudioTaskID :
           /\ \A i \in CodecID \ {id} : dec'[i] = dec[i]
           /\ th \notin DOMAIN ids.third /\ ids'.third = Put(ids.third, th, id)
  <2> DEFINE id == FindNewID(ids, th, "audio")
  <2>1. /\ IsTaskID(id) /\ id \in AudioTaskID /\ th \notin DOMAIN ids.third
        /\ ids'.third = Put(ids.third, th, id) /\ dec' = Streaming(id, ao)
    BY <1>2, FoundIsFree DEF OpenAudio, TaskType, Pool, Lend
  <2> HIDE DEF id
  <2> QED
    BY <1>1, <2>1 DEF Streaming
<1>3. ASSUME NEW ao \in AOChn, ShiftAudio(th, ao)
      PROVE  \E id \in AudioTaskID :
           /\ \A i \in CodecID \ {id} : dec'[i] = dec[i]
           /\ th \notin DOMAIN ids.third
           /\ \E had \in DOMAIN ids.third :
                ids.third[had] = id /\ ids'.third = Put(Erase(ids.third, had), th, id)
  <2> DEFINE id == aoCodec[ao]
  <2>1. /\ th \notin DOMAIN ids.third /\ id \in ids.used /\ id \in AudioTaskID
        /\ dec' = Restarted(id, ao) /\ ids' = UpdateThirdTaskID(ids, th, id)
    BY <1>3 DEF ShiftAudio, HasTask, Calm, DevicesBound, DevicesHeld, LentAudio
  <2> HIDE DEF id
  <2>2. TypeOfID(id) = "audio"
    BY <2>1, PoolsApart
  <2>3. PICK had \in DOMAIN ids.third : /\ ids.third[had] = id
                                        /\ ids'.third = Put(Erase(ids.third, had), th, id)
    BY <2>1, <2>2, UpdateKeepsLentOnce DEF Calm, Owned, IInv
  <2> QED
    BY <1>1, <2>1, <2>3 DEF Restarted
<1>4. ASSUME NEW ao, CloseAudio(th, ao)
      PROVE  \E id \in AudioTaskID :
           /\ \A i \in CodecID \ {id} : dec'[i] = dec[i]
           /\ th \in DOMAIN ids.third /\ ids.third[th] = id
           /\ ids'.third = Erase(ids.third, th)
  <2> DEFINE id == ids.third[th]
  <2>1. th \in DOMAIN ids.third
    BY <1>4 DEF CloseAudio, Known, HasTask
  <2>2. id \in AudioTaskID /\ TypeOfID(id) = "audio"
    BY <2>1, OwnedTask, PoolsApart DEF LentAudio
  <2>3. dec' = Muted(id) /\ ids' = RemoveCodecTaskID(ids, th)
    BY <1>4, <2>2 DEF CloseAudio, Undisturbed
  <2>4. ids'.third = Erase(ids.third, th)
    BY <2>1, <2>2, <2>3 DEF RemoveCodecTaskID
  <2> HIDE DEF id
  <2>5. \A i \in CodecID \ {id} : dec'[i] = dec[i]
    BY <1>1, <2>3 DEF Muted
  <2> QED
    BY <2>1, <2>2, <2>4, <2>5 DEF id
<1>5. CASE \E ao \in AOChn : OpenAudio(th, ao)
  <2>1. PICK id \in AudioTaskID :
           /\ \A i \in CodecID \ {id} : dec'[i] = dec[i]
           /\ th \notin DOMAIN ids.third /\ ids'.third = Put(ids.third, th, id)
    BY <1>2, <1>5
  <2> QED
    BY <1>1, <2>1 DEF Put
<1>6. CASE \E ao \in AOChn : ShiftAudio(th, ao)
  <2>1. PICK id \in AudioTaskID :
           /\ \A i \in CodecID \ {id} : dec'[i] = dec[i]
           /\ th \notin DOMAIN ids.third
           /\ \E had \in DOMAIN ids.third :
                ids.third[had] = id /\ ids'.third = Put(Erase(ids.third, had), th, id)
    BY <1>3, <1>6
  <2> QED
    BY <1>1, <2>1 DEF Put, Erase
<1>7. CASE \E ao : CloseAudio(th, ao)
  <2>1. PICK id \in AudioTaskID :
           /\ \A i \in CodecID \ {id} : dec'[i] = dec[i]
           /\ th \in DOMAIN ids.third /\ ids.third[th] = id
           /\ ids'.third = Erase(ids.third, th)
    BY <1>4, <1>7
  <2> QED
    BY <1>1, <2>1 DEF Erase
<1> QED
  BY <1>5, <1>6, <1>7

LEMMA StackAudio ==
  ASSUME IInv, Calm, Undisturbed, Lossless, ScreenIsStack', NEW th \in AudioID,
         \/ \E ao \in AOChn : OpenAudio(th, ao) \/ ShiftAudio(th, ao)
         \/ \E ao : CloseAudio(th, ao)
  PROVE  Screen' = Screen
<1>1. winPriority' = winPriority
  BY DEF OpenAudio, ShiftAudio, CloseAudio, windowVars
<1>2. PICK id \in AudioTaskID :
         /\ \A i \in CodecID \ {id} : dec'[i] = dec[i]
         /\ \A x : (x \in DOMAIN ids'.third /\ ids'.third[x] \in AuViTaskID)
                     <=> (x \in DOMAIN ids.third /\ ids.third[x] \in AuViTaskID)
         /\ \A x \in DOMAIN ids.third : ids.third[x] \in AuViTaskID =>
                                          ids'.third[x] = ids.third[x]
  BY AudioTouches
<1>3. Owners' = Owners
  BY <1>2 DEF Owners
<1>4. \A x \in Owners : ids.third[x] \in CodecID \ {id}
  BY <1>2, OwnersAreFound, WindowsAreLent, PoolsApart DEF Owners
<1> QED
  BY <1>1, <1>2, <1>3, <1>4, StackUnmoved DEF Owners

LEMMA StackSteps ==
  ASSUME Undisturbed, Lossless, IInv, Calm, ScreenIsStack', [Next]_vars
  PROVE  [Stack!Next]_Screen
<1>1. ASSUME Quiet \/ UNCHANGED vars
      PROVE  Screen' = Screen
  <2>1. UNCHANGED <<ids, dec, codec>>
    BY <1>1 DEF Quiet, taskVars, vars
  <2> QED
    BY <2>1 DEF Screen
<1>2. ASSUME NEW th \in WindowID, OpenOrCreate(th) \/ RaiseOrMove(th) \/ Close(th)
      PROVE  [Stack!Next]_Screen
  <2>1. CASE \E src \in SrcVideo : WindowOpened(th, src) \/ WindowRaised(th, src)
    BY <2>1, StackOpen, StackAdjust DEF Stack!Next
  <2>2. CASE CloseWindow(th)
    BY <2>2, StackClose DEF Stack!Next
  <2>3. CASE Quiet
    BY <1>1, <2>3
  <2> QED
    BY <1>2, <2>1, <2>2, <2>3, CalmWindowStep
<1>3. ASSUME NEW th \in AudioID, Audio(th)
      PROVE  [Stack!Next]_Screen
  BY <1>1, <1>3, CalmAudioStep, StackAudio
<1>4. ASSUME NEW ty \in ClearTypes, Clear(ty)
      PROVE  [Stack!Next]_Screen
  BY <1>4, CalmClearStep, StackClear DEF Stack!Next
<1>5. ASSUME WaitForClear
      PROVE  FALSE
  BY <1>5 DEF WaitForClear, Calm, NotClearing
<1> QED
  BY <1>1, <1>2, <1>3, <1>4, <1>5 DEF Next

(* The screen of an output node is the stack that its client is promised:  *)
(* for every set of third ids, tasks and areas, in every run in which no   *)
(* record is refused or lost and the client sends what it should.          *)
THEOREM HandlersImplementStack == Undisturbed /\ Lossless => (Spec => StackSpec)
<1> SUFFICES ASSUME Undisturbed, Lossless
             PROVE  Spec => StackSpec
  OBVIOUS
<1>1. IInv /\ Calm => ScreenIsStack
  BY ScreenFollows
<1>2. Init => Stack!Init
  <2> SUFFICES ASSUME Init
               PROVE  Screen = <<>>
    BY DEF Stack!Init
  <2>1. Shown = {}
    BY DEF Init, Closed, Shown
  <2>2. Cardinality(Shown) = 0
    BY <2>1, FS_EmptySet
  <2>3. 1..Cardinality(Shown) = {}
    BY <2>2
  <2>4. DOMAIN Screen = {} /\ Screen = [k \in {} |-> Screen[k]]
    BY <2>3 DEF Screen, Shown
  <2> QED
    BY <2>4
<1>3. IInv /\ Calm /\ ScreenIsStack' /\ [Next]_vars => [Stack!Next]_Screen
  BY StackSteps
<1> QED
  BY <1>1, <1>2, <1>3, StaysCalm, PTL DEF Spec, StackSpec, Stack!Spec
=============================================================================
