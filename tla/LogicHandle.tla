---------------------------- MODULE LogicHandle ----------------------------
(***************************************************************************)
(* The command handlers of an output node (class LogicHandle) over the     *)
(* state that NodeInfo keeps for them.  ServerCommunication starts ONE     *)
(* logic worker, so handlers never overlap: a handler is one action.  What *)
(* can go wrong inside it is the exchange with the codec process, whose    *)
(* outcome is chosen in the action:                                        *)
(*    ok    the codec applied the record and acknowledged it               *)
(*    fail  the codec did not apply it, the node knows                     *)
(*    late  the codec applied it, the node sees an error (reply timeout)   *)
(* Records sent without waiting for a reply may be lost.                   *)
(*                                                                         *)
(* Of an avdec record (DP_M2S_AVDEC_INFO_S) the model keeps                *)
(*    open  s8Open: 0 closed, 1 audio stream, 2 video stream               *)
(*    swms  bSwms: the task is shown as a window                           *)
(*    prio  u32Priority: the window's place in the stack, the top is last  *)
(*    crop  stCrop, computed from the request's srcVideoInfo               *)
(*    dev   the audio output device of the task                            *)
(*                                                                         *)
(* Handlers change the records in place through shared pointers, so a      *)
(* handler that breaks off keeps the changes it has made.                  *)
(***************************************************************************)
EXTENDS CodecTaskID, Listing, SequencesExt

CONSTANTS WindowID,       \* third ids the client sends window commands for
          AudioID,        \* third ids the client sends audio commands for
          SrcVideo,       \* the source areas a window may be cut from
          SwmsChn,        \* codec id -> u32SwmsChn, fixed when the node starts
          NoCrop,         \* the crop of a task that never was a window
          U32,            \* 2^32 of the code: priorities wrap there
          MaxPriorities,  \* bound: a window opens only below so many priorities
          ClearTypes,     \* the u8TaskType values the client sends
          LinkFaults,     \* subset of {"fail", "late", "lost"}
          ClientMistakes  \* whether the client sends requests it should not

ASSUME HandlerAssumption ==
  /\ WindowID \subseteq ThirdID /\ AudioID \subseteq ThirdID
  /\ NoCrop \notin SrcVideo
  /\ U32 \in Nat
  /\ MaxPriorities \in 0..(U32 - 1)
  /\ SwmsChn \in [CodecID -> Nat]
  /\ \A i, j \in VideoTaskID \cup AuViTaskID : SwmsChn[i] = SwmsChn[j] => i = j
  /\ ClearTypes \subseteq 0..2
  /\ LinkFaults \subseteq {"fail", "late", "lost"}
  /\ ClientMistakes \in BOOLEAN
  /\ ClientMistakes \/ WindowID \cap AudioID = {}

AOChn == {"HDMI0", "LINEOUT0"}  \* DP_M2S_AO_DEV_E, as far as handlers use it

AVDec == [open : 0..2, swms : BOOLEAN, prio : 0..(U32 - 1),
          crop : SrcVideo \cup {NoCrop}, dev : AOChn]

VARIABLES ids,             \* the tables of CodecTaskID
          dec,             \* _vAVDecGetInfo, codec id -> record
          winPriority,     \* _vWindowPriority
          swmsDecInfo,     \* _mSwmsChCodecDecInfo, channel -> copy of a record
          srcInfo,         \* _mThirdIDSrcVideoInfo
          aoCodec,         \* _mAODevIDCodecID, AO device -> codec id
          isClearTasking,  \* _isClearTasking
          latch,           \* the count of _latch
          worker,          \* "idle", or "waiting" inside _latch->wait()
          codec,           \* external: the records the codec runs with
          reply,           \* the reply the last handler sent, or NoReply
          saves            \* the TaskRestore calls the last handler made

taskVars == <<ids, dec, codec>>
windowVars == <<winPriority, swmsDecInfo, srcInfo>>
clearVars == <<isClearTasking, latch, worker>>
vars == <<taskVars, windowVars, aoCodec, clearVars, reply, saves>>

Command == {"none", "open", "create", "move", "close", "clear", "openAudio", "closeAudio"}

Replies == [cmd : Command, third : Nat, ok : BOOLEAN]

NoReply == [cmd |-> "none", third |-> 0, ok |-> FALSE]

Reply(cmd, th, ok) == [cmd |-> cmd, third |-> th, ok |-> ok]

(* Calls of TaskRestore::setDataToJson, each a job for its thread pool.    *)
SaveAVDec(id) == [job |-> "avdec", codec |-> id]
SaveWindow(th, id) == [job |-> "window", third |-> th, codec |-> id]
SaveAudio(th, id, ao) == [job |-> "audio", third |-> th, codec |-> id, ao |-> ao]
DropWindow(th) == [job |-> "closeWindow", third |-> th]
DropAudio(th) == [job |-> "closeAudio", third |-> th]

-----------------------------------------------------------------------------
(* The exchange with the codec.                                            *)
Outcome == {"ok"} \cup (LinkFaults \cap {"fail", "late"})

SentTooEarly(d, id, o) == [codec EXCEPT ![id] = dec[id]]  \* mutant: before the change

Sent(d, id, o) == IF o = "fail" THEN codec ELSE [codec EXCEPT ![id] = d[id]]

(* The records of a set of tasks sent one after the other, with a reply or *)
(* without, the result of each ignored: over a link that refuses or loses, *)
(* the codec takes those of a subset.                                      *)
NoArrivals(S) == {{}}  \* mutant: the lowered priorities are not sent

Arrivals(S) == IF LinkFaults \subseteq {"late"} THEN {S} ELSE SUBSET S

Arrived(c, d, S) == [i \in CodecID |-> IF i \in S THEN d[i] ELSE c[i]]

(* The other windows at or above a priority close the gap that a window    *)
(* leaves there.  The subtraction is on an unsigned 32 bit integer.        *)
Above(d, id, p) == {i \in CodecID \ {id} : d[i].swms /\ d[i].prio >= p}

Lowered(d, S) ==
  [i \in CodecID |->
     IF i \in S THEN [d[i] EXCEPT !.prio = (@ + U32 - 1) % U32] ELSE d[i]]

Back == winPriority[Len(winPriority)]

PriorityOfTop == IF winPriority = <<>> THEN 0 ELSE Back  \* mutant: no + 1

NextPriority == IF winPriority = <<>> THEN 0 ELSE (Back + 1) % U32

(* A window's record in swmsDecInfo is a copy taken when it was stored.    *)
Copy(d, id) == [id |-> id, prio |-> d[id].prio, crop |-> d[id].crop]

(* The worker takes a request when it is not inside a handler.             *)
Idle == worker = "idle"

(* Window commands of the batch kind first look at the clear flag.         *)
Admitted == Idle /\ ~isClearTasking

-----------------------------------------------------------------------------
ClosedWithoutMemset ==  \* mutant: s8Open keeps what the memory held
  [open |-> 255, swms |-> FALSE, prio |-> 0, crop |-> NoCrop, dev |-> "HDMI0"]

Closed == [open |-> 0, swms |-> FALSE, prio |-> 0, crop |-> NoCrop, dev |-> "HDMI0"]

(* A node that starts with nothing to restore has set every task closed.   *)
Init ==
  /\ ids = NoTables
  /\ dec = [i \in CodecID |-> Closed]
  /\ codec = [i \in CodecID |-> Closed]
  /\ winPriority = <<>>
  /\ swmsDecInfo = EmptyMap
  /\ srcInfo = EmptyMap
  /\ aoCodec = EmptyMap
  /\ isClearTasking = FALSE
  /\ latch = 0
  /\ worker = "idle"
  /\ reply = NoReply
  /\ saves = <<>>

-----------------------------------------------------------------------------
(* A new window: openAndMoveWindow for a third id without a task, and      *)
(* createWindow, which answers failures too but saves nothing.             *)

HasTask(th) == th \in DOMAIN ids.third

(* Its task has a record; a restored id 0 has none.                        *)
Known(th) == HasTask(th) /\ ids.third[th] \in CodecID

OpenedUnshown(id, src) ==  \* mutant: bSwms stays
  [dec EXCEPT ![id] = [@ EXCEPT !.open = 2, !.prio = NextPriority, !.crop = src]]

(* The record of the task lent to a new window, at the top of the stack.   *)
Opened(id, src) ==
  [dec EXCEPT ![id] = [@ EXCEPT !.open = 2, !.swms = TRUE,
                                !.prio = NextPriority, !.crop = src]]

Pushed == Sorted(Append(winPriority, NextPriority))

OpenDone(th, src) ==
  /\ ~HasTask(th)
  /\ Len(winPriority) < MaxPriorities
  /\ LET id == FindNewID(ids, th, "auvi")
     IN /\ IsTaskID(id)
        /\ ids' = Lend(ids, th, "auvi")
        /\ dec' = Opened(id, src)
        /\ codec' = Sent(dec', id, "ok")
        /\ winPriority' = Pushed
        /\ srcInfo' = Insert(srcInfo, th, src)
        /\ swmsDecInfo' = Insert(swmsDecInfo, SwmsChn[id], Copy(dec', id))
  /\ UNCHANGED <<aoCodec, clearVars>>

(* The codec refuses or does not answer: the id is given back and the      *)
(* priority popped, the record keeps what was written into it.             *)
OpenFails(th, src, o) ==
  /\ ~HasTask(th)
  /\ Len(winPriority) < MaxPriorities
  /\ o # "ok"
  /\ LET id == FindNewID(ids, th, "auvi")
     IN /\ IsTaskID(id)
        /\ ids' = RemoveCodecTaskID(Lend(ids, th, "auvi"), th)
        /\ dec' = Opened(id, src)
        /\ codec' = Sent(dec', id, o)
        /\ winPriority' = Front(Pushed)
  /\ saves' = <<>>
  /\ UNCHANGED <<swmsDecInfo, srcInfo, aoCodec, clearVars>>

(* No codec task is free, the audio flag is not 0 or 1, or the crop, the   *)
(* VO device or the VO channel is rejected after an id was lent.           *)
OpenRejected(th) ==
  /\ ~HasTask(th)
  /\ ids' = RemoveCodecTaskID(Lend(ids, th, "auvi"), th)
  /\ saves' = <<>>
  /\ UNCHANGED <<dec, codec, windowVars, aoCodec, clearVars>>

OpenWindow(th, src) ==
  /\ Admitted
  /\ OpenDone(th, src)
  /\ reply' = Reply("open", th, TRUE)
  /\ saves' = <<SaveAVDec(ids'.third[th]), SaveWindow(th, ids'.third[th])>>

(* openAndMoveWindow answers only a success.                               *)
OpenWindowFails(th, src, o) ==
  Admitted /\ OpenFails(th, src, o) /\ reply' = NoReply

OpenWindowRejected(th) ==
  Admitted /\ OpenRejected(th) /\ reply' = NoReply

CreateWindow(th, src) ==
  /\ Idle
  /\ OpenDone(th, src)
  /\ reply' = Reply("create", th, TRUE)
  /\ saves' = <<>>

CreateWindowFails(th, src, o) ==
  Idle /\ OpenFails(th, src, o) /\ reply' = Reply("create", th, FALSE)

CreateWindowRejected(th) ==
  Idle /\ OpenRejected(th) /\ reply' = Reply("create", th, FALSE)

(* createWindow for a third id that has a task (DP_ERR_THIRD_TASK_ID).     *)
CreateWindowAgain(th) ==
  /\ Idle
  /\ HasTask(th)
  /\ reply' = Reply("create", th, FALSE)
  /\ saves' = <<>>
  /\ UNCHANGED <<taskVars, windowVars, aoCodec, clearVars>>

-----------------------------------------------------------------------------
(* An open window moves and goes to the top: openAndMoveWindow for a third *)
(* id with a task, and moveWindow, which answers failures too but saves    *)
(* nothing.                                                                *)

RaisedInPlace(id, src) == [dec EXCEPT ![id].crop = src]  \* mutant

(* The record of a window that goes to the top.                            *)
Raised(id, src) ==
  [dec EXCEPT ![id] = [@ EXCEPT !.prio = Back, !.crop = src]]

RaiseDone(th, src, show) ==
  /\ Known(th)
  /\ winPriority # <<>>
  /\ LET id == ids.third[th]
         d == [Raised(id, src) EXCEPT ![id].swms = @ \/ show]
         others == Above(d, id, dec[id].prio)
     IN /\ dec' = Lowered(d, others)
        /\ \E S \in Arrivals(others) :
              codec' = Arrived(Sent(d, id, "ok"), dec', S)
        /\ srcInfo' = Put(srcInfo, th, src)
        /\ swmsDecInfo' = Put(swmsDecInfo, SwmsChn[id], Copy(d, id))
  /\ UNCHANGED <<ids, winPriority, aoCodec, clearVars>>

RaiseFails(th, src, o, show) ==
  /\ Known(th)
  /\ winPriority # <<>>
  /\ o # "ok"
  /\ LET id == ids.third[th]
     IN /\ dec' = [Raised(id, src) EXCEPT ![id].swms = @ \/ show]
        /\ codec' = Sent(dec', id, o)
  /\ saves' = <<>>
  /\ UNCHANGED <<ids, windowVars, aoCodec, clearVars>>

RaiseWindow(th, src) ==
  /\ Admitted
  /\ RaiseDone(th, src, TRUE)
  /\ reply' = Reply("open", th, TRUE)
  /\ saves' = <<SaveAVDec(ids.third[th]), SaveWindow(th, ids.third[th])>>

RaiseWindowFails(th, src, o) ==
  Admitted /\ RaiseFails(th, src, o, TRUE) /\ reply' = NoReply

(* The task is unknown to the node (a restored id 0), or the crop, the VO  *)
(* device or the VO channel is rejected: the window's id is given back.    *)
RaiseRejected(th) ==
  /\ Admitted
  /\ HasTask(th)
  /\ ids.third[th] \notin CodecID \/ ClientMistakes
  /\ ids' = RemoveCodecTaskID(ids, th)
  /\ reply' = NoReply
  /\ saves' = <<>>
  /\ UNCHANGED <<dec, codec, windowVars, aoCodec, clearVars>>

(* No priority is recorded although the task exists (DP_ERR_STATE_ABNORMAL)*)
RaiseWithoutStack(th) ==
  /\ Admitted
  /\ Known(th)
  /\ winPriority = <<>>
  /\ dec' = [dec EXCEPT ![ids.third[th]].swms = TRUE]
  /\ reply' = NoReply
  /\ saves' = <<>>
  /\ UNCHANGED <<ids, codec, windowVars, aoCodec, clearVars>>

MoveWindow(th, src) ==
  /\ Idle
  /\ RaiseDone(th, src, FALSE)
  /\ reply' = Reply("move", th, TRUE)
  /\ saves' = <<>>

MoveWindowFails(th, src, o) ==
  Idle /\ RaiseFails(th, src, o, FALSE) /\ reply' = Reply("move", th, FALSE)

(* moveWindow writes the crop before it looks at anything else.            *)
MoveWindowRejected(th, src) ==
  /\ Idle
  /\ IF Known(th)
     THEN /\ winPriority = <<>> \/ ClientMistakes
          /\ dec' = [dec EXCEPT ![ids.third[th]].crop = src]
     ELSE UNCHANGED dec
  /\ reply' = Reply("move", th, FALSE)
  /\ saves' = <<>>
  /\ UNCHANGED <<ids, codec, windowVars, aoCodec, clearVars>>

-----------------------------------------------------------------------------
(* closeWindow                                                             *)

HiddenOnly(id) == [dec EXCEPT ![id].swms = FALSE]  \* mutant: s8Open stays

Hidden(id) == [dec EXCEPT ![id] = [@ EXCEPT !.open = 0, !.swms = FALSE]]

CloseWindow(th) ==
  /\ Idle
  /\ Known(th)
  /\ LET id == ids.third[th]
         d == Hidden(id)
         others == Above(d, id, d[id].prio)
     IN /\ ids' = RemoveCodecTaskID(ids, th)
        /\ dec' = Lowered(d, others)
        /\ \E S \in Arrivals(others) :
              codec' = Arrived(Sent(d, id, "ok"), dec', S)
        /\ swmsDecInfo' = Erase(swmsDecInfo, SwmsChn[id])
        /\ saves' = <<SaveAVDec(id), DropWindow(th)>>
                      \o [k \in 1..Cardinality(others) |->
                            SaveAVDec(InOrder(others)[k])]
  /\ winPriority' = IF winPriority = <<>> THEN <<>> ELSE Sorted(Front(winPriority))
  /\ srcInfo' = Erase(srcInfo, th)
  /\ reply' = Reply("close", th, TRUE)
  /\ UNCHANGED <<aoCodec, clearVars>>

(* The id stays lent, the record says closed; no answer is sent.           *)
CloseWindowFails(th, o) ==
  /\ Idle
  /\ Known(th)
  /\ o # "ok"
  /\ dec' = Hidden(ids.third[th])
  /\ codec' = Sent(dec', ids.third[th], o)
  /\ reply' = NoReply
  /\ saves' = <<>>
  /\ UNCHANGED <<ids, windowVars, aoCodec, clearVars>>

CloseWindowUnknown(th) ==
  /\ Idle
  /\ ~Known(th)
  /\ reply' = NoReply
  /\ saves' = <<>>
  /\ UNCHANGED <<taskVars, windowVars, aoCodec, clearVars>>

-----------------------------------------------------------------------------
(* clearAllTask: u8TaskType 0 video, 1 audio, 2 both                       *)

OnlyVideo(ty) == IF ty = 1 THEN AudioTaskID ELSE VideoTaskID  \* mutant

OfClearType(ty) ==
  CASE ty = 0 -> VideoTaskID \cup AuViTaskID
    [] ty = 1 -> AudioTaskID
    [] ty = 2 -> CodecID

ToClear(ty) == {i \in OfClearType(ty) : dec[i].open # 0}

(* The loop meets the records in the order of their ids and stops at one   *)
(* that no third id borrows.                                               *)
Orphan(i) == Borrowers(ids, i) = {}

Met(ty) == {i \in ToClear(ty) : \A j \in ToClear(ty) : j < i => ~Orphan(j)}

Cleared(ty) == {i \in Met(ty) : ~Orphan(i)}

(* Each record met is marked closed, and its borrower loses the id ...     *)
AllHidden(S) ==
  [i \in CodecID |-> IF i \in S THEN [dec[i] EXCEPT !.open = 0, !.swms = FALSE]
                                ELSE dec[i]]

FirstBorrower(i) == Least(Borrowers(ids, i))

GiveBack(S) ==
  [third  |-> [th \in DOMAIN ids.third \ {FirstBorrower(i) : i \in S} |-> ids.third[th]],
   used   |-> ids.used \ S,
   beUsed |-> [y \in TaskType |->
                 ids.beUsed[y] - Cardinality(S \cap ids.used \cap Pool[y])]]

(* ... and both are saved.                                                 *)
DropTask(i) ==
  IF dec[i].open = 1 THEN DropAudio(FirstBorrower(i)) ELSE DropWindow(FirstBorrower(i))

SavesOfClear(S) ==
  LET order == InOrder(S)
  IN [k \in 1..(2 * Cardinality(S)) |->
        IF k % 2 = 1 THEN SaveAVDec(order[(k + 1) \div 2]) ELSE DropTask(order[k \div 2])]

LeftClosed == 1  \* mutant: no countDown at the end

(* countDown on the latch that the handler has reset to 1.                 *)
CountedDown == 1 - 1

(* The batch command has an outcome of its own: on an error the codec may  *)
(* have closed some of the tasks, and which source areas are dropped       *)
(* depends on a receive buffer that was never written.                     *)
ClearAllTask(ty, o) ==
  /\ Idle
  /\ Cleared(ty) = ToClear(ty)
  /\ LET S == ToClear(ty)
     IN /\ o # "ok" => S # {}
        /\ ids' = GiveBack(S)
        /\ dec' = AllHidden(S)
        /\ \E T \in (IF o = "ok" THEN {S} ELSE SUBSET S) :
              codec' = [i \in CodecID |->
                          IF i \in T THEN [codec[i] EXCEPT !.open = 0, !.swms = FALSE]
                                     ELSE codec[i]]
        /\ \E dropped \in {{FirstBorrower(i) : i \in S}} \cup (IF o = "ok" THEN {} ELSE {{}}) :
              srcInfo' = [th \in DOMAIN srcInfo \ dropped |-> srcInfo[th]]
        /\ saves' = SavesOfClear(S)
  /\ swmsDecInfo' = EmptyMap
  /\ winPriority' = <<>>
  /\ isClearTasking' = FALSE
  /\ latch' = CountedDown
  /\ reply' = Reply("clear", ty, o = "ok")
  /\ UNCHANGED <<aoCodec, worker>>

(* A task that no third id borrows: an error reply and a return from the   *)
(* middle of the handler, with the flag and the latch still set.           *)
ClearAborted(ty) ==
  /\ Idle
  /\ Cleared(ty) # ToClear(ty)
  /\ ids' = GiveBack(Cleared(ty))
  /\ dec' = AllHidden(Met(ty))
  /\ isClearTasking' = TRUE
  /\ latch' = 1
  /\ saves' = SavesOfClear(Cleared(ty))
  /\ reply' = Reply("clear", ty, FALSE)
  /\ UNCHANGED <<codec, windowVars, aoCodec, worker>>

(* openAndMoveWindow or windowBatchControl finds the flag set and waits    *)
(* for the latch.  The worker is the only thread that counts it down.      *)
WaitForClear ==
  /\ Idle
  /\ isClearTasking
  /\ latch > 0
  /\ worker' = "waiting"
  /\ UNCHANGED <<taskVars, windowVars, aoCodec, isClearTasking, latch, reply, saves>>

(* windowBatchControl without a clear in progress changes nothing.         *)

-----------------------------------------------------------------------------
(* openAudio, closeAudio                                                   *)

(* A third id that has a task is answered with success, whatever the task  *)
(* is doing.                                                               *)
OpenAudioAgain(th) ==
  /\ Idle
  /\ HasTask(th)
  /\ reply' = Reply("openAudio", th, TRUE)
  /\ saves' = <<>>
  /\ UNCHANGED <<taskVars, windowVars, aoCodec, clearVars>>

(* An unknown AO channel, no free audio task, or a restored codec id that  *)
(* has no record.                                                          *)
OpenAudioRejected(th, ao) ==
  /\ Idle
  /\ ~HasTask(th)
  /\ \/ ClientMistakes
     \/ IF ao \in DOMAIN aoCodec THEN aoCodec[ao] \notin CodecID
                                 ELSE ~IsTaskID(FindNewID(ids, th, "audio"))
  /\ reply' = Reply("openAudio", th, FALSE)
  /\ saves' = <<>>
  /\ UNCHANGED <<taskVars, windowVars, aoCodec, clearVars>>

StreamingElsewhere(id, ao) == [dec EXCEPT ![id].open = 1]  \* mutant: no device

Streaming(id, ao) == [dec EXCEPT ![id] = [@ EXCEPT !.open = 1, !.dev = ao]]

OpenAudio(th, ao) ==
  /\ Idle
  /\ ~HasTask(th)
  /\ ao \notin DOMAIN aoCodec
  /\ LET id == FindNewID(ids, th, "audio")
     IN /\ IsTaskID(id)
        /\ ids' = Lend(ids, th, "audio")
        /\ dec' = Streaming(id, ao)
        /\ codec' = Sent(dec', id, "ok")
        /\ aoCodec' = Put(aoCodec, ao, id)
        /\ saves' = <<SaveAVDec(id), SaveAudio(th, id, ao)>>
  /\ reply' = Reply("openAudio", th, TRUE)
  /\ UNCHANGED <<windowVars, clearVars>>

(* The id stays lent.                                                      *)
OpenAudioFails(th, ao, o) ==
  /\ Idle
  /\ ~HasTask(th)
  /\ o # "ok"
  /\ ao \notin DOMAIN aoCodec
  /\ LET id == FindNewID(ids, th, "audio")
     IN /\ IsTaskID(id)
        /\ ids' = Lend(ids, th, "audio")
        /\ dec' = Streaming(id, ao)
        /\ codec' = Sent(dec', id, o)
  /\ reply' = Reply("openAudio", th, FALSE)
  /\ saves' = <<>>
  /\ UNCHANGED <<windowVars, aoCodec, clearVars>>

RestartedStopped(id, ao) ==  \* mutant: s8Open stays as the stop left it
  [dec EXCEPT ![id] = [@ EXCEPT !.open = 0, !.dev = ao]]

(* The AO device is taken: its task is stopped, started again with the new *)
(* stream, and handed to the new third id.  The codec id saved is 0.       *)
Restarted(id, ao) ==
  [dec EXCEPT ![id] = [@ EXCEPT !.open = IF TypeOfID(id) = "audio" THEN 1 ELSE 0,
                                !.dev = ao]]

ShiftAudio(th, ao) ==
  /\ Idle
  /\ ~HasTask(th)
  /\ ao \in DOMAIN aoCodec
  /\ LET id == aoCodec[ao]
     IN /\ id \in CodecID
        /\ dec' = Restarted(id, ao)
        /\ codec' = Sent(dec', id, "ok")
        /\ ids' = UpdateThirdTaskID(ids, th, id)
        /\ saves' = <<SaveAVDec(id), SaveAudio(th, 0, ao)>>
  /\ reply' = Reply("openAudio", th, TRUE)
  /\ UNCHANGED <<windowVars, aoCodec, clearVars>>

(* One of the two exchanges fails.                                         *)
ShiftAudioFails(th, ao, o, stopped) ==
  /\ Idle
  /\ ~HasTask(th)
  /\ o # "ok"
  /\ ao \in DOMAIN aoCodec
  /\ LET id == aoCodec[ao]
         stop == [dec EXCEPT ![id].open = 0]
     IN /\ id \in CodecID
        /\ dec' = IF stopped THEN Restarted(id, ao) ELSE stop
        /\ codec' = IF stopped /\ o = "fail" THEN Sent(stop, id, "ok") ELSE Sent(dec', id, o)
  /\ reply' = Reply("openAudio", th, FALSE)
  /\ saves' = <<>>
  /\ UNCHANGED <<ids, windowVars, aoCodec, clearVars>>

MutedNever(id) == dec  \* mutant: s8Open is not reset

(* A window's task keeps its video, an audio task is closed.  The channel  *)
(* of the request is not checked: for an unknown one the device looked up  *)
(* is an uninitialised variable.                                           *)
Muted(id) == [dec EXCEPT ![id].open = CASE TypeOfID(id) = "auvi"  -> 2
                                        [] TypeOfID(id) = "audio" -> 0
                                        [] OTHER -> @]

CloseAudio(th, ao) ==
  /\ Idle
  /\ Known(th)
  /\ LET id == ids.third[th]
     IN /\ ClientMistakes \/ ao = dec[id].dev
        /\ dec' = Muted(id)
        /\ codec' = Sent(dec', id, "ok")
        /\ ids' = IF TypeOfID(id) = "audio" THEN RemoveCodecTaskID(ids, th) ELSE ids
        /\ saves' = <<SaveAVDec(id), DropAudio(th)>>
  /\ aoCodec' = Erase(aoCodec, ao)
  /\ reply' = Reply("closeAudio", th, TRUE)
  /\ UNCHANGED <<windowVars, clearVars>>

CloseAudioFails(th, o) ==
  /\ Idle
  /\ Known(th)
  /\ o # "ok"
  /\ dec' = Muted(ids.third[th])
  /\ codec' = Sent(dec', ids.third[th], o)
  /\ reply' = Reply("closeAudio", th, FALSE)
  /\ saves' = <<>>
  /\ UNCHANGED <<ids, windowVars, aoCodec, clearVars>>

(* No task: an error; a task without a record: success.                    *)
CloseAudioUnknown(th) ==
  /\ Idle
  /\ ~Known(th)
  /\ reply' = Reply("closeAudio", th, HasTask(th))
  /\ saves' = <<>>
  /\ UNCHANGED <<taskVars, windowVars, aoCodec, clearVars>>

-----------------------------------------------------------------------------
OpenOrCreate(th) ==
  \/ OpenWindowRejected(th)
  \/ CreateWindowRejected(th)
  \/ CreateWindowAgain(th)
  \/ \E src \in SrcVideo :
       \/ OpenWindow(th, src)
       \/ CreateWindow(th, src)
       \/ \E o \in Outcome : \/ OpenWindowFails(th, src, o)
                             \/ CreateWindowFails(th, src, o)

RaiseOrMove(th) ==
  \/ RaiseRejected(th)
  \/ RaiseWithoutStack(th)
  \/ \E src \in SrcVideo :
       \/ RaiseWindow(th, src)
       \/ MoveWindow(th, src)
       \/ MoveWindowRejected(th, src)
       \/ \E o \in Outcome : \/ RaiseWindowFails(th, src, o)
                             \/ MoveWindowFails(th, src, o)

Close(th) ==
  \/ CloseWindow(th)
  \/ CloseWindowUnknown(th)
  \/ \E o \in Outcome : CloseWindowFails(th, o)

Clear(ty) ==
  \/ ClearAborted(ty)
  \/ \E o \in Outcome : ClearAllTask(ty, o)

Audio(th) ==
  \/ OpenAudioAgain(th)
  \/ CloseAudioUnknown(th)
  \/ \E o \in Outcome : CloseAudioFails(th, o)
  \/ \E ao \in AOChn \cup {"unknown"} : CloseAudio(th, ao)
  \/ \E ao \in AOChn :
       \/ OpenAudioRejected(th, ao)
       \/ OpenAudio(th, ao)
       \/ ShiftAudio(th, ao)
       \/ \E o \in Outcome :
            \/ OpenAudioFails(th, ao, o)
            \/ \E stopped \in BOOLEAN : ShiftAudioFails(th, ao, o, stopped)

Next ==
  \/ \E th \in WindowID : OpenOrCreate(th) \/ RaiseOrMove(th) \/ Close(th)
  \/ \E th \in AudioID : Audio(th)
  \/ \E ty \in ClearTypes : Clear(ty)
  \/ WaitForClear

Spec == Init /\ [][Next]_vars

-----------------------------------------------------------------------------
(* Properties.  Each names the behaviour it is about; which of them hold    *)
(* under which faults of the codec link and which mistakes of the client   *)
(* is what the runs of this module and the README say.                     *)

(* Every table, record and list holds values of its type; the jobs handed  *)
(* to TaskRestore are left out.                                            *)
TypeOK ==
  /\ AreTables(ids)
  /\ dec \in [CodecID -> AVDec]
  /\ codec \in [CodecID -> AVDec]
  /\ winPriority \in Seq(0..(U32 - 1))
  /\ IsMap(swmsDecInfo, {SwmsChn[i] : i \in CodecID},
           [id : CodecID, prio : 0..(U32 - 1), crop : SrcVideo \cup {NoCrop}])
  /\ IsMap(srcInfo, ThirdID, SrcVideo)
  /\ IsMap(aoCodec, AOChn, CodecID)
  /\ isClearTasking \in BOOLEAN
  /\ latch \in 0..1
  /\ worker \in {"idle", "waiting"}
  /\ reply \in Replies

(* The counter findNewID trusts when it says a pool is full counts the ids *)
(* lent out of that pool: _mOutCodecTaskIDBeUsed against                   *)
(* _vAllUseCodecTaskID, after any sequence of handlers.                    *)
CountersMatch == CountsAgree(ids)

(* No codec task is lost: each id lent out can be given back by a command  *)
(* for some third id, since only removeCodecTaskID of a borrower frees it. *)
NoTaskLeaked == \A i \in ids.used : Borrowers(ids, i) # {}

(* Each third id has a codec task of its own, and a task marked as lent    *)
(* has one owner: no two streams are ever sent to one decoder.             *)
EveryTaskLentOnce == LentOnce(ids)

(* A third id gets a task only in a step that answers it, and answers a    *)
(* window command with success: the note in openAndMoveWindow, "if break   *)
(* in process ,free source such as codec task id".  An openAudio that the  *)
(* codec refuses keeps the id.                                             *)
TaskOnlyWithSuccess ==
  [][\A th \in DOMAIN ids'.third \ DOMAIN ids.third :
        /\ reply'.third = th
        /\ reply'.ok \/ reply'.cmd = "openAudio"]_vars

Windows == {i \in CodecID : dec[i].swms}

(* The priorities of the n windows are 0 to n-1, one each, and so are the  *)
(* entries of _vWindowPriority: opening, raising, closing and clearing     *)
(* never leave a gap, a tie or a wrapped-around priority.                  *)
PriorityStack ==
  LET n == Cardinality(Windows)
  IN /\ {dec[i].prio : i \in Windows} = 0..(n - 1)
     /\ winPriority = [k \in 1..n |-> k - 1]

(* A record is open exactly when its id is lent, and is a window exactly   *)
(* when the id is lent for video: clearAllTask relies on it when it takes  *)
(* every open record to have a third id.                                   *)
OpenIsLent ==
  \A i \in CodecID :
     /\ dec[i].open # 0 <=> i \in ids.used
     /\ dec[i].swms <=> i \in ids.used /\ TypeOfID(i) # "audio"

(* What a status query (Get_OutputVideoChnInfo) reports is what the codec  *)
(* shows: one entry per window, found under its channel, with an owner and *)
(* the source area the codec cuts.                                         *)
ReportMatchesScreen ==
  /\ DOMAIN swmsDecInfo = {SwmsChn[i] : i \in {j \in CodecID : codec[j].swms}}
  /\ \A c \in DOMAIN swmsDecInfo :
        LET id == swmsDecInfo[c].id
        IN /\ SwmsChn[id] = c
           /\ \E th \in Borrowers(ids, id) \cap DOMAIN srcInfo :
                 srcInfo[th] = codec[id].crop

(* Between handlers the codec runs every task with the record the node     *)
(* holds, so the node's view of the screen is the screen.                  *)
CodecInStep == codec = dec

(* When a window command has been answered with success the codec runs the *)
(* window as recorded, and above every other window that has an owner      *)
(* (interactivepro.h, command 5: an adjusted window is put on top).        *)
AnsweredOnTop ==
  reply.ok /\ reply.cmd \in {"open", "create", "move"} =>
    LET id == ids.third[reply.third]
    IN /\ codec[id] = dec[id]
       /\ \A j \in (Windows \cap ids.used) \ {id} : dec[j].prio < dec[id].prio

(* Command 5 promises that of every window it moves: its priority is above *)
(* those of the other windows with an owner.                               *)
MovedOnTop ==
  reply.ok /\ reply.cmd = "move" =>
    LET id == ids.third[reply.third]
    IN dec[id].swms =>
         \A j \in (Windows \cap ids.used) \ {id} : dec[j].prio < dec[id].prio

(* A window command answered with success leaves its window on the screen. *)
AnsweredIsShown ==
  reply.ok /\ reply.cmd \in {"open", "create", "move"} =>
    codec[ids.third[reply.third]].swms

(* When a clear has been answered with success no task of its kind runs on *)
(* the codec ("0 video, 1 audio, 2 both").                                 *)
ClearedMeansClosed ==
  reply.cmd = "clear" /\ reply.ok =>
    \A i \in CodecID :
       (reply.third = 0 => i \notin AudioTaskID)
       /\ (reply.third = 1 => i \in AudioTaskID) => codec[i].open = 0

(* The flag a window command tests and the latch it then waits for agree:  *)
(* it never finds the flag set with a latch that is already open, and      *)
(* never passes a latch that is still closed.                              *)
ClearBarrier == isClearTasking <=> latch > 0

(* The one logic worker is never left waiting for a clear: nobody else     *)
(* could finish it.                                                        *)
WorkerNotStuck == worker = "idle"

(* The device table names the task that plays on the device: lent to one   *)
(* third id, open, and bound to that device.                               *)
AudioOwned ==
  \A ao \in DOMAIN aoCodec :
     LET id == aoCodec[ao]
     IN /\ Cardinality(Borrowers(ids, id)) = 1
        /\ id \in ids.used
        /\ codec[id].open = 1
        /\ codec[id].dev = ao

(* Two audio tasks never play on one output device: a new stream for a     *)
(* device in use shifts its task instead of opening another.               *)
OneTaskPerDevice ==
  \A i, j \in AudioTaskID :
     codec[i].open # 0 /\ codec[j].open # 0 /\ codec[i].dev = codec[j].dev => i = j

(* openAudio answered with success: a stream of that third id plays        *)
(* ("0成功 其他失败，含错误码").                                              *)
AnsweredAudioPlays ==
  reply.cmd = "openAudio" /\ reply.ok =>
    codec[ids.third[reply.third]].open # 0

(* The stack of windows on the codec, the bottom window first, each named  *)
(* by its owner: what WindowStack calls stack.  On a tie of priorities the *)
(* codec is taken to show the higher id on top.                            *)
Screen ==
  LET shown == {i \in CodecID : codec[i].swms}
      Below(i) == {j \in shown : \/ codec[j].prio < codec[i].prio
                                 \/ codec[j].prio = codec[i].prio /\ j < i}
      At(k) == CHOOSE i \in shown : Cardinality(Below(i)) = k - 1
  IN [k \in 1..Cardinality(shown) |->
        [win |-> CHOOSE th \in DOMAIN ids.third : ids.third[th] = At(k),
         area |-> codec[At(k)].crop]]

(* The handlers implement the abstract stack of windows.                   *)
Stack == INSTANCE WindowStack WITH
           Window <- WindowID, Area <- SrcVideo, stack <- Screen

StackSpec == Stack!Spec
=============================================================================
