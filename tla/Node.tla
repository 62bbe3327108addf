-------------------------------- MODULE Node --------------------------------
(***************************************************************************)
(* An output node that crashes and starts again: the command handlers of   *)
(* LogicHandle queue jobs for TaskRestore, a crash loses everything in     *)
(* memory at any moment, and a start (NodeInfo's constructor) reads the    *)
(* files back and sets the codec accordingly.                              *)
(***************************************************************************)
EXTENDS LogicHandle

CONSTANTS Worker,    \* the threads of TaskRestore's pool
          MaxQueue,  \* bound of its queue
          Patient,   \* whether the client sends a command only when the jobs
                     \* of the one before are done
          CrashMidway  \* whether a crash may hit while a job is under way

ASSUME NodeAssumption ==
  /\ MaxQueue \in Nat \ {0}
  /\ Patient \in BOOLEAN
  /\ CrashMidway \in BOOLEAN

VARIABLES files, queue, threads,  \* as in TaskRestore
          promised   \* history: the third ids whose window was answered by
                     \* openAndMoveWindow, the one window command that saves

store == <<files, queue, threads>>
nodeVars == <<vars, store, promised>>

Store == INSTANCE TaskRestore

(* A job carries its data by value.                                        *)
JobOf(s) ==
  CASE s.job = "avdec" ->
         Store!Save("avdec", [codec |-> s.codec, rec |-> dec'[s.codec]])
    [] s.job = "window" ->
         Store!Save("window", [third |-> s.third, codec |-> s.codec,
                               src |-> dec'[s.codec].crop])
    [] s.job = "audio" ->
         Store!Save("audio", [third |-> s.third, codec |-> s.codec, ao |-> s.ao])
    [] s.job = "closeWindow" -> Store!Remove("window", s.third)
    [] s.job = "closeAudio"  -> Store!Remove("audio", s.third)

(* The records that a start without files writes to the avdec file, one    *)
(* after the other and before the pool has threads.                        *)
FirstRecords ==
  [k \in 1..Cardinality(CodecID) |-> [codec |-> InOrder(CodecID)[k], rec |-> Closed]]

NodeInit ==
  /\ Init
  /\ files = Store!Files0(FirstRecords)
  /\ Store!NothingQueued
  /\ promised = {}

-----------------------------------------------------------------------------
(* What a start reads back.                                                *)
WindowsFile == files["window"].list
AudioFile == files["audio"].list

(* The records, or closed ones when the file is not readable.              *)
RestoredDec ==
  IF files["avdec"].parses
  THEN [i \in CodecID |-> Store!First(files["avdec"].list, "codec", i).rec]
  ELSE [i \in CodecID |-> Closed]

(* Windows first; an audio stream does not replace a window's entry.       *)
RestoredThird ==
  LET wins == Store!Keys(WindowsFile, "third")
      auds == Store!Keys(AudioFile, "third")
  IN [th \in wins \cup auds |->
        IF th \in wins THEN Store!First(WindowsFile, "third", th).codec
                       ELSE Store!First(AudioFile, "third", th).codec]

OpenOf(d) == {i \in CodecID : d[i].open # 0}

NoneCounted(d) == [y \in TaskType |-> 0]  \* mutant: the counters start at 0

Counted(d) == [y \in TaskType |-> Cardinality(OpenOf(d) \cap Pool[y])]

ShownOf(d) == {i \in CodecID : d[i].swms}

(* The priorities of the windows read back, sorted.                        *)
RestoredPriorities(d) ==
  Sorted([k \in 1..Cardinality(ShownOf(d)) |-> d[InOrder(ShownOf(d))[k]].prio])

(* A crash and the start that follows it.                                  *)
Restart ==
  /\ CrashMidway \/ Store!Drained
  /\ dec' = RestoredDec
  /\ codec' = RestoredDec
  /\ ids' = [third |-> RestoredThird, used |-> OpenOf(RestoredDec),
             beUsed |-> Counted(RestoredDec)]
  /\ winPriority' = RestoredPriorities(RestoredDec)
  /\ swmsDecInfo' =
       [c \in {SwmsChn[i] : i \in ShownOf(RestoredDec)} |->
          Copy(RestoredDec, CHOOSE i \in ShownOf(RestoredDec) : SwmsChn[i] = c)]
  /\ srcInfo' = [th \in Store!Keys(WindowsFile, "third") |->
                   Store!First(WindowsFile, "third", th).src]
  /\ aoCodec' = [ao \in Store!Keys(AudioFile, "ao") |->
                   Store!First(AudioFile, "ao", ao).codec]
  /\ isClearTasking' = FALSE
  /\ latch' = 0
  /\ worker' = "idle"
  /\ reply' = NoReply
  /\ saves' = <<>>
  /\ files' = IF files["avdec"].parses THEN files
              ELSE [files EXCEPT !["avdec"] = Store!Readable(FirstRecords)]
  /\ queue' = <<>>
  /\ threads' = [w \in Worker |-> Store!Idle]
  /\ promised' = {th \in Store!Keys(WindowsFile, "third") :
                     RestoredThird[th] \in OpenOf(RestoredDec)}

-----------------------------------------------------------------------------
(* A handler with the jobs it queues.                                      *)
Handled(A) ==
  /\ Patient => Store!Drained
  /\ A
  /\ Store!Submit([k \in 1..Len(saves') |-> JobOf(saves'[k])])
  /\ promised' =
       CASE reply'.cmd = "open" /\ reply'.ok -> promised \cup {reply'.third}
         [] OTHER -> promised \cap DOMAIN ids'.third

WindowCommand ==
  Handled(\E th \in WindowID : OpenOrCreate(th) \/ RaiseOrMove(th) \/ Close(th))

AudioCommand == Handled(\E th \in AudioID : Audio(th))

ClearCommand == Handled(\E ty \in ClearTypes : Clear(ty))

Waiting == WaitForClear /\ UNCHANGED <<store, promised>>

Work(w) == Store!Work(w) /\ UNCHANGED <<vars, promised>>

NodeNext ==
  \/ WindowCommand
  \/ AudioCommand
  \/ ClearCommand
  \/ Waiting
  \/ \E w \in Worker : Work(w)
  \/ Restart

(* The threads of the pool run; the client and crashes owe nothing.        *)
NodeSpec == NodeInit /\ [][NodeNext]_nodeVars /\ \A w \in Worker : WF_nodeVars(Work(w))

-----------------------------------------------------------------------------
Entry ==
  [codec : CodecID, rec : AVDec]
  \cup [third : ThirdID, codec : CodecID, src : SrcVideo \cup {NoCrop}]
  \cup [third : ThirdID, codec : CodecID \cup {0}, ao : AOChn]

(* The files and what is under way to them.                                *)
StoreTypeOK ==
  /\ \A f \in Store!File : files[f].parses \in BOOLEAN /\ files[f].list \in Seq(Entry)
  /\ Len(queue) <= MaxQueue
  /\ \A w \in Worker : threads[w].at \in {"idle", "taken", "read", "opened"}
  /\ promised \subseteq ThirdID

(* A restart, once the jobs are done, gives every window opened through    *)
(* openAndMoveWindow back to its owner, open and shown as it was           *)
(* (VersionInfo.h: "third task recover").                                  *)
NothingForgotten ==
  Store!Drained =>
    \A th \in promised :
       /\ th \in DOMAIN RestoredThird
       /\ RestoredThird[th] = ids.third[th]
       /\ ids.third[th] \in CodecID =>
            /\ RestoredDec[ids.third[th]].open = dec[ids.third[th]].open
            /\ RestoredDec[ids.third[th]].swms = dec[ids.third[th]].swms

(* ... and brings back nothing that was closed: neither an owner nor a     *)
(* running task.                                                           *)
NothingRevived ==
  Store!Drained =>
    /\ \A th \in DOMAIN RestoredThird :
          th \in DOMAIN ids.third /\ ids.third[th] = RestoredThird[th]
    /\ OpenOf(RestoredDec) \subseteq OpenOf(dec)

(* The jobs of a command get done: no thread of the pool blocks another    *)
(* for good, whatever the files hold.                                      *)
JobsGetDone == ~Store!Drained ~> Store!Drained
=============================================================================
