---------------------------- MODULE Node_proofs ----------------------------
(***************************************************************************)
(* What a node keeps over crashes and restarts.  IInv of LogicHandle_proofs *)
(* does not survive a restart from files that a crash has truncated: an id *)
(* may come back lent without an owner, a window without a priority of its *)
(* own.  What does survive, whatever the files hold, is shown here.        *)
(***************************************************************************)
EXTENDS Node, LogicHandle_proofs

-----------------------------------------------------------------------------
(* Sets B[x] of those that come before x ...                               *)
Precede(S, B) ==
  /\ B \in [S -> SUBSET S]
  /\ \A x \in S : x \notin B[x]
  /\ \A x, y \in S : x # y => \/ x \in B[y] /\ B[x] \subseteq B[y]
                              \/ y \in B[x] /\ B[y] \subseteq B[x]

(* ... number the elements of S, each with a place of its own.             *)
Number(S, B) ==
  /\ \A x \in S : Cardinality(B[x]) \in 0..(Cardinality(S) - 1)
  /\ \A x, y \in S : Cardinality(B[x]) = Cardinality(B[y]) => x = y
  /\ \A k \in 0..(Cardinality(S) - 1) : \E x \in S : Cardinality(B[x]) = k

LEMMA PlacesAreFilled ==
  ASSUME NEW S, IsFiniteSet(S), NEW B, Precede(S, B)
  PROVE  Number(S, B)
<1> USE DEF Precede
<1> DEFINE n == Cardinality(S)
           f == [x \in S |-> Cardinality(B[x])]
<1>1. n \in Nat
  BY FS_CardinalityType
<1>2. ASSUME NEW T \in SUBSET S, NEW U \in SUBSET S, T \subseteq U, T # U
      PROVE  /\ Cardinality(T) \in Nat /\ Cardinality(U) \in Nat
             /\ Cardinality(T) < Cardinality(U)
  <2>1. IsFiniteSet(U) /\ IsFiniteSet(T)
    BY FS_Subset
  <2>2. Cardinality(T) <= Cardinality(U) /\ (Cardinality(U) = Cardinality(T) => U = T)
    BY <1>2, <2>1, FS_Subset
  <2>3. Cardinality(T) \in Nat /\ Cardinality(U) \in Nat
    BY <2>1, FS_CardinalityType
  <2> QED
    BY <1>2, <2>2, <2>3
<1>3. ASSUME NEW x \in S
      PROVE  Cardinality(B[x]) \in 0..(n - 1)
  <2>1. B[x] \in SUBSET S /\ B[x] # S
    OBVIOUS
  <2> QED
    BY <1>1, <1>2, <2>1
<1>4. ASSUME NEW x \in S, NEW y \in S, x # y
      PROVE  Cardinality(B[x]) # Cardinality(B[y])
  <2>1. CASE x \in B[y] /\ B[x] \subseteq B[y]
    <3>1. B[x] \in SUBSET S /\ B[y] \in SUBSET S /\ B[x] # B[y]
      BY <2>1
    <3> QED
      BY <1>2, <2>1, <3>1
  <2>2. CASE y \in B[x] /\ B[y] \subseteq B[x]
    <3>1. B[x] \in SUBSET S /\ B[y] \in SUBSET S /\ B[x] # B[y]
      BY <2>2
    <3> QED
      BY <1>2, <2>2, <3>1
  <2> QED
    BY <1>4, <2>1, <2>2
<1>5. f \in Injection(S, 0..(n - 1))
  BY <1>3, <1>4 DEF Injection, IsInjective
<1>6. IsFiniteSet(0..(n - 1)) /\ Cardinality(0..(n - 1)) = n
  <2>1. 0 \in Int /\ n - 1 \in Int
    BY <1>1
  <2>2. IsFiniteSet(0..(n - 1))
        /\ Cardinality(0..(n - 1)) = IF 0 > n - 1 THEN 0 ELSE (n - 1) - 0 + 1
    BY <2>1, FS_Interval
  <2> QED
    BY <1>1, <2>2
<1>7. f \in Surjection(S, 0..(n - 1))
  BY <1>5, <1>6, FS_Injection
<1>8. \A k \in 0..(n - 1) : \E x \in S : Cardinality(B[x]) = k
  BY <1>7 DEF Surjection
<1> QED
  BY <1>3, <1>4, <1>8 DEF Number

(* The numbers before one of a set, as PlacesAreFilled wants them.         *)
LEMMA SmallerOnes ==
  ASSUME NEW S \in SUBSET Nat
  PROVE  Precede(S, [x \in S |-> {y \in S : y < x}])
<1> DEFINE B == [x \in S |-> {y \in S : y < x}]
<1>1. B \in [S -> SUBSET S]
  OBVIOUS
<1>2. ASSUME NEW x \in S
      PROVE  x \notin B[x]
  OBVIOUS
<1>3. ASSUME NEW x \in S, NEW y \in S, x < y
      PROVE  x \in B[y] /\ B[x] \subseteq B[y]
  <2>1. \A z \in S : z < x => z < y
    BY <1>3
  <2> QED
    BY <1>3, <2>1
<1>4. ASSUME NEW x \in S, NEW y \in S, x # y
      PROVE  \/ x \in B[y] /\ B[x] \subseteq B[y]
             \/ y \in B[x] /\ B[y] \subseteq B[x]
  <2>1. x < y \/ y < x
    BY <1>4
  <2> QED
    BY <1>3, <2>1
<1> QED
  BY <1>1, <1>2, <1>4 DEF Precede

(* A set of numbers in order: all of them, each once.                      *)
LEMMA ListedInOrder ==
  ASSUME NEW S \in SUBSET Nat, IsFiniteSet(S)
  PROVE  /\ Cardinality(S) \in Nat
         /\ InOrder(S) \in [1..Cardinality(S) -> S]
         /\ \A x \in S : \E k \in 1..Cardinality(S) : InOrder(S)[k] = x
         /\ \A k, m \in 1..Cardinality(S) : InOrder(S)[k] = InOrder(S)[m] => k = m
<1> DEFINE n == Cardinality(S)
           B == [x \in S |-> {y \in S : y < x}]
<1>1. n \in Nat
  BY FS_CardinalityType
<1>2. Number(S, B)
  <2>1. Precede(S, B)
    BY SmallerOnes
  <2> HIDE DEF B
  <2> QED
    BY <2>1, PlacesAreFilled
<1>3. /\ \A x \in S : Cardinality(B[x]) \in 0..(n - 1)
      /\ \A x, y \in S : Cardinality(B[x]) = Cardinality(B[y]) => x = y
      /\ \A k \in 0..(n - 1) : \E x \in S : Cardinality(B[x]) = k
  <2> HIDE DEF B
  <2> QED
    BY <1>2 DEF Number
<1>4. ASSUME NEW k \in 1..n
      PROVE  /\ InOrder(S)[k] \in S
             /\ Cardinality(B[InOrder(S)[k]]) = k - 1
  <2>1. k - 1 \in 0..(n - 1)
    BY <1>1
  <2>2. PICK x \in S : Cardinality(B[x]) = k - 1
    BY <1>3, <2>1
  <2>3. Cardinality({y \in S : y < x}) = k - 1
    BY <2>2
  <2>4. InOrder(S)[k] = CHOOSE z \in S : Cardinality({y \in S : y < z}) = k - 1
    BY DEF InOrder
  <2>5. InOrder(S)[k] \in S /\ Cardinality({y \in S : y < InOrder(S)[k]}) = k - 1
    BY <2>3, <2>4
  <2> QED
    BY <2>5
<1>5. InOrder(S) \in [1..n -> S]
  BY <1>4 DEF InOrder
<1>6. ASSUME NEW x \in S
      PROVE  \E k \in 1..n : InOrder(S)[k] = x
  <2> DEFINE k == Cardinality(B[x]) + 1
  <2>1. k \in 1..n /\ k - 1 = Cardinality(B[x])
    BY <1>1, <1>3
  <2> HIDE DEF k, B
  <2>2. InOrder(S)[k] \in S /\ Cardinality(B[InOrder(S)[k]]) = Cardinality(B[x])
    BY <1>4, <2>1
  <2> QED
    BY <1>3, <2>1, <2>2
<1>7. ASSUME NEW k \in 1..n, NEW m \in 1..n, InOrder(S)[k] = InOrder(S)[m]
      PROVE  k = m
  <2> HIDE DEF B
  <2>1. k - 1 = m - 1
    BY <1>4, <1>7
  <2> QED
    BY <1>1, <2>1
<1> QED
  BY <1>1, <1>5, <1>6, <1>7

(* Sorting leaves the numbers of a vector.                                 *)
LEMMA SortedIsTyped ==
  ASSUME NEW R \in SUBSET Nat, NEW s \in Seq(R)
  PROVE  Sorted(s) \in Seq(R)
<1> DEFINE n == Len(s)
           B == [i \in 1..n |-> Before(s, i)]
<1>1. n \in Nat /\ IsFiniteSet(1..n) /\ Cardinality(1..n) = n
  <2>1. n \in Nat
    OBVIOUS
  <2>2. 1 \in Int /\ n \in Int
    BY <2>1
  <2>3. IsFiniteSet(1..n) /\ Cardinality(1..n) = IF 1 > n THEN 0 ELSE n - 1 + 1
    BY <2>2, FS_Interval
  <2> QED
    BY <2>1, <2>3
<1>2. Precede(1..n, B)
  <2>1. ASSUME NEW x \in 1..n
        PROVE  s[x] \in Nat /\ x \in Nat
    <3>1. s[x] \in R
      OBVIOUS
    <3>2. x \in Nat
      BY <1>1
    <3> QED
      BY <3>1, <3>2
  <2>2. B \in [1..n -> SUBSET (1..n)]
    BY DEF Before
  <2>3. ASSUME NEW x \in 1..n
        PROVE  x \notin B[x]
    BY <2>1 DEF Before
  <2>4. ASSUME NEW x \in 1..n, NEW y \in 1..n, s[x] < s[y] \/ (s[x] = s[y] /\ x < y)
        PROVE  x \in B[y] /\ B[x] \subseteq B[y]
    <3>1. x \in B[y]
      BY <2>4 DEF Before
    <3>2. ASSUME NEW z \in 1..n, s[z] < s[x] \/ (s[z] = s[x] /\ z < x)
          PROVE  s[z] < s[y] \/ (s[z] = s[y] /\ z < y)
      BY <2>1, <2>4, <3>2
    <3> QED
      BY <3>1, <3>2 DEF Before
  <2>5. ASSUME NEW x \in 1..n, NEW y \in 1..n, x # y
        PROVE  \/ x \in B[y] /\ B[x] \subseteq B[y]
               \/ y \in B[x] /\ B[y] \subseteq B[x]
    <3>1. \/ s[x] < s[y] \/ (s[x] = s[y] /\ x < y)
          \/ s[y] < s[x] \/ (s[y] = s[x] /\ y < x)
      BY <2>1, <2>5
    <3> HIDE DEF B
    <3> QED
      BY <2>4, <3>1
  <2> QED
    BY <2>2, <2>3, <2>5 DEF Precede
<1>3. \A k \in 0..(n - 1) : \E x \in 1..n : Cardinality(B[x]) = k
  <2> HIDE DEF B
  <2>1. Number(1..n, B)
    BY <1>1, <1>2, PlacesAreFilled
  <2> QED
    BY <1>1, <2>1 DEF Number
<1>4. ASSUME NEW k \in 1..n
      PROVE  s[CHOOSE i \in 1..n : Cardinality(Before(s, i)) = k - 1] \in R
  <2>1. k - 1 \in 0..(n - 1)
    BY <1>1
  <2>2. PICK x \in 1..n : Cardinality(B[x]) = k - 1
    BY <1>3, <2>1
  <2>3. Cardinality(Before(s, x)) = k - 1
    BY <2>2
  <2>4. (CHOOSE i \in 1..n : Cardinality(Before(s, i)) = k - 1) \in 1..n
    BY <2>3
  <2> QED
    BY <2>4
<1>5. [k \in 1..n |-> s[CHOOSE i \in 1..n : Cardinality(Before(s, i)) = k - 1]] \in Seq(R)
  BY <1>1, <1>4
<1> QED
  BY <1>5 DEF Sorted

-----------------------------------------------------------------------------
(* The inductive invariant.  In memory: the tables count what is lent and  *)
(* every record, priority and device entry is of its type.                 *)
MemoryOK ==
  /\ AreTables(ids)
  /\ CountsAgree(ids)
  /\ dec \in [CodecID -> AVDec]
  /\ winPriority \in Seq(0..(U32 - 1))
  /\ IsMap(aoCodec, AOChn, CodecID \cup {0})

(* What each file holds, and the jobs on it.                               *)
RecordEntry == [codec : CodecID, rec : AVDec]
WindowEntry == [third : ThirdID, codec : CodecID, src : SrcVideo \cup {NoCrop}]
AudioEntry  == [third : ThirdID, codec : CodecID \cup {0}, ao : AOChn]

EntryOf == [avdec |-> RecordEntry, window |-> WindowEntry, audio |-> AudioEntry]

SaveJob(f) == [do : {"save"}, file : {f}, entry : EntryOf[f]]

RemoveJob == [do : {"remove"}, file : {"window", "audio"}, third : ThirdID]

Job == SaveJob("avdec") \cup SaveJob("window") \cup SaveJob("audio") \cup RemoveJob

(* A list of entries of a file.  The avdec file, when it can be read, has  *)
(* a record of every codec task: a start relies on it.                     *)
Complete(list) == \A i \in CodecID : \E k \in 1..Len(list) : list[k].codec = i

ListOf(f, list) ==
  /\ list \in Seq(EntryOf[f])
  /\ f = "avdec" => Complete(list)

FileOK(f) ==
  /\ files[f] = [parses |-> files[f].parses, list |-> files[f].list]
  /\ files[f].parses \in BOOLEAN
  /\ files[f].list \in Seq(EntryOf[f])
  /\ files[f].parses /\ f = "avdec" => Complete(files[f].list)

(* A thread, and the list it is about to write.                            *)
ThreadOK(w) ==
  LET t == threads[w]
  IN \/ t = Store!Idle
     \/ t = [at |-> "taken", job |-> t.job] /\ t.job \in Job
     \/ /\ t = [at |-> t.at, job |-> t.job, list |-> t.list]
        /\ t.at \in {"read", "opened"}
        /\ t.job \in Job
        /\ ListOf(t.job.file, t.list)

(* Only a save that is under way makes the avdec file unreadable, and it   *)
(* holds the mutex of the file meanwhile.                                  *)
BeingWritten ==
  ~files["avdec"].parses => \E w \in Worker : threads[w].at = "opened"
                                              /\ threads[w].job.file = "avdec"

StoreOK ==
  /\ files = [f \in Store!File |-> files[f]]
  /\ \A f \in Store!File : FileOK(f)
  /\ queue \in Seq(Job) /\ Len(queue) <= MaxQueue
  /\ threads = [w \in Worker |-> threads[w]]
  /\ \A w \in Worker : ThreadOK(w)
  /\ BeingWritten
  /\ promised \subseteq ThirdID

NodeInv == MemoryOK /\ StoreOK

(* The jobs a handler asks for.                                            *)
Request ==
  [job : {"avdec"}, codec : CodecID]
  \cup [job : {"window"}, third : ThirdID, codec : CodecID]
  \cup [job : {"audio"}, third : ThirdID, codec : CodecID \cup {0}, ao : AOChn]
  \cup [job : {"closeWindow", "closeAudio"}, third : ThirdID]

RequestsOK == saves \in Seq(Request)

-----------------------------------------------------------------------------
(* What a handler leaves in memory, and what it asks of TaskRestore.       *)
Handles ==
  /\ MemoryOK'
  /\ RequestsOK'
  /\ reply'.cmd = "open" => reply'.third \in ThirdID

(* Priorities stay priorities when they wrap around, whatever order a      *)
(* restart has left them in.                                               *)
LEMMA PriorityTypes ==
  ASSUME MemoryOK
  PROVE  /\ winPriority # <<>> => Back \in 0..(U32 - 1)
         /\ NextPriority \in 0..(U32 - 1)
         /\ Pushed \in Seq(0..(U32 - 1)) /\ Front(Pushed) \in Seq(0..(U32 - 1))
         /\ winPriority # <<>> => Sorted(Front(winPriority)) \in Seq(0..(U32 - 1))
<1> DEFINE R == 0..(U32 - 1)
<1>1. U32 \in Nat \ {0} /\ R \in SUBSET Nat /\ 0 \in R
  BY HandlerAssumption
<1>2. winPriority \in Seq(R)
  BY DEF MemoryOK
<1>3. ASSUME winPriority # <<>>
      PROVE  Back \in R
  <2>1. Len(winPriority) \in 1..Len(winPriority)
    BY <1>2, <1>3
  <2> HIDE DEF R
  <2> QED
    BY <1>2, <2>1 DEF Back
<1>4. NextPriority \in R
  <2>1. \A p \in R : (p + 1) % U32 \in R
    BY <1>1
  <2> QED
    BY <1>1, <1>3, <2>1 DEF NextPriority
<1>5. \A s \in Seq(R) : Front(s) \in Seq(R)
  <2>1. ASSUME NEW s \in Seq(R), s = <<>>
        PROVE  Front(s) \in Seq(R)
    BY <2>1 DEF Front
  <2>2. ASSUME NEW s \in Seq(R), s # <<>>
        PROVE  Front(s) \in Seq(R)
    <3>1. Len(s) - 1 \in 0..Len(s)
      BY <2>2
    <3>2. ASSUME NEW k \in 1..(Len(s) - 1)
          PROVE  s[k] \in R
      <4>1. k \in 1..Len(s)
        BY <3>1
      <4> HIDE DEF R
      <4> QED
        BY <4>1
    <3>3. Front(s) = [k \in 1..(Len(s) - 1) |-> s[k]]
      BY <3>1 DEF Front
    <3> QED
      BY <3>1, <3>2, <3>3
  <2> QED
    BY <2>1, <2>2
<1>6. Append(winPriority, NextPriority) \in Seq(R)
  BY <1>2, <1>4
<1> HIDE DEF R
<1>7. \A s \in Seq(R) : Sorted(s) \in Seq(R)
  BY <1>1, SortedIsTyped
<1> QED
  BY <1>2, <1>3, <1>4, <1>5, <1>6, <1>7 DEF Pushed, R

(* The handlers of window commands that do the same under two names.       *)
LEMMA OpenDoneHandles ==
  ASSUME MemoryOK, NEW th \in WindowID, NEW src \in SrcVideo, OpenDone(th, src)
  PROVE  MemoryOK' /\ ids'.third[th] \in CodecID
<1> DEFINE id == FindNewID(ids, th, "auvi")
<1>1. id \in CodecID /\ th \in ThirdID /\ "auvi" \in TaskType
  BY FoundIsFree, PoolsAreFinite, ClientIDs DEF OpenDone, TaskType
<1>2. AreTables(ids') /\ CountsAgree(ids')
  BY <1>1, LendCounts DEF OpenDone, MemoryOK
<1>3. dec' \in [CodecID -> AVDec]
  BY <1>1, PriorityTypes, WindowRecordsAreTyped DEF OpenDone, MemoryOK
<1>4. winPriority' \in Seq(0..(U32 - 1)) /\ aoCodec' = aoCodec
  BY PriorityTypes DEF OpenDone
<1>5. ids'.third[th] = id
  BY DEF OpenDone, Lend, Put
<1> QED
  BY <1>1, <1>2, <1>3, <1>4, <1>5 DEF MemoryOK

LEMMA OpenFailsHandles ==
  ASSUME MemoryOK, NEW th \in WindowID, NEW src \in SrcVideo, NEW o, OpenFails(th, src, o)
  PROVE  MemoryOK'
<1> DEFINE id == FindNewID(ids, th, "auvi")
<1>1. id \in CodecID /\ th \in ThirdID /\ "auvi" \in TaskType
  BY FoundIsFree, PoolsAreFinite, ClientIDs DEF OpenFails, TaskType
<1>2. AreTables(ids') /\ CountsAgree(ids')
  BY <1>1, LendCounts, RemoveCounts DEF OpenFails, MemoryOK
<1>3. dec' \in [CodecID -> AVDec]
  BY <1>1, PriorityTypes, WindowRecordsAreTyped DEF OpenFails, MemoryOK
<1>4. winPriority' \in Seq(0..(U32 - 1)) /\ aoCodec' = aoCodec
  BY PriorityTypes DEF OpenFails
<1> QED
  BY <1>2, <1>3, <1>4 DEF MemoryOK

LEMMA RaisedShownIsTyped ==
  ASSUME MemoryOK, NEW id \in CodecID, NEW src \in SrcVideo, NEW show \in BOOLEAN,
         winPriority # <<>>
  PROVE  [Raised(id, src) EXCEPT ![id].swms = @ \/ show] \in [CodecID -> AVDec]
<1>1. Raised(id, src) \in [CodecID -> AVDec]
  BY PriorityTypes, WindowRecordsAreTyped DEF MemoryOK
<1>2. [Raised(id, src)[id] EXCEPT !.swms = @ \/ show] \in AVDec
  BY <1>1 DEF AVDec
<1> QED
  BY <1>1, <1>2

LEMMA RaiseHandles ==
  ASSUME MemoryOK, NEW th \in WindowID, NEW src \in SrcVideo, NEW show \in BOOLEAN,
         RaiseDone(th, src, show) \/ \E o : RaiseFails(th, src, o, show)
  PROVE  MemoryOK' /\ ids.third[th] \in CodecID
<1>1. ids.third[th] \in CodecID /\ winPriority # <<>>
  BY DEF RaiseDone, RaiseFails, Known
<1>2. UNCHANGED <<ids, winPriority, aoCodec>>
  BY DEF RaiseDone, RaiseFails, windowVars
<1>3. dec' \in [CodecID -> AVDec]
  BY <1>1, RaisedShownIsTyped, LoweredIsTyped DEF RaiseDone, RaiseFails
<1> QED
  BY <1>1, <1>2, <1>3 DEF MemoryOK

LEMMA CodecIDsAreFinite ==
  /\ IsFiniteSet(CodecID)
  /\ CodecID \subseteq Nat
  /\ \A S \in SUBSET CodecID : IsFiniteSet(S) /\ S \in SUBSET Nat
<1>1. \A ty \in TaskType : IsFiniteSet(Pool[ty]) /\ Pool[ty] \subseteq Nat
  BY PoolsAreFinite
<1>2. /\ IsFiniteSet(AudioTaskID) /\ IsFiniteSet(VideoTaskID) /\ IsFiniteSet(AuViTaskID)
      /\ AudioTaskID \subseteq Nat /\ VideoTaskID \subseteq Nat /\ AuViTaskID \subseteq Nat
  BY <1>1 DEF TaskType, Pool
<1>3. IsFiniteSet(AudioTaskID \cup VideoTaskID)
  BY <1>2, FS_Union
<1>4. IsFiniteSet(CodecID) /\ CodecID \subseteq Nat
  BY <1>2, <1>3, FS_Union DEF CodecID
<1> QED
  BY <1>4, FS_Subset

LEMMA RequestTypes ==
  /\ \A id \in CodecID : SaveAVDec(id) \in Request
  /\ \A th \in ThirdID, id \in CodecID : SaveWindow(th, id) \in Request
  /\ \A th \in ThirdID, id \in CodecID \cup {0}, ao \in AOChn : SaveAudio(th, id, ao) \in Request
  /\ \A th \in ThirdID : DropWindow(th) \in Request /\ DropAudio(th) \in Request
  /\ <<>> \in Seq(Request)
<1>1. \A id \in CodecID : SaveAVDec(id) \in Request
  BY DEF SaveAVDec, Request
<1>2. \A th \in ThirdID, id \in CodecID : SaveWindow(th, id) \in Request
  BY DEF SaveWindow, Request
<1>3. \A th \in ThirdID, id \in CodecID \cup {0}, ao \in AOChn : SaveAudio(th, id, ao) \in Request
  BY DEF SaveAudio, Request
<1>4. \A th \in ThirdID : DropWindow(th) \in Request /\ DropAudio(th) \in Request
  BY DEF DropWindow, DropAudio, Request
<1> QED
  BY <1>1, <1>2, <1>3, <1>4

LEMMA CloseWindowHandles ==
  ASSUME MemoryOK, NEW th \in WindowID, CloseWindow(th)
  PROVE  Handles
<1> DEFINE id == ids.third[th]
           others == Above(Hidden(id), id, Hidden(id)[id].prio)
           lowered == [k \in 1..Cardinality(others) |-> SaveAVDec(InOrder(others)[k])]
<1>1. id \in CodecID /\ th \in ThirdID
  BY ClientIDs DEF CloseWindow, Known
<1>2. AreTables(ids') /\ CountsAgree(ids')
  BY RemoveCounts DEF CloseWindow, MemoryOK
<1>3. dec' \in [CodecID -> AVDec]
  BY <1>1, RecordsAreTyped, LoweredIsTyped DEF CloseWindow, MemoryOK
<1>4. winPriority' \in Seq(0..(U32 - 1)) /\ aoCodec' = aoCodec
  BY PriorityTypes DEF CloseWindow, MemoryOK
<1>5. RequestsOK'
  <2>1. others \in SUBSET CodecID
    BY DEF Above
  <2> HIDE DEF others, lowered, id
  <2>2. Cardinality(others) \in Nat /\ InOrder(others) \in [1..Cardinality(others) -> others]
    BY <2>1, CodecIDsAreFinite, ListedInOrder
  <2>3. lowered \in Seq(Request)
    BY <2>1, <2>2, RequestTypes DEF lowered
  <2>4. <<SaveAVDec(id), DropWindow(th)>> \in Seq(Request)
    BY <1>1, RequestTypes
  <2>5. saves' = <<SaveAVDec(id), DropWindow(th)>> \o lowered
    BY DEF CloseWindow, lowered, others, id
  <2> QED
    BY <2>3, <2>4, <2>5 DEF RequestsOK
<1>6. reply'.cmd # "open"
  BY DEF CloseWindow, Reply
<1> QED
  BY <1>2, <1>3, <1>4, <1>5, <1>6 DEF MemoryOK, Handles

(* Every window command.                                                   *)
LEMMA WindowHandles ==
  ASSUME MemoryOK, NEW th \in WindowID, OpenOrCreate(th) \/ RaiseOrMove(th) \/ Close(th)
  PROVE  Handles
<1>1. th \in ThirdID
  BY ClientIDs
<1>2. <<>> \in Seq(Request)
  BY RequestTypes
<1>3. NoReply.cmd # "open"
  BY DEF NoReply
<1>4. \A cmd, ok : Reply(cmd, th, ok).cmd = cmd /\ Reply(cmd, th, ok).third = th
  BY DEF Reply
<1>5. ASSUME MemoryOK', saves' = <<>>,
             reply' = NoReply \/ \E cmd, ok : reply' = Reply(cmd, th, ok)
      PROVE  Handles
  BY <1>1, <1>2, <1>3, <1>4, <1>5 DEF Handles, RequestsOK
<1>6. ASSUME UNCHANGED <<ids, dec, winPriority, aoCodec>>
      PROVE  MemoryOK'
  BY <1>6 DEF MemoryOK
<1>7. CASE OpenOrCreate(th)
  <2>1. ASSUME NEW src \in SrcVideo, OpenWindow(th, src)
        PROVE  Handles
    <3>1. MemoryOK' /\ ids'.third[th] \in CodecID
      BY <2>1, OpenDoneHandles DEF OpenWindow
    <3>2. saves' \in Seq(Request)
      BY <1>1, <2>1, <3>1, RequestTypes DEF OpenWindow
    <3>3. reply'.third = th
      BY <2>1, <1>4 DEF OpenWindow
    <3> QED
      BY <1>1, <3>1, <3>2, <3>3 DEF Handles, RequestsOK
  <2>2. ASSUME NEW src \in SrcVideo, CreateWindow(th, src)
        PROVE  Handles
    BY <1>5, <2>2, OpenDoneHandles DEF CreateWindow
  <2>3. ASSUME NEW src \in SrcVideo, NEW o,
               OpenWindowFails(th, src, o) \/ CreateWindowFails(th, src, o)
        PROVE  Handles
    <3>1. OpenFails(th, src, o) /\ saves' = <<>>
      BY <2>3 DEF OpenWindowFails, CreateWindowFails, OpenFails
    <3>2. reply' = NoReply \/ \E cmd, ok : reply' = Reply(cmd, th, ok)
      BY <2>3 DEF OpenWindowFails, CreateWindowFails
    <3> QED
      BY <1>5, <3>1, <3>2, OpenFailsHandles
  <2>4. ASSUME OpenWindowRejected(th) \/ CreateWindowRejected(th)
        PROVE  Handles
    <3>1. OpenRejected(th) /\ (reply' = NoReply \/ \E cmd, ok : reply' = Reply(cmd, th, ok))
      BY <2>4 DEF OpenWindowRejected, CreateWindowRejected
    <3>2. AreTables(ids') /\ CountsAgree(ids')
      BY <1>1, <3>1, LendCounts, RemoveCounts DEF OpenRejected, MemoryOK, TaskType
    <3>3. saves' = <<>> /\ UNCHANGED <<dec, winPriority, aoCodec>>
      BY <3>1 DEF OpenRejected, windowVars
    <3>4. MemoryOK'
      BY <3>2, <3>3 DEF MemoryOK
    <3> QED
      BY <1>5, <3>1, <3>3, <3>4
  <2>5. ASSUME CreateWindowAgain(th)
        PROVE  Handles
    <3>1. saves' = <<>> /\ UNCHANGED <<ids, dec, winPriority, aoCodec>>
          /\ \E cmd, ok : reply' = Reply(cmd, th, ok)
      BY <2>5 DEF CreateWindowAgain, taskVars, windowVars
    <3> QED
      BY <1>5, <1>6, <3>1
  <2> QED
    BY <1>7, <2>1, <2>2, <2>3, <2>4, <2>5 DEF OpenOrCreate
<1>8. CASE RaiseOrMove(th)
  <2>1. ASSUME NEW src \in SrcVideo, RaiseWindow(th, src)
        PROVE  Handles
    <3>1. MemoryOK' /\ ids.third[th] \in CodecID
      BY <2>1, RaiseHandles DEF RaiseWindow
    <3>2. saves' \in Seq(Request)
      BY <1>1, <2>1, <3>1, RequestTypes DEF RaiseWindow
    <3>3. reply'.third = th
      BY <2>1, <1>4 DEF RaiseWindow
    <3> QED
      BY <1>1, <3>1, <3>2, <3>3 DEF Handles, RequestsOK
  <2>2. ASSUME NEW src \in SrcVideo, NEW show \in BOOLEAN, NEW o,
               RaiseDone(th, src, show) \/ RaiseFails(th, src, o, show), saves' = <<>>,
               reply' = NoReply \/ \E cmd, ok : reply' = Reply(cmd, th, ok)
        PROVE  Handles
    BY <1>5, <2>2, RaiseHandles
  <2>3. ASSUME NEW src \in SrcVideo, NEW o,
               MoveWindow(th, src) \/ RaiseWindowFails(th, src, o) \/ MoveWindowFails(th, src, o)
        PROVE  Handles
    <3>1. \E show \in BOOLEAN : RaiseDone(th, src, show) \/ RaiseFails(th, src, o, show)
      BY <2>3 DEF MoveWindow, RaiseWindowFails, MoveWindowFails
    <3>2. saves' = <<>>
      BY <2>3 DEF MoveWindow, RaiseWindowFails, MoveWindowFails, RaiseFails
    <3>3. reply' = NoReply \/ \E cmd, ok : reply' = Reply(cmd, th, ok)
      BY <2>3 DEF MoveWindow, RaiseWindowFails, MoveWindowFails
    <3> QED
      BY <2>2, <3>1, <3>2, <3>3
  <2>4. ASSUME RaiseRejected(th)
        PROVE  Handles
    <3>1. ids' = RemoveCodecTaskID(ids, th) /\ reply' = NoReply /\ saves' = <<>>
          /\ UNCHANGED <<dec, winPriority, aoCodec>>
      BY <2>4 DEF RaiseRejected, windowVars
    <3>2. MemoryOK'
      BY <3>1, RemoveCounts DEF MemoryOK
    <3> QED
      BY <1>5, <3>1, <3>2
  <2>5. ASSUME RaiseWithoutStack(th)
        PROVE  Handles
    <3>1. reply' = NoReply /\ saves' = <<>> /\ UNCHANGED <<ids, winPriority, aoCodec>>
      BY <2>5 DEF RaiseWithoutStack, windowVars
    <3>2. dec' \in [CodecID -> AVDec]
      BY <2>5, RecordsAreTyped DEF RaiseWithoutStack, Known, MemoryOK
    <3>3. MemoryOK'
      BY <3>1, <3>2 DEF MemoryOK
    <3> QED
      BY <1>5, <3>1, <3>3
  <2>6. ASSUME NEW src \in SrcVideo, MoveWindowRejected(th, src)
        PROVE  Handles
    <3>1. saves' = <<>> /\ UNCHANGED <<ids, winPriority, aoCodec>>
          /\ \E cmd, ok : reply' = Reply(cmd, th, ok)
      BY <2>6 DEF MoveWindowRejected, windowVars
    <3>2. dec' \in [CodecID -> AVDec]
      BY <2>6, PriorityTypes, WindowRecordsAreTyped DEF MoveWindowRejected, Known, MemoryOK
    <3>3. MemoryOK'
      BY <3>1, <3>2 DEF MemoryOK
    <3> QED
      BY <1>5, <3>1, <3>3
  <2> QED
    BY <1>8, <2>1, <2>3, <2>4, <2>5, <2>6 DEF RaiseOrMove
<1>9. CASE Close(th)
  <2>1. ASSUME CloseWindowUnknown(th)
        PROVE  Handles
    <3>1. saves' = <<>> /\ UNCHANGED <<ids, dec, winPriority, aoCodec>> /\ reply' = NoReply
      BY <2>1 DEF CloseWindowUnknown, taskVars, windowVars
    <3> QED
      BY <1>5, <1>6, <3>1
  <2>2. ASSUME NEW o, CloseWindowFails(th, o)
        PROVE  Handles
    <3>1. saves' = <<>> /\ UNCHANGED <<ids, winPriority, aoCodec>> /\ reply' = NoReply
      BY <2>2 DEF CloseWindowFails, windowVars
    <3>2. dec' \in [CodecID -> AVDec]
      BY <2>2, RecordsAreTyped DEF CloseWindowFails, Known, MemoryOK
    <3>3. MemoryOK'
      BY <3>1, <3>2 DEF MemoryOK
    <3> QED
      BY <1>5, <3>1, <3>3
  <2> QED
    BY <1>9, <2>1, <2>2, CloseWindowHandles DEF Close
<1> QED
  BY <1>7, <1>8, <1>9

(* Every audio command, also for a device whose task was restored without  *)
(* a codec id.                                                             *)
LEMMA AudioHandles ==
  ASSUME MemoryOK, NEW th \in AudioID, Audio(th)
  PROVE  Handles
<1>1. th \in ThirdID
  BY ClientIDs
<1>2. <<>> \in Seq(Request)
  BY RequestTypes
<1>3. ASSUME AreTables(ids'), CountsAgree(ids'), dec' \in [CodecID -> AVDec],
             UNCHANGED winPriority, IsMap(aoCodec', AOChn, CodecID \cup {0}),
             saves' \in Seq(Request),
             \E ok : reply' = Reply("openAudio", th, ok) \/ reply' = Reply("closeAudio", th, ok)
      PROVE  Handles
  <2>1. reply'.cmd # "open"
    BY <1>3 DEF Reply
  <2> QED
    BY <1>3, <2>1 DEF Handles, MemoryOK, RequestsOK
<1>4. /\ AreTables(ids) /\ CountsAgree(ids) /\ dec \in [CodecID -> AVDec]
      /\ IsMap(aoCodec, AOChn, CodecID \cup {0})
  BY DEF MemoryOK
<1>5. ASSUME \/ OpenAudioAgain(th)
             \/ CloseAudioUnknown(th)
             \/ \E ao \in AOChn : OpenAudioRejected(th, ao)
      PROVE  Handles
  <2>1. saves' = <<>> /\ UNCHANGED <<ids, dec, winPriority, aoCodec>>
        /\ \E ok : reply' = Reply("openAudio", th, ok) \/ reply' = Reply("closeAudio", th, ok)
    BY <1>5 DEF OpenAudioAgain, CloseAudioUnknown, OpenAudioRejected, taskVars, windowVars
  <2> QED
    BY <1>2, <1>3, <1>4, <2>1
<1>6. ASSUME NEW ao \in AOChn, OpenAudio(th, ao)
      PROVE  Handles
  <2> DEFINE id == FindNewID(ids, th, "audio")
  <2>1. id \in CodecID /\ "audio" \in TaskType
    BY <1>6, FoundIsFree, PoolsAreFinite DEF OpenAudio, TaskType
  <2>2. AreTables(ids') /\ CountsAgree(ids')
    BY <1>1, <1>4, <1>6, <2>1, LendCounts DEF OpenAudio
  <2>3. dec' \in [CodecID -> AVDec]
    BY <1>4, <1>6, <2>1, RecordsAreTyped DEF OpenAudio
  <2>4. IsMap(aoCodec', AOChn, CodecID \cup {0})
    BY <1>4, <1>6, <2>1, MapsStayMaps DEF OpenAudio
  <2>5. saves' \in Seq(Request)
    BY <1>1, <1>6, <2>1, RequestTypes DEF OpenAudio
  <2>6. UNCHANGED winPriority /\ reply' = Reply("openAudio", th, TRUE)
    BY <1>6 DEF OpenAudio, windowVars
  <2> QED
    BY <1>3, <2>2, <2>3, <2>4, <2>5, <2>6
<1>7. ASSUME NEW ao \in AOChn, NEW o, OpenAudioFails(th, ao, o)
      PROVE  Handles
  <2> DEFINE id == FindNewID(ids, th, "audio")
  <2>1. id \in CodecID /\ "audio" \in TaskType
    BY <1>7, FoundIsFree, PoolsAreFinite DEF OpenAudioFails, TaskType
  <2>2. AreTables(ids') /\ CountsAgree(ids')
    BY <1>1, <1>4, <1>7, <2>1, LendCounts DEF OpenAudioFails
  <2>3. dec' \in [CodecID -> AVDec]
    BY <1>4, <1>7, <2>1, RecordsAreTyped DEF OpenAudioFails
  <2>4. UNCHANGED <<winPriority, aoCodec>> /\ saves' = <<>>
        /\ reply' = Reply("openAudio", th, FALSE)
    BY <1>7 DEF OpenAudioFails, windowVars
  <2> QED
    BY <1>2, <1>3, <1>4, <2>2, <2>3, <2>4
<1>8. ASSUME NEW ao \in AOChn, ShiftAudio(th, ao)
      PROVE  Handles
  <2>1. aoCodec[ao] \in CodecID /\ th \notin DOMAIN ids.third
    BY <1>8 DEF ShiftAudio, HasTask
  <2>2. AreTables(ids') /\ CountsAgree(ids')
    BY <1>1, <1>4, <1>8, <2>1, UpdateCounts DEF ShiftAudio
  <2>3. dec' \in [CodecID -> AVDec]
    BY <1>4, <1>8, <2>1, RecordsAreTyped DEF ShiftAudio
  <2>4. saves' \in Seq(Request)
    BY <1>1, <1>8, <2>1, RequestTypes DEF ShiftAudio
  <2>5. UNCHANGED <<winPriority, aoCodec>> /\ reply' = Reply("openAudio", th, TRUE)
    BY <1>8 DEF ShiftAudio, windowVars
  <2> QED
    BY <1>3, <1>4, <2>2, <2>3, <2>4, <2>5
<1>9. ASSUME NEW ao \in AOChn, NEW o, NEW stopped, ShiftAudioFails(th, ao, o, stopped)
      PROVE  Handles
  <2>1. aoCodec[ao] \in CodecID
    BY <1>9 DEF ShiftAudioFails
  <2>2. dec' \in [CodecID -> AVDec]
    <3>1. 0 \in 0..2
      OBVIOUS
    <3>2. /\ [dec EXCEPT ![aoCodec[ao]].open = 0] \in [CodecID -> AVDec]
          /\ Restarted(aoCodec[ao], ao) \in [CodecID -> AVDec]
      BY <1>4, <2>1, <3>1, RecordsAreTyped
    <3> QED
      BY <1>9, <3>2 DEF ShiftAudioFails
  <2>3. UNCHANGED <<ids, winPriority, aoCodec>> /\ saves' = <<>>
        /\ reply' = Reply("openAudio", th, FALSE)
    BY <1>9 DEF ShiftAudioFails, windowVars
  <2> QED
    BY <1>2, <1>3, <1>4, <2>2, <2>3
<1>10. ASSUME NEW ao, CloseAudio(th, ao)
       PROVE  Handles
  <2>1. ids.third[th] \in CodecID
    BY <1>10 DEF CloseAudio, Known
  <2>2. AreTables(ids') /\ CountsAgree(ids')
    BY <1>4, <1>10, RemoveCounts DEF CloseAudio
  <2>3. dec' \in [CodecID -> AVDec]
    BY <1>4, <1>10, <2>1, RecordsAreTyped DEF CloseAudio
  <2>4. IsMap(aoCodec', AOChn, CodecID \cup {0})
    BY <1>4, <1>10, MapsStayMaps DEF CloseAudio
  <2>5. saves' \in Seq(Request)
    BY <1>1, <1>10, <2>1, RequestTypes DEF CloseAudio
  <2>6. UNCHANGED winPriority /\ reply' = Reply("closeAudio", th, TRUE)
    BY <1>10 DEF CloseAudio, windowVars
  <2> QED
    BY <1>3, <2>2, <2>3, <2>4, <2>5, <2>6
<1>11. ASSUME NEW o, CloseAudioFails(th, o)
       PROVE  Handles
  <2>1. dec' \in [CodecID -> AVDec]
    BY <1>4, <1>11, RecordsAreTyped DEF CloseAudioFails, Known
  <2>2. UNCHANGED <<ids, winPriority, aoCodec>> /\ saves' = <<>>
        /\ reply' = Reply("closeAudio", th, FALSE)
    BY <1>11 DEF CloseAudioFails, windowVars
  <2> QED
    BY <1>2, <1>3, <1>4, <2>1, <2>2
<1> QED
  BY <1>5, <1>6, <1>7, <1>8, <1>9, <1>10, <1>11 DEF Audio

(* clearAllTask saves two things of every task it closes.                  *)
LEMMA SavesOfClearTypes ==
  ASSUME MemoryOK, NEW S \in SUBSET CodecID, \A i \in S : Borrowers(ids, i) # {}
  PROVE  SavesOfClear(S) \in Seq(Request)
<1> DEFINE n == Cardinality(S)
           order == InOrder(S)
<1>1. n \in Nat /\ order \in [1..n -> S]
  BY CodecIDsAreFinite, ListedInOrder
<1>2. ASSUME NEW i \in S
      PROVE  SaveAVDec(i) \in Request /\ DropTask(i) \in Request
  <2>1. Borrowers(ids, i) \in SUBSET ThirdID /\ Borrowers(ids, i) \in SUBSET Nat
    BY TaskIDAssumption DEF MemoryOK, AreTables, IsMap, Borrowers
  <2>2. FirstBorrower(i) \in ThirdID
    BY <2>1, LeastInSet DEF FirstBorrower
  <2> QED
    BY <2>2, RequestTypes DEF DropTask
<1> HIDE DEF n, order
<1>3. ASSUME NEW k \in 1..(2 * n)
      PROVE  (IF k % 2 = 1 THEN SaveAVDec(order[(k + 1) \div 2]) ELSE DropTask(order[k \div 2]))
             \in Request
  <2>1. CASE k % 2 = 1
    <3>1. (k + 1) \div 2 \in 1..n
      BY <1>1, <2>1
    <3> QED
      BY <1>1, <1>2, <2>1, <3>1
  <2>2. CASE k % 2 # 1
    <3>1. k \div 2 \in 1..n
      BY <1>1, <2>2
    <3> QED
      BY <1>1, <1>2, <2>2, <3>1
  <2> QED
    BY <2>1, <2>2
<1>4. SavesOfClear(S) = [k \in 1..(2 * n) |->
         IF k % 2 = 1 THEN SaveAVDec(order[(k + 1) \div 2]) ELSE DropTask(order[k \div 2])]
  BY DEF SavesOfClear, n, order
<1>5. 2 * n \in Nat
  BY <1>1
<1> QED
  BY <1>3, <1>4, <1>5

LEMMA ClearHandles ==
  ASSUME MemoryOK, NEW ty \in ClearTypes, Clear(ty)
  PROVE  Handles
<1>1. PICK S \in SUBSET CodecID, T \in SUBSET CodecID :
         /\ ids' = GiveBack(S) /\ dec' = AllHidden(T) /\ saves' = SavesOfClear(S)
         /\ \A i \in S : Borrowers(ids, i) # {}
         /\ winPriority' \in {winPriority, <<>>} /\ UNCHANGED aoCodec
         /\ \E ok : reply' = Reply("clear", ty, ok)
  <2>1. ToClear(ty) \in SUBSET CodecID
    BY HandlerAssumption DEF ToClear, OfClearType, CodecID
  <2>2. /\ Cleared(ty) \in SUBSET CodecID /\ Met(ty) \in SUBSET CodecID
        /\ \A i \in Cleared(ty) : Borrowers(ids, i) # {}
    BY <2>1 DEF Cleared, Met, Orphan
  <2>3. CASE ClearAborted(ty)
    <3>1. /\ ids' = GiveBack(Cleared(ty)) /\ dec' = AllHidden(Met(ty))
          /\ saves' = SavesOfClear(Cleared(ty)) /\ UNCHANGED <<winPriority, aoCodec>>
          /\ reply' = Reply("clear", ty, FALSE)
      BY <2>3 DEF ClearAborted, windowVars
    <3> QED
      BY <2>2, <3>1
  <2>4. ASSUME NEW o, ClearAllTask(ty, o)
        PROVE  /\ ids' = GiveBack(ToClear(ty)) /\ dec' = AllHidden(ToClear(ty))
               /\ saves' = SavesOfClear(ToClear(ty)) /\ winPriority' = <<>>
               /\ UNCHANGED aoCodec /\ Cleared(ty) = ToClear(ty)
               /\ reply' = Reply("clear", ty, o = "ok")
    BY <2>4 DEF ClearAllTask
  <2> QED
    BY <2>1, <2>2, <2>3, <2>4 DEF Clear
<1>2. AreTables(ids') /\ CountsAgree(ids')
  BY <1>1, GiveBackCounts DEF MemoryOK
<1>3. dec' \in [CodecID -> AVDec]
  BY <1>1, ClosedInBatchIsTyped DEF AllHidden, MemoryOK
<1>4. winPriority' \in Seq(0..(U32 - 1)) /\ IsMap(aoCodec', AOChn, CodecID \cup {0})
  <2>1. winPriority' = winPriority \/ winPriority' = <<>>
    BY <1>1
  <2>2. aoCodec' = aoCodec
    BY <1>1
  <2>3. <<>> \in Seq(0..(U32 - 1))
    OBVIOUS
  <2> QED
    BY <2>1, <2>2, <2>3 DEF MemoryOK
<1>5. saves' \in Seq(Request)
  BY <1>1, SavesOfClearTypes
<1>6. reply'.cmd # "open"
  BY <1>1 DEF Reply
<1> QED
  BY <1>2, <1>3, <1>4, <1>5, <1>6 DEF Handles, MemoryOK, RequestsOK

-----------------------------------------------------------------------------
(* The jobs of TaskRestore.                                                *)

LEMMA SameCardinality ==
  ASSUME NEW S
  PROVE  Store!Cardinality(S) = Cardinality(S)
BY DEF Store!Cardinality, Cardinality

LEMMA MaxInSet ==
  ASSUME NEW n \in Nat, NEW S \in SUBSET (1..n), S # {}
  PROVE  Store!Max(S) \in S
<1> DEFINE D == {n - x : x \in S}
<1>1. D \in SUBSET Nat /\ D # {}
  <2>1. \A x \in S : n - x \in Nat
    OBVIOUS
  <2> QED
    BY <2>1
<1>2. Least(D) \in D /\ \A y \in D : Least(D) <= y
  <2>1. \E x \in D : \A y \in D : x <= y
    BY <1>1, LeastExists
  <2> HIDE DEF D
  <2> QED
    BY <2>1 DEF Least
<1>3. PICK m \in S : Least(D) = n - m
  BY <1>2
<1>4. \A y \in S : m >= y
  <2>1. ASSUME NEW y \in S
        PROVE  m >= y
    <3>1. n - m <= n - y
      BY <1>2, <1>3
    <3> QED
      BY <3>1
  <2> QED
    BY <2>1
<1> QED
  BY <1>4 DEF Store!Max

LEMMA MinInSet ==
  ASSUME NEW S \in SUBSET Nat, S # {}
  PROVE  Store!Min(S) \in S
<1>1. \E x \in S : \A y \in S : x <= y
  BY LeastExists
<1> QED
  BY <1>1 DEF Store!Min

(* What a save writes: entries of the file, and every record that was      *)
(* there.                                                                  *)
LEMMA WithEntryKeeps ==
  ASSUME NEW f \in Store!File, NEW list \in Seq(EntryOf[f]), NEW e \in EntryOf[f]
  PROVE  /\ Store!WithEntry(list, e, Store!Key(f)) \in Seq(EntryOf[f])
         /\ f = "avdec" /\ Complete(list) => Complete(Store!WithEntry(list, e, Store!Key(f)))
<1> DEFINE key == Store!Key(f)
           n == Len(list)
           at == {k \in 1..n : list[k][key] = e[key]}
           w == Store!WithEntry(list, e, key)
<1>1. n \in Nat
  OBVIOUS
<1>2. w = IF at = {} THEN Append(list, e) ELSE [list EXCEPT ![Store!Max(at)] = e]
  BY DEF Store!WithEntry
<1>3. at # {} => Store!Max(at) \in at
  BY <1>1, MaxInSet
<1> HIDE DEF w
<1>4. w \in Seq(EntryOf[f])
  <2>1. Append(list, e) \in Seq(EntryOf[f])
    OBVIOUS
  <2>2. \A m : [list EXCEPT ![m] = e] \in Seq(EntryOf[f])
    OBVIOUS
  <2> QED
    BY <1>2, <2>1, <2>2
<1>5. ASSUME f = "avdec", Complete(list)
      PROVE  Complete(w)
  <2>1. key = "codec"
    BY <1>5 DEF Store!Key
  <2>2. CASE at = {}
    <3>1. w = Append(list, e)
      BY <1>2, <2>2
    <3>2. Len(w) = n + 1 /\ \A k \in 1..n : k \in 1..(n + 1) /\ w[k] = list[k]
      BY <1>1, <3>1
    <3> QED
      BY <1>5, <3>2 DEF Complete
  <2>3. CASE at # {}
    <3> DEFINE m == Store!Max(at)
    <3>1. m \in 1..n /\ list[m].codec = e.codec
      BY <1>3, <2>1, <2>3
    <3>2. w = [list EXCEPT ![m] = e]
      BY <1>2, <2>3
    <3> HIDE DEF m
    <3>3. Len(w) = n /\ \A k \in 1..n : w[k].codec = list[k].codec
      BY <3>1, <3>2
    <3> QED
      BY <1>5, <3>3 DEF Complete
  <2> QED
    BY <2>2, <2>3
<1> QED
  BY <1>4, <1>5 DEF w

(* What a removal writes.                                                  *)
LEMMA WithoutThirdKeeps ==
  ASSUME NEW E, NEW list \in Seq(E), NEW th
  PROVE  Store!WithoutThird(list, th) \in Seq(E)
<1> DEFINE n == Len(list)
           kept == {k \in 1..n : list[k].third # th}
<1>1. n \in Nat /\ IsFiniteSet(1..n) /\ kept \in SUBSET (1..n) /\ kept \in SUBSET Nat
  <2>1. n \in Nat
    OBVIOUS
  <2>2. 1 \in Int /\ n \in Int
    BY <2>1
  <2> QED
    BY <2>1, <2>2, FS_Interval
<1>2. IsFiniteSet(kept)
  BY <1>1, FS_Subset
<1>3. Store!WithoutThird(list, th) =
        [k \in 1..Cardinality(kept) |-> list[Store!InOrder(kept)[k]]]
  BY SameCardinality DEF Store!WithoutThird
<1>4. Store!InOrder(kept) = InOrder(kept)
  BY DEF Store!InOrder, InOrder, Store!Cardinality, Cardinality
<1> HIDE DEF kept
<1>5. Cardinality(kept) \in Nat /\ InOrder(kept) \in [1..Cardinality(kept) -> kept]
  BY <1>1, <1>2, ListedInOrder
<1>6. ASSUME NEW k \in 1..Cardinality(kept)
      PROVE  list[InOrder(kept)[k]] \in E
  <2>1. InOrder(kept)[k] \in 1..n
    BY <1>1, <1>5
  <2> QED
    BY <2>1
<1> QED
  BY <1>3, <1>4, <1>5, <1>6

(* A request becomes a job that carries the record as the handler left it. *)
LEMMA JobTypes ==
  ASSUME MemoryOK', NEW s \in Request
  PROVE  JobOf(s) \in Job
<1>1. \A i \in CodecID : dec'[i] \in AVDec /\ dec'[i].crop \in SrcVideo \cup {NoCrop}
  BY DEF MemoryOK, AVDec
<1>2. CASE s \in [job : {"avdec"}, codec : CodecID]
  <2>1. [codec |-> s.codec, rec |-> dec'[s.codec]] \in RecordEntry
    BY <1>1, <1>2 DEF RecordEntry
  <2>2. JobOf(s) = Store!Save("avdec", [codec |-> s.codec, rec |-> dec'[s.codec]])
    BY <1>2 DEF JobOf
  <2> QED
    BY <2>1, <2>2 DEF Store!Save, Job, SaveJob, EntryOf
<1>3. CASE s \in [job : {"window"}, third : ThirdID, codec : CodecID]
  <2>1. [third |-> s.third, codec |-> s.codec, src |-> dec'[s.codec].crop] \in WindowEntry
    BY <1>1, <1>3 DEF WindowEntry
  <2>2. JobOf(s) =
          Store!Save("window", [third |-> s.third, codec |-> s.codec, src |-> dec'[s.codec].crop])
    BY <1>3 DEF JobOf
  <2> QED
    BY <2>1, <2>2 DEF Store!Save, Job, SaveJob, EntryOf
<1>4. CASE s \in [job : {"audio"}, third : ThirdID, codec : CodecID \cup {0}, ao : AOChn]
  <2>1. [third |-> s.third, codec |-> s.codec, ao |-> s.ao] \in AudioEntry
    BY <1>4 DEF AudioEntry
  <2>2. JobOf(s) = Store!Save("audio", [third |-> s.third, codec |-> s.codec, ao |-> s.ao])
    BY <1>4 DEF JobOf
  <2> QED
    BY <2>1, <2>2 DEF Store!Save, Job, SaveJob, EntryOf
<1>5. CASE s \in [job : {"closeWindow", "closeAudio"}, third : ThirdID]
  <2>1. \E f \in {"window", "audio"} : JobOf(s) = Store!Remove(f, s.third)
    BY <1>5 DEF JobOf
  <2> QED
    BY <1>5, <2>1 DEF Store!Remove, Job, RemoveJob
<1> QED
  BY <1>2, <1>3, <1>4, <1>5 DEF Request

(* A thread that works on the files keeps what the files promise.  Only    *)
(* where it matters is each step split by the file.                        *)
FilesOK ==
  /\ files = [f \in Store!File |-> files[f]]
  /\ \A f \in Store!File : FileOK(f)

ThreadsOK ==
  /\ threads = [w \in Worker |-> threads[w]]
  /\ \A w \in Worker : ThreadOK(w)

QueueOK == queue \in Seq(Job) /\ Len(queue) <= MaxQueue

LEMMA JobFields ==
  ASSUME NEW j \in Job
  PROVE  /\ j.file \in Store!File
         /\ j.do = "save" => j.entry \in EntryOf[j.file]
         /\ j.do = "remove" => j.file # "avdec"
         /\ j.do \in {"save", "remove"}
<1>1. ASSUME NEW f \in Store!File, j \in SaveJob(f)
      PROVE  j.do = "save" /\ j.file = f /\ j.entry \in EntryOf[f]
  BY <1>1 DEF SaveJob
<1>2. ASSUME j \in RemoveJob
      PROVE  j.do = "remove" /\ j.file \in {"window", "audio"}
  BY <1>2 DEF RemoveJob
<1>3. {"avdec", "window", "audio"} = Store!File
  BY DEF Store!File
<1>4. (\E f \in Store!File : j \in SaveJob(f)) \/ j \in RemoveJob
  BY <1>3 DEF Job
<1> QED
  BY <1>1, <1>2, <1>3, <1>4

(* One thread changes what it is doing.                                    *)
LEMMA ThreadSteps ==
  ASSUME ThreadsOK, NEW w \in Worker, NEW t, threads' = [threads EXCEPT ![w] = t],
         \/ t = Store!Idle
         \/ t = [at |-> "taken", job |-> t.job] /\ t.job \in Job
         \/ /\ t = [at |-> t.at, job |-> t.job, list |-> t.list]
            /\ t.at \in {"read", "opened"}
            /\ t.job \in Job
            /\ ListOf(t.job.file, t.list)
  PROVE  ThreadsOK' /\ threads'[w] = t /\ \A v \in Worker \ {w} : threads'[v] = threads[v]
<1>1. threads'[w] = t /\ \A v \in Worker \ {w} : threads'[v] = threads[v]
  BY DEF ThreadsOK
<1>2. threads' = [v \in Worker |-> threads'[v]]
  BY DEF ThreadsOK
<1>3. \A v \in Worker : ThreadOK(v)'
  BY <1>1 DEF ThreadsOK, ThreadOK
<1> QED
  BY <1>1, <1>2, <1>3 DEF ThreadsOK

LEMMA StoreParts ==
  StoreOK <=> FilesOK /\ ThreadsOK /\ QueueOK /\ BeingWritten /\ promised \subseteq ThirdID
BY DEF StoreOK, FilesOK, ThreadsOK, QueueOK

LEMMA TakeKeeps ==
  ASSUME FilesOK, ThreadsOK, QueueOK, BeingWritten, NEW w \in Worker, Store!Take(w)
  PROVE  FilesOK' /\ ThreadsOK' /\ QueueOK' /\ BeingWritten'
<1> DEFINE t == [at |-> "taken", job |-> Head(queue)]
<1>1. threads[w].at = "idle" /\ queue # <<>> /\ threads' = [threads EXCEPT ![w] = t]
      /\ queue' = Tail(queue) /\ files' = files
  BY DEF Store!Take
<1>2. Head(queue) \in Job /\ Tail(queue) \in Seq(Job) /\ Len(Tail(queue)) <= MaxQueue
  BY <1>1, NodeAssumption DEF QueueOK
<1>3. ThreadsOK' /\ \A v \in Worker \ {w} : threads'[v] = threads[v]
  BY <1>1, <1>2, ThreadSteps
<1>4. BeingWritten'
  BY <1>1, <1>3 DEF BeingWritten
<1> QED
  BY <1>1, <1>2, <1>3, <1>4 DEF FilesOK, FileOK, QueueOK

LEMMA TakenJob ==
  ASSUME ThreadsOK, NEW w \in Worker, threads[w].at = "taken"
  PROVE  threads[w].job \in Job /\ threads[w] = [at |-> "taken", job |-> threads[w].job]
BY DEF ThreadsOK, ThreadOK, Store!Idle

LEMMA WrittenJob ==
  ASSUME ThreadsOK, NEW w \in Worker, threads[w].at \in {"read", "opened"}
  PROVE  /\ threads[w] = [at |-> threads[w].at, job |-> threads[w].job, list |-> threads[w].list]
         /\ threads[w].job \in Job
         /\ ListOf(threads[w].job.file, threads[w].list)
BY DEF ThreadsOK, ThreadOK, Store!Idle

(* A save reads: the avdec file can be read, because whoever is writing it *)
(* holds its mutex.                                                        *)
LEMMA ReadToSaveKeeps ==
  ASSUME FilesOK, ThreadsOK, QueueOK, BeingWritten, NEW w \in Worker, Store!ReadToSave(w)
  PROVE  FilesOK' /\ ThreadsOK' /\ QueueOK' /\ BeingWritten'
<1> DEFINE job == threads[w].job
           f == job.file
           list == Store!WithEntry(Store!ReadBack(f), job.entry, Store!Key(f))
           t == [threads[w] EXCEPT !.at = "read"]
<1>1. threads[w].at = "taken" /\ job.do = "save" /\ ~Store!Locked(f)
      /\ UNCHANGED <<files, queue>> /\ Store!HasRead(w, list)
  BY DEF Store!ReadToSave
<1>2. job \in Job /\ f \in Store!File /\ job.entry \in EntryOf[f]
  BY <1>1, TakenJob, JobFields
<1>3. files[f].list \in Seq(EntryOf[f]) /\ FileOK(f)
  BY <1>2 DEF FilesOK, FileOK
<1>4. f = "avdec" => Complete(files[f].list)
  <2>1. ASSUME f = "avdec", ~files["avdec"].parses
        PROVE  FALSE
    <3>1. PICK v \in Worker : threads[v].at = "opened" /\ threads[v].job.file = "avdec"
      BY <2>1 DEF BeingWritten
    <3>2. threads[v].job.do = "save"
      BY <3>1, WrittenJob, JobFields
    <3>3. Store!Locked("avdec")
      BY <3>1, <3>2 DEF Store!Locked
    <3> QED
      BY <1>1, <2>1, <3>3
  <2>2. f = "avdec" => files[f].parses
    BY <2>1
  <2> QED
    BY <1>3, <2>2 DEF FileOK
<1>5. ListOf(f, list)
  BY <1>2, <1>3, <1>4, WithEntryKeeps DEF ListOf, Store!ReadBack
<1>6. threads' = [threads EXCEPT ![w] = [at |-> "read", job |-> job, list |-> list]]
  BY <1>1 DEF Store!HasRead, ThreadsOK
<1> HIDE DEF list, job
<1>7. ThreadsOK' /\ \A v \in Worker \ {w} : threads'[v] = threads[v]
  BY <1>2, <1>5, <1>6, ThreadSteps
<1>8. BeingWritten'
  BY <1>1, <1>7 DEF BeingWritten
<1> QED
  BY <1>1, <1>7, <1>8 DEF FilesOK, FileOK, QueueOK

LEMMA RemoveKeepsFiles ==
  ASSUME FilesOK, ThreadsOK, QueueOK, BeingWritten, NEW w \in Worker,
         Store!ReadToRemove(w) \/ Store!NothingToRemove(w)
  PROVE  FilesOK' /\ ThreadsOK' /\ QueueOK' /\ BeingWritten'
<1> DEFINE job == threads[w].job
           f == job.file
           list == Store!WithoutThird(Store!ReadBack(f), job.third)
<1>1. threads[w].at = "taken" /\ job.do = "remove" /\ UNCHANGED <<files, queue>>
  BY DEF Store!ReadToRemove, Store!NothingToRemove
<1>2. job \in Job /\ f \in Store!File /\ f # "avdec"
  BY <1>1, TakenJob, JobFields
<1>3. ListOf(f, list)
  BY <1>2, WithoutThirdKeeps DEF ListOf, FilesOK, FileOK, Store!ReadBack
<1>4. \/ threads' = [threads EXCEPT ![w] = [at |-> "read", job |-> job, list |-> list]]
      \/ threads' = [threads EXCEPT ![w] = Store!Idle]
  BY DEF Store!ReadToRemove, Store!NothingToRemove, Store!HasRead, ThreadsOK
<1> HIDE DEF list, job
<1>5. ThreadsOK' /\ \A v \in Worker \ {w} : threads'[v] = threads[v]
  BY <1>2, <1>3, <1>4, ThreadSteps
<1>6. BeingWritten'
  BY <1>1, <1>5 DEF BeingWritten
<1> QED
  BY <1>1, <1>5, <1>6 DEF FilesOK, FileOK, QueueOK

(* Opening a file for writing truncates it.                                *)
LEMMA OpenFileKeeps ==
  ASSUME FilesOK, ThreadsOK, QueueOK, BeingWritten, NEW w \in Worker, Store!OpenFile(w)
  PROVE  FilesOK' /\ ThreadsOK' /\ QueueOK' /\ BeingWritten'
<1>0. PICK f \in Store!File : f = threads[w].job.file
  BY WrittenJob, JobFields DEF Store!OpenFile
<1> DEFINE job == threads[w].job
           t == [at |-> "opened", job |-> job, list |-> threads[w].list]
<1>1. threads[w].at = "read" /\ files' = [files EXCEPT ![f] = Store!Unreadable]
      /\ threads' = [threads EXCEPT ![w].at = "opened"] /\ queue' = queue
  BY <1>0 DEF Store!OpenFile
<1>2. /\ threads[w] = [at |-> "read", job |-> job, list |-> threads[w].list]
      /\ job \in Job /\ ListOf(f, threads[w].list)
  BY <1>0, <1>1, WrittenJob
<1>3. threads' = [threads EXCEPT ![w] = t]
  <2>1. [threads[w] EXCEPT !.at = "opened"] = t
    BY <1>2
  <2> QED
    BY <1>1, <2>1
<1>4. ThreadsOK' /\ threads'[w] = t /\ \A v \in Worker \ {w} : threads'[v] = threads[v]
  <2>1. t.job = job /\ t.list = threads[w].list /\ t.at = "opened"
    OBVIOUS
  <2>2. t = [at |-> t.at, job |-> t.job, list |-> t.list] /\ ListOf(t.job.file, t.list)
    BY <1>0, <1>2, <2>1
  <2> HIDE DEF t, job
  <2> QED
    BY <1>2, <1>3, <2>1, <2>2, ThreadSteps
<1>5. FilesOK'
  <2>1. files' = [g \in Store!File |-> files'[g]]
    BY <1>1 DEF FilesOK
  <2>2. files'[f] = Store!Unreadable /\ \A g \in Store!File \ {f} : files'[g] = files[g]
    BY <1>1, <1>2 DEF FilesOK
  <2>3. Store!Unreadable = [parses |-> FALSE, list |-> <<>>]
    BY DEF Store!Unreadable
  <2>4. FileOK(f)'
    BY <2>2, <2>3 DEF FileOK
  <2>5. \A g \in Store!File \ {f} : FileOK(g)'
    BY <2>2 DEF FilesOK, FileOK
  <2> QED
    BY <2>1, <2>4, <2>5 DEF FilesOK
<1>6. BeingWritten'
  <2>1. CASE f = "avdec"
    <3>1. threads'[w] = t
      BY <1>4
    <3>2. t.at = "opened" /\ t.job = job
      OBVIOUS
    <3> HIDE DEF t
    <3>3. threads'[w].at = "opened" /\ threads'[w].job.file = "avdec"
      BY <1>0, <2>1, <3>1, <3>2
    <3> QED
      BY <3>3 DEF BeingWritten
  <2>2. CASE f # "avdec"
    <3>1. "avdec" \in Store!File /\ files'["avdec"] = files["avdec"]
      BY <1>1, <1>2, <2>2 DEF Store!File, FilesOK
    <3> QED
      BY <1>1, <1>4, <3>1 DEF BeingWritten
  <2> QED
    BY <2>1, <2>2
<1> QED
  BY <1>1, <1>4, <1>5, <1>6 DEF QueueOK

LEMMA CloseFileKeeps ==
  ASSUME FilesOK, ThreadsOK, QueueOK, BeingWritten, NEW w \in Worker, Store!CloseFile(w)
  PROVE  FilesOK' /\ ThreadsOK' /\ QueueOK' /\ BeingWritten'
<1>0. PICK f \in Store!File : f = threads[w].job.file
  BY WrittenJob, JobFields DEF Store!CloseFile
<1> DEFINE list == threads[w].list
<1>1. threads[w].at = "opened" /\ files' = [files EXCEPT ![f] = Store!Readable(list)]
      /\ threads' = [threads EXCEPT ![w] = Store!Idle] /\ queue' = queue
  BY <1>0 DEF Store!CloseFile
<1>2. ListOf(f, list)
  BY <1>0, <1>1, WrittenJob
<1>3. ThreadsOK' /\ \A v \in Worker \ {w} : threads'[v] = threads[v]
  BY <1>1, ThreadSteps
<1> HIDE DEF list
<1>4. FilesOK' /\ files'[f] = Store!Readable(list)
  <2>1. files' = [g \in Store!File |-> files'[g]]
    BY <1>1 DEF FilesOK
  <2>2. files'[f] = Store!Readable(list) /\ \A g \in Store!File \ {f} : files'[g] = files[g]
    BY <1>1, <1>2 DEF FilesOK
  <2>3. Store!Readable(list) = [parses |-> TRUE, list |-> list]
    BY DEF Store!Readable
  <2>4. FileOK(f)'
    BY <1>2, <2>2, <2>3 DEF FileOK, ListOf
  <2>5. \A g \in Store!File \ {f} : FileOK(g)'
    BY <2>2 DEF FilesOK, FileOK
  <2> QED
    BY <2>1, <2>2, <2>4, <2>5 DEF FilesOK
<1>5. BeingWritten'
  <2>1. CASE f = "avdec"
    BY <1>4, <2>1 DEF BeingWritten, Store!Readable
  <2>2. CASE f # "avdec"
    <3>1. "avdec" \in Store!File /\ files'["avdec"] = files["avdec"]
      BY <1>1, <1>2, <2>2 DEF Store!File, FilesOK
    <3> QED
      BY <1>0, <2>2, <1>3, <3>1 DEF BeingWritten
  <2> QED
    BY <2>1, <2>2
<1> QED
  BY <1>1, <1>3, <1>4, <1>5 DEF QueueOK

LEMMA WorkKeeps ==
  ASSUME NodeInv, NEW w \in Worker, Work(w)
  PROVE  NodeInv'
<1>1. FilesOK /\ ThreadsOK /\ QueueOK /\ BeingWritten /\ promised \subseteq ThirdID
  BY StoreParts DEF NodeInv
<1>2. FilesOK' /\ ThreadsOK' /\ QueueOK' /\ BeingWritten'
  BY <1>1, TakeKeeps, ReadToSaveKeeps, RemoveKeepsFiles, OpenFileKeeps, CloseFileKeeps
     DEF Work, Store!Work
<1>3. promised' \subseteq ThirdID
  BY <1>1 DEF Work
<1>4. MemoryOK'
  BY DEF NodeInv, MemoryOK, Work, vars, taskVars, windowVars
<1>5. StoreOK'
  BY <1>2, <1>3 DEF StoreOK, FilesOK, ThreadsOK, QueueOK
<1> QED
  BY <1>4, <1>5 DEF NodeInv

-----------------------------------------------------------------------------
(* A crash and the start after it, from whatever the files hold.           *)

LEMMA FirstIsEntry ==
  ASSUME NEW E, NEW list \in Seq(E), NEW key, NEW k \in Store!Keys(list, key)
  PROVE  Store!First(list, key, k) \in E
<1> DEFINE at == {j \in 1..Len(list) : list[j][key] = k}
<1>1. at # {} /\ at \in SUBSET Nat
  BY DEF Store!Keys
<1>2. Store!Min(at) \in at
  BY <1>1, MinInSet
<1>3. Store!First(list, key, k) = list[Store!Min(at)]
  BY DEF Store!First
<1> QED
  BY <1>2, <1>3

LEMMA KeysAreTyped ==
  ASSUME NEW E, NEW list \in Seq(E), NEW key, NEW T, \A e \in E : e[key] \in T
  PROVE  Store!Keys(list, key) \subseteq T
<1>1. \A j \in 1..Len(list) : list[j] \in E
  OBVIOUS
<1> QED
  BY <1>1 DEF Store!Keys

LEMMA ClosedIsTyped == Closed \in AVDec
<1>1. \A o \in 0..2, p \in 0..(U32 - 1) :
        [open |-> o, swms |-> FALSE, prio |-> p, crop |-> NoCrop, dev |-> "HDMI0"] \in AVDec
  BY DEF AVDec, AOChn
<1>2. 0 \in 0..(U32 - 1)
  BY HandlerAssumption
<1> QED
  BY <1>1, <1>2 DEF Closed

LEMMA FirstRecordsAreComplete ==
  /\ FirstRecords \in Seq(EntryOf["avdec"])
  /\ Complete(FirstRecords)
<1> DEFINE n == Cardinality(CodecID)
           order == InOrder(CodecID)
<1>1. n \in Nat /\ order \in [1..n -> CodecID] /\ \A i \in CodecID : \E k \in 1..n : order[k] = i
  BY CodecIDsAreFinite, ListedInOrder
<1>2. FirstRecords = [k \in 1..n |-> [codec |-> order[k], rec |-> Closed]]
  BY DEF FirstRecords
<1>3. \A i \in CodecID : [codec |-> i, rec |-> Closed] \in EntryOf["avdec"]
  BY ClosedIsTyped DEF EntryOf, RecordEntry
<1> HIDE DEF n, order
<1>4. FirstRecords \in Seq(EntryOf["avdec"])
  BY <1>1, <1>2, <1>3
<1>5. Len(FirstRecords) = n /\ \A k \in 1..n : FirstRecords[k].codec = order[k]
  BY <1>1, <1>2
<1> QED
  BY <1>1, <1>4, <1>5 DEF Complete

(* The lists of the three files.                                           *)
LEMMA FileLists ==
  ASSUME FilesOK
  PROVE  /\ files["avdec"].list \in Seq(RecordEntry)
         /\ files["avdec"].parses => Complete(files["avdec"].list)
         /\ WindowsFile \in Seq(WindowEntry)
         /\ AudioFile \in Seq(AudioEntry)
<1>1. FileOK("avdec") /\ FileOK("window") /\ FileOK("audio")
  BY DEF FilesOK, Store!File
<1> QED
  BY <1>1 DEF FileOK, EntryOf, WindowsFile, AudioFile

LEMMA KeyTypes ==
  ASSUME FilesOK
  PROVE  /\ Store!Keys(WindowsFile, "third") \subseteq ThirdID
         /\ Store!Keys(AudioFile, "third") \subseteq ThirdID
         /\ Store!Keys(AudioFile, "ao") \subseteq AOChn
<1>1. /\ \A e \in WindowEntry : e["third"] \in ThirdID
      /\ \A e \in AudioEntry : e["third"] \in ThirdID /\ e["ao"] \in AOChn
  BY DEF WindowEntry, AudioEntry
<1>2. WindowsFile \in Seq(WindowEntry) /\ AudioFile \in Seq(AudioEntry)
  BY FileLists
<1>3. Store!Keys(WindowsFile, "third") \subseteq ThirdID
  BY <1>1, <1>2, KeysAreTyped
<1>4. Store!Keys(AudioFile, "third") \subseteq ThirdID
  BY <1>1, <1>2, KeysAreTyped
<1>5. Store!Keys(AudioFile, "ao") \subseteq AOChn
  BY <1>1, <1>2, KeysAreTyped
<1> QED
  BY <1>3, <1>4, <1>5

LEMMA RestoredDecIsTyped ==
  ASSUME FilesOK
  PROVE  RestoredDec \in [CodecID -> AVDec]
<1>1. ASSUME NEW i \in CodecID, files["avdec"].parses
      PROVE  Store!First(files["avdec"].list, "codec", i).rec \in AVDec
  <2> DEFINE list == files["avdec"].list
  <2>1. i \in Store!Keys(list, "codec")
    BY <1>1, FileLists DEF Complete, Store!Keys
  <2>2. Store!First(list, "codec", i) \in RecordEntry
    BY <2>1, FileLists, FirstIsEntry
  <2> QED
    BY <2>2 DEF RecordEntry
<1> QED
  BY <1>1, ClosedIsTyped DEF RestoredDec

LEMMA RestoredTables ==
  ASSUME FilesOK
  PROVE  LET t == [third |-> RestoredThird, used |-> OpenOf(RestoredDec),
                   beUsed |-> Counted(RestoredDec)]
         IN AreTables(t) /\ CountsAgree(t)
<1> DEFINE t == [third |-> RestoredThird, used |-> OpenOf(RestoredDec),
                 beUsed |-> Counted(RestoredDec)]
           wins == Store!Keys(WindowsFile, "third")
           auds == Store!Keys(AudioFile, "third")
<1>1. wins \subseteq ThirdID /\ auds \subseteq ThirdID
  BY KeyTypes
<1>2. ASSUME NEW th \in wins
      PROVE  Store!First(WindowsFile, "third", th).codec \in CodecID \cup {0}
  <2>1. Store!First(WindowsFile, "third", th) \in WindowEntry
    BY <1>2, FileLists, FirstIsEntry
  <2> QED
    BY <2>1 DEF WindowEntry
<1>3. ASSUME NEW th \in auds
      PROVE  Store!First(AudioFile, "third", th).codec \in CodecID \cup {0}
  <2>1. Store!First(AudioFile, "third", th) \in AudioEntry
    BY <1>3, FileLists, FirstIsEntry
  <2> QED
    BY <2>1 DEF AudioEntry
<1>4. IsMap(RestoredThird, ThirdID, CodecID \cup {0})
  <2>1. RestoredThird = [th \in wins \cup auds |->
           IF th \in wins THEN Store!First(WindowsFile, "third", th).codec
                          ELSE Store!First(AudioFile, "third", th).codec]
    BY DEF RestoredThird
  <2> HIDE DEF wins, auds
  <2> QED
    BY <1>1, <1>2, <1>3, <2>1 DEF IsMap
<1>5. OpenOf(RestoredDec) \in SUBSET CodecID
  BY DEF OpenOf
<1>6. ASSUME NEW y \in TaskType
      PROVE  Counted(RestoredDec)[y] \in Nat
             /\ Counted(RestoredDec)[y] = Cardinality(OpenOf(RestoredDec) \cap Pool[y])
  <2>1. IsFiniteSet(OpenOf(RestoredDec) \cap Pool[y])
    BY <1>5, CodecIDsAreFinite
  <2> QED
    BY <2>1, FS_CardinalityType DEF Counted
<1>7. Counted(RestoredDec) \in [TaskType -> Nat]
  <2>1. Counted(RestoredDec) = [y \in TaskType |-> Counted(RestoredDec)[y]]
    BY DEF Counted
  <2> QED
    BY <1>6, <2>1
<1>8. t.third = RestoredThird /\ t.used = OpenOf(RestoredDec) /\ t.beUsed = Counted(RestoredDec)
      /\ t = [third |-> t.third, used |-> t.used, beUsed |-> t.beUsed]
  OBVIOUS
<1> HIDE DEF t
<1>9. AreTables(t) /\ CountsAgree(t)
  BY <1>4, <1>5, <1>6, <1>7, <1>8 DEF AreTables, CountsAgree
<1> QED
  BY <1>9 DEF t

LEMMA RestoredPrioritiesAreTyped ==
  ASSUME NEW d \in [CodecID -> AVDec]
  PROVE  RestoredPriorities(d) \in Seq(0..(U32 - 1))
<1> DEFINE n == Cardinality(ShownOf(d))
           order == InOrder(ShownOf(d))
           s == [k \in 1..n |-> d[order[k]].prio]
           R == 0..(U32 - 1)
<1>1. ShownOf(d) \in SUBSET CodecID
  BY DEF ShownOf
<1>2. n \in Nat /\ order \in [1..n -> ShownOf(d)]
  BY <1>1, CodecIDsAreFinite, ListedInOrder
<1>3. \A i \in CodecID : d[i].prio \in R
  BY DEF AVDec
<1>4. s \in Seq(R)
  <2> HIDE DEF n, order, R
  <2> QED
    BY <1>1, <1>2, <1>3
<1>5. R \in SUBSET Nat
  BY HandlerAssumption
<1>6. RestoredPriorities(d) = Sorted(s)
  BY DEF RestoredPriorities
<1> HIDE DEF s, R
<1>7. Sorted(s) \in Seq(R)
  BY <1>4, <1>5, SortedIsTyped
<1> QED
  BY <1>6, <1>7 DEF R

LEMMA RestartKeeps ==
  ASSUME NodeInv, Restart
  PROVE  NodeInv'
<1>1. FilesOK
  BY StoreParts DEF NodeInv
<1>2. MemoryOK'
  <2>1. AreTables(ids') /\ CountsAgree(ids')
    BY <1>1, RestoredTables DEF Restart
  <2>2. dec' \in [CodecID -> AVDec]
    BY <1>1, RestoredDecIsTyped DEF Restart
  <2>3. winPriority' \in Seq(0..(U32 - 1))
    BY <1>1, RestoredDecIsTyped, RestoredPrioritiesAreTyped DEF Restart
  <2>4. IsMap(aoCodec', AOChn, CodecID \cup {0})
    <3>1. Store!Keys(AudioFile, "ao") \subseteq AOChn
      BY <1>1, KeyTypes
    <3>2. ASSUME NEW ao \in Store!Keys(AudioFile, "ao")
          PROVE  Store!First(AudioFile, "ao", ao).codec \in CodecID \cup {0}
      <4>1. Store!First(AudioFile, "ao", ao) \in AudioEntry
        BY <1>1, FileLists, FirstIsEntry
      <4> QED
        BY <4>1 DEF AudioEntry
    <3>3. aoCodec' = [ao \in Store!Keys(AudioFile, "ao") |->
                        Store!First(AudioFile, "ao", ao).codec]
      BY DEF Restart
    <3> QED
      BY <3>1, <3>2, <3>3 DEF IsMap
  <2> QED
    BY <2>1, <2>2, <2>3, <2>4 DEF MemoryOK
<1>3. FilesOK' /\ files'["avdec"].parses
  <2>1. CASE files["avdec"].parses
    BY <1>1, <2>1 DEF Restart, FilesOK, FileOK
  <2>2. CASE ~files["avdec"].parses
    <3>1. files' = [files EXCEPT !["avdec"] = Store!Readable(FirstRecords)]
      BY <2>2 DEF Restart
    <3>2. "avdec" \in Store!File
      BY DEF Store!File
    <3>3. Store!Readable(FirstRecords) = [parses |-> TRUE, list |-> FirstRecords]
      BY DEF Store!Readable
    <3>4. /\ files' = [g \in Store!File |-> files'[g]]
          /\ files'["avdec"] = Store!Readable(FirstRecords)
          /\ \A g \in Store!File \ {"avdec"} : files'[g] = files[g]
      BY <1>1, <3>1, <3>2 DEF FilesOK
    <3>5. FileOK("avdec")'
      BY <3>3, <3>4, FirstRecordsAreComplete DEF FileOK
    <3>6. \A g \in Store!File \ {"avdec"} : FileOK(g)'
      BY <1>1, <3>4 DEF FilesOK, FileOK
    <3> QED
      BY <3>3, <3>4, <3>5, <3>6 DEF FilesOK
  <2> QED
    BY <2>1, <2>2
<1>4. ThreadsOK' /\ QueueOK' /\ BeingWritten'
  <2>1. threads' = [w \in Worker |-> Store!Idle] /\ queue' = <<>>
    BY DEF Restart
  <2>2. ThreadsOK'
    BY <2>1 DEF ThreadsOK, ThreadOK
  <2>3. QueueOK'
    BY <2>1, NodeAssumption DEF QueueOK
  <2>4. BeingWritten'
    BY <1>3 DEF BeingWritten
  <2> QED
    BY <2>2, <2>3, <2>4
<1>5. promised' \subseteq ThirdID
  <2>1. Store!Keys(WindowsFile, "third") \subseteq ThirdID
    BY <1>1, KeyTypes
  <2> QED
    BY <2>1 DEF Restart
<1>6. StoreOK'
  BY <1>3, <1>4, <1>5 DEF StoreOK, FilesOK, ThreadsOK, QueueOK
<1> QED
  BY <1>2, <1>6 DEF NodeInv

-----------------------------------------------------------------------------
(* The steps of the node.                                                  *)

(* A handler and the jobs it queues.                                       *)
LEMMA SubmitKeeps ==
  ASSUME NodeInv, Handles, Store!Submit([k \in 1..Len(saves') |-> JobOf(saves'[k])]),
         promised' = CASE reply'.cmd = "open" /\ reply'.ok -> promised \cup {reply'.third}
                       [] OTHER -> promised \cap DOMAIN ids'.third
  PROVE  NodeInv'
<1> DEFINE jobs == [k \in 1..Len(saves') |-> JobOf(saves'[k])]
<1>1. FilesOK /\ ThreadsOK /\ QueueOK /\ BeingWritten /\ promised \subseteq ThirdID
  BY StoreParts DEF NodeInv
<1>2. jobs \in Seq(Job) /\ Len(jobs) = Len(saves')
  <2>1. saves' \in Seq(Request) /\ MemoryOK'
    BY DEF Handles, RequestsOK
  <2>2. ASSUME NEW k \in 1..Len(saves')
        PROVE  JobOf(saves'[k]) \in Job
    <3>1. saves'[k] \in Request
      BY <2>1
    <3> QED
      BY <2>1, <3>1, JobTypes
  <2> QED
    BY <2>1, <2>2
<1> HIDE DEF jobs
<1>3. Len(queue) + Len(jobs) <= MaxQueue /\ queue' = queue \o jobs /\ UNCHANGED <<files, threads>>
  BY DEF Store!Submit, jobs
<1>4. QueueOK'
  <2>1. queue \o jobs \in Seq(Job) /\ Len(queue \o jobs) = Len(queue) + Len(jobs)
    BY <1>1, <1>2 DEF QueueOK
  <2> QED
    BY <1>3, <2>1 DEF QueueOK
<1>5. FilesOK' /\ ThreadsOK' /\ BeingWritten'
  BY <1>1, <1>3 DEF FilesOK, FileOK, ThreadsOK, ThreadOK, BeingWritten
<1>6. promised' \subseteq ThirdID
  BY <1>1 DEF Handles
<1>7. StoreOK'
  BY <1>4, <1>5, <1>6 DEF StoreOK, FilesOK, ThreadsOK, QueueOK
<1> QED
  BY <1>7 DEF NodeInv, Handles

LEMMA NodeNextKeeps == NodeInv /\ [NodeNext]_nodeVars => NodeInv'
<1> SUFFICES ASSUME NodeInv, [NodeNext]_nodeVars
             PROVE  NodeInv'
  OBVIOUS
<1>1. MemoryOK
  BY DEF NodeInv
<1>2. CASE WindowCommand
  <2>1. Handles
    BY <1>1, <1>2, WindowHandles DEF WindowCommand, Handled
  <2> QED
    BY <1>2, <2>1, SubmitKeeps DEF WindowCommand, Handled
<1>3. CASE AudioCommand
  <2>1. Handles
    BY <1>1, <1>3, AudioHandles DEF AudioCommand, Handled
  <2> QED
    BY <1>3, <2>1, SubmitKeeps DEF AudioCommand, Handled
<1>4. CASE ClearCommand
  <2>1. Handles
    BY <1>1, <1>4, ClearHandles DEF ClearCommand, Handled
  <2> QED
    BY <1>4, <2>1, SubmitKeeps DEF ClearCommand, Handled
<1>5. ASSUME UNCHANGED <<ids, dec, winPriority, aoCodec, store, promised>>
      PROVE  NodeInv'
  BY <1>5 DEF NodeInv, MemoryOK, StoreOK, FileOK, ThreadOK, BeingWritten, store
<1>6. CASE Waiting
  BY <1>5, <1>6 DEF Waiting, WaitForClear, taskVars, windowVars
<1>7. CASE UNCHANGED nodeVars
  BY <1>5, <1>7 DEF nodeVars, vars, taskVars, windowVars
<1> QED
  BY <1>2, <1>3, <1>4, <1>6, <1>7, WorkKeeps, RestartKeeps DEF NodeNext

LEMMA NodeInitHolds == NodeInit => NodeInv
<1> SUFFICES ASSUME NodeInit
             PROVE  NodeInv
  OBVIOUS
<1>1. IInv
  BY InitHolds DEF NodeInit
<1>2. MemoryOK
  <2>1. winPriority \in Seq(0..(U32 - 1))
    BY <1>1, StackIsSorted DEF IInv, Stacked
  <2>2. IsMap(aoCodec, AOChn, CodecID \cup {0})
    BY <1>1 DEF IInv, MapsOK, IsMap
  <2> QED
    BY <1>1, <2>1, <2>2 DEF IInv, TablesInv, RecordsOK, MemoryOK
<1>3. FilesOK /\ files["avdec"].parses
  <2>1. files = [f \in Store!File |-> IF f = "avdec" THEN Store!Readable(FirstRecords)
                                                     ELSE Store!Unreadable]
    BY DEF NodeInit, Store!Files0
  <2>2. /\ Store!Readable(FirstRecords) = [parses |-> TRUE, list |-> FirstRecords]
        /\ Store!Unreadable = [parses |-> FALSE, list |-> <<>>]
    BY DEF Store!Readable, Store!Unreadable
  <2>3. "avdec" \in Store!File
    BY DEF Store!File
  <2>4. FileOK("avdec")
    <3>1. files["avdec"] = Store!Readable(FirstRecords)
      BY <2>1, <2>3
    <3> QED
      BY <2>2, <3>1, FirstRecordsAreComplete DEF FileOK
  <2>5. ASSUME NEW f \in Store!File \ {"avdec"}
        PROVE  FileOK(f)
    <3>1. files[f] = Store!Unreadable
      BY <2>1
    <3>2. <<>> \in Seq(EntryOf[f])
      OBVIOUS
    <3> QED
      BY <2>2, <3>1, <3>2 DEF FileOK
  <2> QED
    BY <2>1, <2>2, <2>3, <2>4, <2>5 DEF FilesOK
<1>4. ThreadsOK /\ QueueOK /\ BeingWritten /\ promised \subseteq ThirdID
  <2>1. queue = <<>> /\ threads = [w \in Worker |-> Store!Idle] /\ promised = {}
    BY DEF NodeInit, Store!NothingQueued
  <2>2. QueueOK
    BY <2>1, NodeAssumption DEF QueueOK
  <2> QED
    BY <1>3, <2>1, <2>2 DEF ThreadsOK, ThreadOK, BeingWritten
<1> QED
  BY <1>2, <1>3, <1>4, StoreParts DEF NodeInv

(* NodeInv is kept by every handler, every step of a job, a crash in the   *)
(* middle of either and the constructor's start from the files it left: in *)
(* particular no job meets a record file it cannot read, which the code    *)
(* would take for an empty list and write back.                            *)
THEOREM NodeInvariantHolds == NodeSpec => []NodeInv
<1> QED
  BY NodeInitHolds, NodeNextKeeps, PTL DEF NodeSpec

(* The files, the queue and the threads keep their types through every     *)
(* crash: what TaskRestore and NodeInfo read back are entries of the kind  *)
(* the file is for, and the queue never exceeds its bound.                 *)
THEOREM StoreTypesHold == NodeSpec => []StoreTypeOK
<1>1. NodeInv => StoreTypeOK
  <2> SUFFICES ASSUME NodeInv
               PROVE  StoreTypeOK
    OBVIOUS
  <2>1. FilesOK /\ ThreadsOK /\ QueueOK /\ promised \subseteq ThirdID
    BY StoreParts DEF NodeInv
  <2>2. ASSUME NEW f \in Store!File
        PROVE  files[f].parses \in BOOLEAN /\ files[f].list \in Seq(Entry)
    <3>1. FileOK(f)
      BY <2>1 DEF FilesOK
    <3>2. EntryOf[f] \subseteq Entry
      <4>1. RecordEntry \subseteq Entry /\ WindowEntry \subseteq Entry /\ AudioEntry \subseteq Entry
        BY DEF RecordEntry, WindowEntry, AudioEntry, Entry
      <4> QED
        BY <4>1 DEF EntryOf, Store!File
    <3> HIDE DEF Entry
    <3> QED
      BY <3>1, <3>2 DEF FileOK
  <2>3. \A w \in Worker : threads[w].at \in {"idle", "taken", "read", "opened"}
    BY <2>1 DEF ThreadsOK, ThreadOK, Store!Idle
  <2> QED
    BY <2>1, <2>2, <2>3 DEF QueueOK, StoreTypeOK
<1> QED
  BY <1>1, NodeInvariantHolds, PTL

(* The counter findNewID trusts counts the ids that are lent also on a     *)
(* node that crashes in the middle of its jobs and starts from what they   *)
(* left in the files.                                                      *)
THEOREM CountersMatchAfterRestarts == NodeSpec => []CountersMatch
<1>1. NodeInv => CountersMatch
  BY DEF NodeInv, MemoryOK, CountersMatch
<1> QED
  BY <1>1, NodeInvariantHolds, PTL
=============================================================================
