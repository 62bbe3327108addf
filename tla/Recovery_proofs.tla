-------------------------- MODULE Recovery_proofs --------------------------
(***************************************************************************)
(* What a restart gives back.  The client waits for the jobs of a command  *)
(* before it sends the next, the codec acknowledges what it is asked, and  *)
(* no crash meets a job half done.  Then the files, once the jobs under    *)
(* way have been applied to them, hold what the node has promised: shown   *)
(* here by relating every entry to the job that would change it.           *)
(***************************************************************************)
EXTENDS Node_proofs

(* The client and the link of these theorems; records that are sent        *)
(* without waiting for a reply may be lost.                                *)
PatientClient ==
  /\ Patient /\ ~CrashMidway
  /\ ~ClientMistakes /\ ClearTypes = {}
  /\ LinkFaults \subseteq {"lost"}

-----------------------------------------------------------------------------
(* Jobs and lists.                                                         *)

(* A thread between the read of a file and the end of its write.           *)
Writing(w, f) == threads[w].at \in {"read", "opened"} /\ threads[w].job.file = f

(* The list that a file holds, or will hold when a write is done.          *)
Now(f) ==
  IF \E w \in Worker : Writing(w, f)
  THEN threads[CHOOSE w \in Worker : Writing(w, f)].list
  ELSE files[f].list

OneWriterOf(f) == \A v, w \in Worker : Writing(v, f) /\ Writing(w, f) => v = w

(* A removal reads the file of windows with its mutex and writes it        *)
(* without: only because no two jobs on it are under way is nothing lost.  *)
OnWindow(w) == threads[w].at # "idle" /\ threads[w].job.file = "window"

OneWindowJob ==
  /\ \A k, m \in 1..Len(queue) : queue[k].file = "window" /\ queue[m].file = "window" => k = m
  /\ \A v, w \in Worker : OnWindow(v) /\ OnWindow(w) => v = w
  /\ \A k \in 1..Len(queue), w \in Worker : ~(queue[k].file = "window" /\ OnWindow(w))

(* The jobs that have not read their file yet, and what they will do.      *)
Pending ==
  {queue[k] : k \in 1..Len(queue)}
  \cup {threads[w].job : w \in {v \in Worker : threads[v].at = "taken"}}

ToSave(f) == {j.entry : j \in {i \in Pending : i.file = f /\ i.do = "save"}}

ToDrop(f) == {j.third : j \in {i \in Pending : i.file = f /\ i.do = "remove"}}

-----------------------------------------------------------------------------
(* The invariant.                                                          *)

(* The tasks of the windows that openAndMoveWindow has answered.           *)
PromisedTasks == {ids.third[th] : th \in promised}

SameTask(r, d) == r.open = d.open /\ r.swms = d.swms

(* An entry of the file of records: it opens no task that is closed, and   *)
(* the task of a promised window is as the node has it.  A window of       *)
(* createWindow may be open on the node and closed in the file.            *)
Agrees(e) ==
  /\ e.rec.open # 0 => dec[e.codec].open # 0
  /\ e.codec \in PromisedTasks => SameTask(e.rec, dec[e.codec])

RecordsFollow ==
  LET list == Now("avdec")
  IN /\ \A e \in ToSave("avdec") : SameTask(e.rec, dec[e.codec])
     /\ \A k, m \in 1..Len(list) : list[k].codec = list[m].codec => k = m
     /\ \A k \in 1..Len(list) :
           Agrees(list[k]) \/ \E e \in ToSave("avdec") : e.codec = list[k].codec

(* An entry of the file of windows, its owner and its task.                *)
Names(e) == e.third \in promised /\ e.codec = ids.third[e.third]

WindowsFollow ==
  LET list == Now("window")
  IN /\ \A e \in ToSave("window") : Names(e)
     /\ ToDrop("window") \cap promised = {}
     /\ \A k \in 1..Len(list) : Names(list[k]) \/ list[k].third \in ToDrop("window")
     /\ \A th \in promised : \/ \E k \in 1..Len(list) : list[k].third = th
                             \/ \E e \in ToSave("window") : e.third = th

(* The file of audio streams has no windows' owners, whoever writes it.    *)
AudioOwner(e) == e.third \in AudioID /\ e.codec \in AudioTaskID \cup {0}

OfAudio(list) == \A k \in 1..Len(list) : AudioOwner(list[k])

AudioApart ==
  /\ \A e \in ToSave("audio") : AudioOwner(e)
  /\ OfAudio(files["audio"].list)
  /\ \A w \in Worker : Writing(w, "audio") => OfAudio(threads[w].list)

JobsFollow ==
  /\ OneWriterOf("avdec") /\ OneWindowJob
  /\ RecordsFollow /\ WindowsFollow /\ AudioApart

(* In memory: each window has a task of its own that is open and shown.    *)
WindowOwners == WindowID \cap DOMAIN ids.third

OwnersOK ==
  /\ DOMAIN ids.third \subseteq WindowID \cup AudioID
  /\ \A th \in WindowOwners :
        /\ ids.third[th] \in AuViTaskID \cap ids.used
        /\ dec[ids.third[th]].open = 2 /\ dec[ids.third[th]].swms
  /\ \A x, y \in WindowOwners : ids.third[x] = ids.third[y] => x = y
  /\ \A th \in DOMAIN ids.third \ WindowID : ids.third[th] \in AudioTaskID \cup {0}
  /\ \A ao \in DOMAIN aoCodec : aoCodec[ao] \in AudioTaskID \cup {0}
  /\ promised \subseteq WindowOwners

RecoveryInv == NodeInv /\ OwnersOK /\ JobsFollow

-----------------------------------------------------------------------------
(* What saves and removals do to a list.                                   *)

(* The entry e is put at one place, where its key was if it was anywhere.  *)
IsPut(list, e, key, put) ==
  \E p \in 1..Len(put) :
     /\ put[p] = e
     /\ \A k \in 1..Len(put) \ {p} : k \in 1..Len(list) /\ put[k] = list[k]
     /\ \A k \in 1..Len(list) \ {p} : k \in 1..Len(put)
     /\ p \in 1..Len(list) => list[p][key] = e[key]
     /\ p \notin 1..Len(list) => \A k \in 1..Len(list) : list[k][key] # e[key]

(* The entries of other third ids are left, and nothing else.              *)
IsLeft(list, th, left) ==
  /\ \A k \in 1..Len(left) : \E m \in 1..Len(list) : left[k] = list[m] /\ list[m].third # th
  /\ \A m \in 1..Len(list) : list[m].third # th => \E k \in 1..Len(left) : left[k] = list[m]

LEMMA EntryIsPut ==
  ASSUME NEW f \in Store!File, NEW list \in Seq(EntryOf[f]), NEW e \in EntryOf[f]
  PROVE  IsPut(list, e, Store!Key(f), Store!WithEntry(list, e, Store!Key(f)))
<1> DEFINE key == Store!Key(f)
           n == Len(list)
           at == {k \in 1..n : list[k][key] = e[key]}
           put == Store!WithEntry(list, e, key)
<1>1. n \in Nat
  OBVIOUS
<1>2. put = IF at = {} THEN Append(list, e) ELSE [list EXCEPT ![Store!Max(at)] = e]
  BY DEF Store!WithEntry
<1>3. CASE at = {}
  <2>1. put = Append(list, e)
    BY <1>2, <1>3
  <2> HIDE DEF put
  <2>2. /\ Len(put) = n + 1 /\ put[n + 1] = e
        /\ \A k \in 1..n : put[k] = list[k]
    BY <1>1, <2>1
  <2>3. /\ n + 1 \in 1..Len(put) /\ n + 1 \notin 1..n
        /\ \A k \in 1..Len(put) \ {n + 1} : k \in 1..n
        /\ \A k \in 1..n : k \in 1..Len(put)
    BY <1>1, <2>2
  <2>4. \A k \in 1..n : list[k][key] # e[key]
    BY <1>3
  <2> HIDE DEF n, key, at
  <2>6. PICK q : q = n + 1
    OBVIOUS
  <2>7. /\ q \in 1..Len(put) /\ q \notin 1..n /\ put[q] = e
        /\ \A k \in 1..Len(put) \ {q} : k \in 1..n
    BY <2>2, <2>3, <2>6
  <2>8. \A k \in 1..Len(put) \ {q} : k \in 1..n /\ put[k] = list[k]
    BY <2>2, <2>7
  <2>9. \A k \in 1..n \ {q} : k \in 1..Len(put)
    BY <2>3
  <2>5. \E p \in 1..Len(put) :
               /\ put[p] = e
               /\ \A k \in 1..Len(put) \ {p} : k \in 1..n /\ put[k] = list[k]
               /\ \A k \in 1..n \ {p} : k \in 1..Len(put)
               /\ p \in 1..n => list[p][key] = e[key]
               /\ p \notin 1..n => \A k \in 1..n : list[k][key] # e[key]
    BY <2>4, <2>7, <2>8, <2>9, Zenon
  <2> QED
    BY <2>5 DEF n, key, put, IsPut
<1>4. CASE at # {}
  <2> DEFINE m == Store!Max(at)
  <2>1. m \in 1..n /\ list[m][key] = e[key]
    <3>1. m \in at
      BY <1>1, <1>4, MaxInSet
    <3> QED
      BY <3>1
  <2>2. put = [list EXCEPT ![m] = e]
    BY <1>2, <1>4
  <2> HIDE DEF put, m, key
  <2>3. Len(put) = n /\ put[m] = e /\ \A k \in 1..n \ {m} : put[k] = list[k]
    BY <2>1, <2>2
  <2> HIDE DEF n
  <2>4. \E p \in 1..Len(put) :
               /\ put[p] = e
               /\ \A k \in 1..Len(put) \ {p} : k \in 1..n /\ put[k] = list[k]
               /\ \A k \in 1..n \ {p} : k \in 1..Len(put)
               /\ p \in 1..n => list[p][key] = e[key]
               /\ p \notin 1..n => \A k \in 1..n : list[k][key] # e[key]
    BY <2>1, <2>3
  <2> QED
    BY <2>4 DEF n, key, put, IsPut
<1> QED
  BY <1>3, <1>4

LEMMA OthersAreKept ==
  ASSUME NEW E, NEW list \in Seq(E), NEW th
  PROVE  IsLeft(list, th, Store!WithoutThird(list, th))
<1> DEFINE n == Len(list)
           kept == {k \in 1..n : list[k].third # th}
           c == Cardinality(kept)
           left == Store!WithoutThird(list, th)
<1>1. n \in Nat /\ IsFiniteSet(1..n) /\ kept \in SUBSET (1..n) /\ kept \in SUBSET Nat
  <2>1. n \in Nat
    OBVIOUS
  <2>2. 1 \in Int /\ n \in Int
    BY <2>1
  <2> QED
    BY <2>1, <2>2, FS_Interval
<1>2. IsFiniteSet(kept)
  BY <1>1, FS_Subset
<1>3. left = [k \in 1..c |-> list[InOrder(kept)[k]]]
  <2>1. left = [k \in 1..c |-> list[Store!InOrder(kept)[k]]]
    BY SameCardinality DEF Store!WithoutThird
  <2>2. Store!InOrder(kept) = InOrder(kept)
    BY DEF Store!InOrder, InOrder, Store!Cardinality, Cardinality
  <2> QED
    BY <2>1, <2>2
<1>4. /\ c \in Nat /\ InOrder(kept) \in [1..c -> kept]
      /\ \A x \in kept : \E k \in 1..c : InOrder(kept)[k] = x
  <2> HIDE DEF kept
  <2> QED
    BY <1>1, <1>2, ListedInOrder
<1>5. \A m \in kept : m \in 1..n /\ list[m].third # th
  OBVIOUS
<1>6. \A m \in 1..n : list[m].third # th => m \in kept
  OBVIOUS
<1> HIDE DEF kept, c, left
<1>7. Len(left) = c /\ \A k \in 1..c : left[k] = list[InOrder(kept)[k]]
  <2>1. \A k \in 1..c : list[InOrder(kept)[k]] \in E
    BY <1>4, <1>5
  <2>2. left \in Seq(E) /\ Len(left) = c
    BY <1>3, <1>4, <2>1
  <2> QED
    BY <1>3, <2>2
<1>8. \A k \in 1..Len(left) : \E m \in 1..n : left[k] = list[m] /\ list[m].third # th
  <2>1. ASSUME NEW k \in 1..Len(left)
        PROVE  \E m \in 1..n : left[k] = list[m] /\ list[m].third # th
    <3>1. k \in 1..c /\ InOrder(kept)[k] \in kept
      BY <1>4, <1>7
    <3> QED
      BY <1>5, <1>7, <3>1
  <2> QED
    BY <2>1
<1>9. \A m \in 1..n : list[m].third # th => \E k \in 1..Len(left) : left[k] = list[m]
  BY <1>4, <1>6, <1>7
<1> QED
  BY <1>8, <1>9 DEF left, IsLeft

-----------------------------------------------------------------------------
(* What a step of a thread does to the jobs and to the lists.              *)

LEMMA NowMeans ==
  ASSUME NEW f
  PROVE  /\ OneWriterOf(f) => \A w \in Worker : Writing(w, f) => Now(f) = threads[w].list
         /\ (\A w \in Worker : ~Writing(w, f)) => Now(f) = files[f].list
BY DEF Now, OneWriterOf

LEMMA NowMeansThen ==
  ASSUME NEW f
  PROVE  /\ OneWriterOf(f)' => \A w \in Worker : Writing(w, f)' => Now(f)' = threads'[w].list
         /\ (\A w \in Worker : ~Writing(w, f)') => Now(f)' = files'[f].list
BY DEF Now, OneWriterOf

LEMMA WindowsHaveOneWriter ==
  /\ OneWindowJob => OneWriterOf("window")
  /\ OneWindowJob' => OneWriterOf("window")'
<1>1. \A w \in Worker : Writing(w, "window") => OnWindow(w)
  BY DEF Writing, OnWindow
<1>2. \A w \in Worker : Writing(w, "window")' => OnWindow(w)'
  BY DEF Writing, OnWindow
<1> QED
  BY <1>1, <1>2 DEF OneWindowJob, OneWriterOf

LEMMA PendingAreJobs ==
  ASSUME NodeInv
  PROVE  Pending \subseteq Job
<1>1. QueueOK /\ ThreadsOK
  BY StoreParts DEF NodeInv
<1>2. \A k \in 1..Len(queue) : queue[k] \in Job
  BY <1>1 DEF QueueOK
<1> QED
  BY <1>1, <1>2, TakenJob DEF Pending

(* Kept are the lists that matter, or one job is applied to its list.      *)
Lists == {"avdec", "window"}

After(j, list) ==
  IF j.do = "save" THEN Store!WithEntry(list, j.entry, Store!Key(j.file))
                   ELSE Store!WithoutThird(list, j.third)

Rests == Pending' = Pending /\ \A f \in Lists : Now(f)' = Now(f)

Does(j) ==
  /\ Pending' \subseteq Pending /\ Pending \subseteq Pending' \cup {j}
  /\ \A f \in Lists : Now(f)' = IF f = j.file THEN After(j, Now(f)) ELSE Now(f)

Alone == OneWriterOf("avdec") /\ OneWindowJob

(* The other threads stay as they are.                                     *)
OnlyMoves(w) ==
  /\ threads' = [v \in Worker |-> threads'[v]]
  /\ \A v \in Worker \ {w} : threads'[v] = threads[v]

LEMMA OneMoves ==
  ASSUME ThreadsOK, NEW w \in Worker, NEW t, threads' = [threads EXCEPT ![w] = t]
  PROVE  OnlyMoves(w) /\ threads'[w] = t
BY DEF ThreadsOK, OnlyMoves

(* The writers of a file are those that were, except for a thread that     *)
(* begins or ends a write.                                                 *)
LEMMA SameWriters ==
  ASSUME NEW w \in Worker, OnlyMoves(w), NEW f,
         Writing(w, f)' <=> Writing(w, f),
         Writing(w, f) => threads'[w].list = threads[w].list,
         (\A v \in Worker : ~Writing(v, f)) => files'[f].list = files[f].list
  PROVE  /\ OneWriterOf(f) => OneWriterOf(f)'
         /\ OneWriterOf(f) => Now(f)' = Now(f)
<1>1. \A v \in Worker : Writing(v, f)' <=> Writing(v, f)
  BY DEF OnlyMoves, Writing
<1>2. OneWriterOf(f) => OneWriterOf(f)'
  BY <1>1 DEF OneWriterOf
<1>3. ASSUME OneWriterOf(f), NEW v \in Worker, Writing(v, f)
      PROVE  Now(f)' = Now(f)
  <2>1. Writing(v, f)' /\ threads'[v].list = threads[v].list
    BY <1>1, <1>3 DEF OnlyMoves
  <2> QED
    BY <1>2, <1>3, <2>1, NowMeans, NowMeansThen
<1>4. ASSUME \A v \in Worker : ~Writing(v, f)
      PROVE  Now(f)' = Now(f)
  <2>1. \A v \in Worker : ~Writing(v, f)'
    BY <1>1, <1>4
  <2> QED
    BY <1>4, <2>1, NowMeans, NowMeansThen
<1> QED
  BY <1>2, <1>3, <1>4

(* A thread that has a job on windows goes on with it, or is done.         *)
LEMMA SameWindowJob ==
  ASSUME OneWindowJob, NEW w \in Worker, OnlyMoves(w), queue' = queue,
         OnWindow(w)' => OnWindow(w)
  PROVE  OneWindowJob'
<1>1. \A v \in Worker : OnWindow(v)' => OnWindow(v)
  BY DEF OnlyMoves, OnWindow
<1> QED
  BY <1>1 DEF OneWindowJob

LEMMA TakeRests ==
  ASSUME NodeInv, Alone, NEW w \in Worker, Store!Take(w)
  PROVE  Alone' /\ Rests
<1> DEFINE t == [at |-> "taken", job |-> queue[1]]
<1>1. ThreadsOK /\ QueueOK
  BY StoreParts DEF NodeInv
<1>2. /\ threads[w].at = "idle" /\ queue # <<>> /\ files' = files
      /\ threads' = [threads EXCEPT ![w] = t] /\ queue' = Tail(queue)
  BY DEF Store!Take
<1>3. /\ Len(queue) \in Nat /\ 1 \in 1..Len(queue) /\ Len(queue') = Len(queue) - 1
      /\ \A k \in 1..Len(queue') : k + 1 \in 1..Len(queue) /\ queue'[k] = queue[k + 1]
  BY <1>1, <1>2 DEF QueueOK
<1>4. OnlyMoves(w) /\ threads'[w].at = "taken" /\ threads'[w].job = queue[1]
  <2>1. OnlyMoves(w) /\ threads'[w] = t
    <3> HIDE DEF t
    <3> QED
      BY <1>1, <1>2, OneMoves
  <2> QED
    BY <2>1
<1>5. OneWindowJob'
  <2>1. ASSUME NEW k \in 1..Len(queue'), NEW m \in 1..Len(queue'),
               queue'[k].file = "window", queue'[m].file = "window"
        PROVE  k = m
    <3>1. k + 1 = m + 1
      BY <1>3, <2>1 DEF Alone, OneWindowJob
    <3> QED
      BY <1>3, <3>1
  <2>2. ASSUME NEW v \in Worker, OnWindow(v)'
        PROVE  \/ v = w /\ queue[1].file = "window"
               \/ v # w /\ OnWindow(v)
    <3>1. CASE v = w
      <4>1. threads'[w].job.file = "window"
        BY <2>2, <3>1 DEF OnWindow
      <4>2. queue[1].file = "window"
        BY <1>4, <4>1
      <4> QED
        BY <3>1, <4>2
    <3>2. CASE v # w
      <4>1. threads'[v] = threads[v]
        BY <1>4, <3>2 DEF OnlyMoves
      <4> QED
        BY <2>2, <3>2, <4>1 DEF OnWindow
    <3> QED
      BY <3>1, <3>2
  <2>3. \A v \in Worker, u \in Worker : OnWindow(v)' /\ OnWindow(u)' => u = v
    BY <1>3, <2>2 DEF Alone, OneWindowJob
  <2>4. ASSUME NEW k \in 1..Len(queue'), NEW v \in Worker,
               queue'[k].file = "window", OnWindow(v)'
        PROVE  FALSE
    <3>1. k + 1 # 1
      BY <1>3
    <3> QED
      BY <1>3, <2>2, <2>4, <3>1 DEF Alone, OneWindowJob
  <2> QED
    BY <2>1, <2>3, <2>4 DEF OneWindowJob
<1>6. ASSUME NEW f
      PROVE  (OneWriterOf(f) => OneWriterOf(f)') /\ (OneWriterOf(f) => Now(f)' = Now(f))
  <2>1. ~Writing(w, f) /\ ~Writing(w, f)'
    BY <1>2, <1>4 DEF Writing
  <2> QED
    BY <1>2, <1>4, <2>1, SameWriters
<1>7. Pending' = Pending
  <2>1. \A k \in 1..Len(queue) : k = 1 \/ \E m \in 1..Len(queue') : k = m + 1
    <3>1. ASSUME NEW k \in 1..Len(queue), k # 1
          PROVE  k - 1 \in 1..Len(queue') /\ k = (k - 1) + 1
      BY <1>3, <3>1
    <3> QED
      BY <3>1
  <2>2. {queue[k] : k \in 1..Len(queue)} = {queue[1]} \cup {queue'[k] : k \in 1..Len(queue')}
    <3>1. \A k \in 1..Len(queue) : queue[k] = queue[1] \/ \E m \in 1..Len(queue') : queue[k] = queue'[m]
      BY <1>3, <2>1
    <3> QED
      BY <1>3, <3>1
  <2>3. {v \in Worker : threads'[v].at = "taken"} = {w} \cup {v \in Worker : threads[v].at = "taken"}
        /\ \A v \in Worker : threads[v].at = "taken" => v # w
    BY <1>2, <1>4 DEF OnlyMoves
  <2>4. {threads'[v].job : v \in {u \in Worker : threads'[u].at = "taken"}}
        = {queue[1]} \cup {threads[v].job : v \in {u \in Worker : threads[u].at = "taken"}}
    BY <1>4, <2>3 DEF OnlyMoves
  <2> QED
    BY <2>2, <2>4 DEF Pending
<1> QED
  BY <1>5, <1>6, <1>7, WindowsHaveOneWriter DEF Alone, Rests, Lists

(* A job that has read its file is no longer pending.                      *)
LEMMA JobIsRead ==
  ASSUME NEW w \in Worker, OnlyMoves(w), queue' = queue,
         threads[w].at = "taken", threads'[w].at # "taken"
  PROVE  /\ threads[w].job \in Pending
         /\ Pending' \subseteq Pending /\ Pending \subseteq Pending' \cup {threads[w].job}
BY DEF OnlyMoves, Pending

LEMMA SamePending ==
  ASSUME NEW w \in Worker, OnlyMoves(w), queue' = queue,
         threads[w].at # "taken", threads'[w].at # "taken"
  PROVE  Pending' = Pending
<1>1. {v \in Worker : threads'[v].at = "taken"} = {v \in Worker : threads[v].at = "taken"}
      /\ \A v \in Worker : threads[v].at = "taken" => threads'[v] = threads[v]
  BY DEF OnlyMoves
<1> QED
  BY <1>1 DEF Pending

(* A job reads: nobody is writing its file, because a writer of records    *)
(* has the mutex and a job on windows is alone.                            *)
LEMMA NobodyWrites ==
  ASSUME NodeInv, Alone, NEW w \in Worker, threads[w].at = "taken",
         ~Store!Locked(threads[w].job.file), NEW v \in Worker
  PROVE  threads[w].job.file \in Lists => ~Writing(v, threads[w].job.file)
<1>1. ThreadsOK
  BY StoreParts DEF NodeInv
<1>2. ASSUME threads[w].job.file = "avdec", Writing(v, "avdec")
      PROVE  FALSE
  <2>1. threads[v].job \in Job /\ threads[v].job.file = "avdec"
    BY <1>1, <1>2, WrittenJob DEF Writing
  <2>2. threads[v].job.do = "save"
    BY <2>1, JobFields
  <2> QED
    BY <1>2, <2>1, <2>2 DEF Writing, Store!Locked
<1>3. ASSUME threads[w].job.file = "window", Writing(v, "window")
      PROVE  FALSE
  <2>1. OnWindow(w) /\ OnWindow(v) /\ v # w
    BY <1>3 DEF OnWindow, Writing
  <2> QED
    BY <2>1 DEF Alone, OneWindowJob
<1> QED
  BY <1>2, <1>3 DEF Lists

LEMMA ReadDoes ==
  ASSUME NodeInv, Alone, NEW w \in Worker,
         Store!ReadToSave(w) \/ Store!ReadToRemove(w) \/ Store!NothingToRemove(w)
  PROVE  Alone' /\ threads[w].job \in Pending /\ Does(threads[w].job)
<1>0. PICK job : job = threads[w].job
  OBVIOUS
<1> DEFINE g == job.file
           list == After(job, files[g].list)
<1>1. ThreadsOK
  BY StoreParts DEF NodeInv
<1>2. threads[w].at = "taken" /\ ~Store!Locked(g) /\ files' = files /\ queue' = queue
  BY <1>0 DEF Store!ReadToSave, Store!ReadToRemove, Store!NothingToRemove
<1>3. \/ threads' = [threads EXCEPT ![w] = [at |-> "read", job |-> job, list |-> list]]
      \/ threads' = [threads EXCEPT ![w] = Store!Idle] /\ list = files[g].list
  <2>1. CASE Store!ReadToSave(w)
    BY <1>0, <1>1, <2>1 DEF Store!ReadToSave, Store!HasRead, Store!ReadBack, After, ThreadsOK
  <2>2. CASE Store!ReadToRemove(w) \/ Store!NothingToRemove(w)
    <3>1. job.do # "save"
      BY <1>0, <2>2 DEF Store!ReadToRemove, Store!NothingToRemove
    <3>2. list = Store!WithoutThird(Store!ReadBack(g), job.third)
      BY <3>1 DEF After, Store!ReadBack
    <3>3. Store!ReadBack(g) = files[g].list
      BY DEF Store!ReadBack
    <3> HIDE DEF list
    <3> QED
      BY <1>0, <1>1, <2>2, <3>2, <3>3
         DEF Store!ReadToRemove, Store!NothingToRemove, Store!HasRead, ThreadsOK
  <2> QED
    BY <2>1, <2>2
<1> HIDE DEF list
<1>4. /\ OnlyMoves(w)
      /\ \/ threads'[w] = [at |-> "read", job |-> job, list |-> list]
         \/ threads'[w] = Store!Idle /\ list = files[g].list
  BY <1>1, <1>3, OneMoves
<1>5. threads'[w].at # "taken" /\ (OnWindow(w)' => OnWindow(w))
  BY <1>0, <1>2, <1>4 DEF Store!Idle, OnWindow
<1>6. OneWindowJob'
  BY <1>2, <1>4, <1>5, SameWindowJob DEF Alone
<1>7. ASSUME NEW f \in Lists, f # g
      PROVE  (OneWriterOf(f) => OneWriterOf(f)') /\ (OneWriterOf(f) => Now(f)' = Now(f))
  <2>1. ~Writing(w, f) /\ ~Writing(w, f)'
    BY <1>0, <1>2, <1>4, <1>7 DEF Writing, Store!Idle
  <2> QED
    BY <1>2, <1>4, <2>1, SameWriters
<1>8. ASSUME g \in Lists
      PROVE  OneWriterOf(g)' /\ Now(g)' = After(job, Now(g))
  <2>1. \A v \in Worker : ~Writing(v, g)
    BY <1>0, <1>2, <1>8, NobodyWrites
  <2>2. Now(g) = files[g].list
    BY <2>1, NowMeans
  <2>3. \A v \in Worker : Writing(v, g)' => v = w
    BY <1>4, <2>1 DEF Writing, OnlyMoves
  <2>4. OneWriterOf(g)'
    BY <2>3 DEF OneWriterOf
  <2>5. Now(g)' = list
    <3>1. CASE threads'[w] = [at |-> "read", job |-> job, list |-> list]
      <4>1. Writing(w, g)' /\ threads'[w].list = list
        BY <3>1 DEF Writing
      <4> QED
        BY <2>4, <4>1, NowMeansThen
    <3>2. CASE threads'[w] = Store!Idle /\ list = files[g].list
      <4>1. \A v \in Worker : ~Writing(v, g)'
        BY <2>3, <3>2 DEF Writing, Store!Idle
      <4> QED
        BY <1>2, <3>2, <4>1, NowMeansThen
    <3> QED
      BY <1>4, <3>1, <3>2
  <2> QED
    BY <2>2, <2>4, <2>5 DEF list
<1>9. Alone' /\ \A f \in Lists : Now(f)' = IF f = g THEN After(job, Now(f)) ELSE Now(f)
  <2>1. \A f \in Lists : OneWriterOf(f)
    BY WindowsHaveOneWriter DEF Alone, Lists
  <2>2. \A f \in Lists : OneWriterOf(f)'
    BY <1>7, <1>8, <2>1
  <2>3. \A f \in Lists : Now(f)' = IF f = g THEN After(job, Now(f)) ELSE Now(f)
    BY <1>7, <1>8, <2>1
  <2> QED
    BY <1>6, <2>2, <2>3 DEF Alone, Lists
<1> QED
  BY <1>0, <1>2, <1>4, <1>5, <1>9, JobIsRead DEF Does

(* To open a file and to close it changes nothing that matters.            *)
LEMMA WriteRests ==
  ASSUME NodeInv, Alone, NEW w \in Worker, Store!OpenFile(w) \/ Store!CloseFile(w)
  PROVE  Alone' /\ Rests
<1>0. PICK job : job = threads[w].job
  OBVIOUS
<1> DEFINE g == job.file
           t == [at |-> "opened", job |-> job, list |-> threads[w].list]
<1>1. ThreadsOK /\ FilesOK
  BY StoreParts DEF NodeInv
<1>2. threads[w].at \in {"read", "opened"} /\ queue' = queue
  BY DEF Store!OpenFile, Store!CloseFile
<1>3. threads[w] = [at |-> threads[w].at, job |-> job, list |-> threads[w].list]
      /\ g \in Store!File
  BY <1>0, <1>1, <1>2, WrittenJob, JobFields
<1>4. CASE Store!OpenFile(w)
  <2>1. threads' = [threads EXCEPT ![w] = t]
    <3>1. [threads[w] EXCEPT !.at = "opened"] = t
      BY <1>3
    <3> QED
      BY <1>4, <3>1 DEF Store!OpenFile
  <2>2. OnlyMoves(w) /\ threads'[w] = t
    BY <1>1, <2>1, OneMoves
  <2>3. t.at = "opened" /\ t.job = job /\ t.list = threads[w].list
    OBVIOUS
  <2> HIDE DEF t
  <2>4. \A f \in Store!File : f # g => files'[f] = files[f]
    BY <1>0, <1>1, <1>4 DEF Store!OpenFile, FilesOK
  <2>5. ASSUME NEW f \in Lists
        PROVE  (OneWriterOf(f) => OneWriterOf(f)') /\ (OneWriterOf(f) => Now(f)' = Now(f))
    <3>1. Writing(w, f)' <=> Writing(w, f)
      BY <1>0, <1>2, <2>2, <2>3 DEF Writing
    <3>2. threads'[w].list = threads[w].list
      BY <2>2, <2>3
    <3>3. ASSUME \A v \in Worker : ~Writing(v, f)
          PROVE  files'[f].list = files[f].list
      <4>1. f # g
        BY <1>0, <1>2, <3>3 DEF Writing
      <4> QED
        BY <2>4, <4>1 DEF Lists, Store!File
    <3> QED
      BY <2>2, <3>1, <3>2, <3>3, SameWriters
  <2>6. OneWindowJob' /\ Pending' = Pending
    <3>1. OnWindow(w)' => OnWindow(w)
      BY <1>0, <1>2, <2>2, <2>3 DEF OnWindow
    <3> QED
      BY <1>2, <2>2, <2>3, <3>1, SameWindowJob, SamePending DEF Alone
  <2> QED
    BY <2>5, <2>6, WindowsHaveOneWriter DEF Alone, Rests, Lists
<1>5. CASE Store!CloseFile(w)
  <2>1. OnlyMoves(w) /\ threads'[w] = Store!Idle
    BY <1>1, <1>5, OneMoves DEF Store!CloseFile
  <2>2. threads'[w].at = "idle"
    BY <2>1 DEF Store!Idle
  <2>3. /\ files'[g] = Store!Readable(threads[w].list)
        /\ \A f \in Store!File : f # g => files'[f] = files[f]
    BY <1>0, <1>1, <1>3, <1>5 DEF Store!CloseFile, FilesOK
  <2>4. ASSUME NEW f \in Lists, f # g
        PROVE  (OneWriterOf(f) => OneWriterOf(f)') /\ (OneWriterOf(f) => Now(f)' = Now(f))
    <3>1. ~Writing(w, f) /\ ~Writing(w, f)'
      BY <1>0, <2>2, <2>4 DEF Writing
    <3>2. files'[f].list = files[f].list
      BY <2>3, <2>4 DEF Lists, Store!File
    <3> QED
      BY <2>1, <3>1, <3>2, SameWriters
  <2>5. ASSUME OneWriterOf(g)
        PROVE  OneWriterOf(g)' /\ Now(g)' = Now(g)
    <3>1. Writing(w, g) /\ \A v \in Worker : Writing(v, g) => v = w
      BY <1>0, <1>2, <2>5 DEF OneWriterOf, Writing
    <3>2. \A v \in Worker : ~Writing(v, g)'
      BY <2>1, <2>2, <3>1 DEF Writing, OnlyMoves
    <3>3. Now(g)' = files'[g].list /\ Now(g) = threads[w].list
      BY <2>5, <3>1, <3>2, NowMeans, NowMeansThen
    <3> QED
      BY <2>3, <3>2, <3>3 DEF OneWriterOf, Store!Readable
  <2>6. OneWindowJob' /\ Pending' = Pending
    <3>1. OnWindow(w)' => OnWindow(w)
      BY <2>2 DEF OnWindow
    <3> QED
      BY <1>2, <2>1, <2>2, <3>1, SameWindowJob, SamePending DEF Alone
  <2>7. \A f \in Lists : OneWriterOf(f) => OneWriterOf(f)' /\ Now(f)' = Now(f)
    BY <2>4, <2>5
  <2> QED
    BY <2>6, <2>7, WindowsHaveOneWriter DEF Alone, Rests, Lists
<1> QED
  BY <1>4, <1>5


LEMMA WorkDoes ==
  ASSUME NodeInv, Alone, NEW w \in Worker, Store!Work(w)
  PROVE  Alone' /\ (Rests \/ \E j \in Pending : Does(j))
BY TakeRests, ReadDoes, WriteRests DEF Store!Work

-----------------------------------------------------------------------------
(* The work of the pool keeps what the lists promise.                      *)

LEMMA NowIsTyped ==
  ASSUME NodeInv, Alone, NEW f \in Lists
  PROVE  Now(f) \in Seq(EntryOf[f])
<1>1. FilesOK /\ ThreadsOK
  BY StoreParts DEF NodeInv
<1>2. f \in Store!File /\ OneWriterOf(f)
  BY WindowsHaveOneWriter DEF Lists, Store!File, Alone
<1>3. ASSUME NEW w \in Worker, Writing(w, f)
      PROVE  Now(f) \in Seq(EntryOf[f])
  <2>1. ListOf(f, threads[w].list) /\ Now(f) = threads[w].list
    BY <1>1, <1>2, <1>3, WrittenJob, NowMeans DEF Writing
  <2> QED
    BY <2>1 DEF ListOf
<1>4. ASSUME \A w \in Worker : ~Writing(w, f)
      PROVE  Now(f) \in Seq(EntryOf[f])
  <2>1. Now(f) = files[f].list
    BY <1>4, NowMeans
  <2> QED
    BY <1>1, <1>2, <2>1 DEF FilesOK, FileOK
<1> QED
  BY <1>3, <1>4

(* What is left to do when one job is done.                                *)
LEMMA LeftToDo ==
  ASSUME NEW j \in Pending, Does(j), NEW f
  PROVE  /\ ToSave(f)' \subseteq ToSave(f) /\ ToDrop(f)' \subseteq ToDrop(f)
         /\ j.file # f => ToSave(f)' = ToSave(f) /\ ToDrop(f)' = ToDrop(f)
         /\ j.file = f /\ j.do = "save" =>
              /\ j.entry \in ToSave(f) /\ ToSave(f) \subseteq ToSave(f)' \cup {j.entry}
              /\ ToDrop(f)' = ToDrop(f)
         /\ j.file = f /\ j.do = "remove" =>
              /\ j.third \in ToDrop(f) /\ ToDrop(f) \subseteq ToDrop(f)' \cup {j.third}
              /\ ToSave(f)' = ToSave(f)
BY DEF Does, ToSave, ToDrop

LEMMA SameAgreement ==
  ASSUME UNCHANGED <<dec, ids, promised>>
  PROVE  /\ \A e : Agrees(e)' <=> Agrees(e)
         /\ \A e : Names(e)' <=> Names(e)
BY DEF Agrees, PromisedTasks, Names, SameTask

LEMMA RecordsAfter ==
  ASSUME NodeInv, Alone, RecordsFollow, NEW j \in Pending, Does(j),
         UNCHANGED <<dec, ids, promised>>
  PROVE  RecordsFollow'
<1>1. j \in Job
  BY PendingAreJobs
<1>2. CASE j.file # "avdec"
  <2>1. Now("avdec")' = Now("avdec") /\ ToSave("avdec")' = ToSave("avdec")
    BY <1>2, LeftToDo DEF Does, Lists
  <2> QED
    BY <2>1, SameAgreement DEF RecordsFollow
<1>3. CASE j.file = "avdec"
  <2>0. PICK list, put : /\ list = Now("avdec")
                         /\ put = Store!WithEntry(list, j.entry, Store!Key("avdec"))
    OBVIOUS
  <2>1. /\ j.do = "save" /\ j.entry \in EntryOf["avdec"]
        /\ Now("avdec")' = put
    BY <1>1, <1>3, <2>0, JobFields DEF Does, Lists, After
  <2>2. list \in Seq(EntryOf["avdec"])
    BY <2>0, NowIsTyped DEF Lists
  <2>3. PICK p \in 1..Len(put) :
               /\ put[p] = j.entry
               /\ \A k \in 1..Len(put) \ {p} : k \in 1..Len(list) /\ put[k] = list[k]
               /\ p \in 1..Len(list) => list[p].codec = j.entry.codec
               /\ p \notin 1..Len(list) => \A k \in 1..Len(list) : list[k].codec # j.entry.codec
    <3>1. Store!Key("avdec") = "codec" /\ "avdec" \in Store!File
      BY DEF Store!Key, Store!File
    <3>2. put = Store!WithEntry(list, j.entry, Store!Key("avdec"))
      BY <2>0
    <3>3. IsPut(list, j.entry, Store!Key("avdec"), put)
      BY <2>1, <2>2, <3>1, <3>2, EntryIsPut
    <3> QED
      BY <3>1, <3>3 DEF IsPut
  <2>4. /\ \A e \in ToSave("avdec") : SameTask(e.rec, dec[e.codec])
        /\ \A k, m \in 1..Len(list) : list[k].codec = list[m].codec => k = m
        /\ \A k \in 1..Len(list) :
              Agrees(list[k]) \/ \E e \in ToSave("avdec") : e.codec = list[k].codec
    BY <2>0 DEF RecordsFollow
  <2>5. \A k \in 1..Len(put) \ {p} : put[k].codec # j.entry.codec
    BY <2>3, <2>4
  <2>6. \A k, m \in 1..Len(put) : put[k].codec = put[m].codec => k = m
    BY <2>3, <2>4, <2>5
  <2>7. Agrees(j.entry) /\ j.entry \in ToSave("avdec")
        /\ ToSave("avdec") \subseteq ToSave("avdec")' \cup {j.entry}
        /\ ToSave("avdec")' \subseteq ToSave("avdec")
    BY <1>3, <2>1, <2>4, LeftToDo DEF Agrees, SameTask
  <2>8. ASSUME NEW k \in 1..Len(put)
        PROVE  Agrees(put[k]) \/ \E e \in ToSave("avdec")' : e.codec = put[k].codec
    BY <2>3, <2>4, <2>5, <2>7
  <2>9. \A k \in 1..Len(put) :
           Agrees(put[k])' \/ \E e \in ToSave("avdec")' : e.codec = put[k].codec
    BY <2>8, SameAgreement
  <2>10. Now("avdec")' = put
    BY <2>1
  <2>11. \A e \in ToSave("avdec")' : SameTask(e.rec, dec'[e.codec])
    BY <2>4, <2>7
  <2> QED
    BY <2>6, <2>9, <2>10, <2>11 DEF RecordsFollow, SameTask
<1> QED
  BY <1>2, <1>3

LEMMA WindowsAfter ==
  ASSUME NodeInv, Alone, WindowsFollow, NEW j \in Pending, Does(j),
         UNCHANGED <<dec, ids, promised>>
  PROVE  WindowsFollow'
<1>0. PICK list, wins : list = Now("window") /\ wins = Now("window")'
  OBVIOUS
<1>1. j \in Job
  BY PendingAreJobs
<1>2. list \in Seq(EntryOf["window"]) /\ "window" \in Store!File
  BY <1>0, NowIsTyped DEF Lists, Store!File
<1>3. /\ \A e \in ToSave("window") : Names(e)
      /\ ToDrop("window") \cap promised = {}
      /\ \A k \in 1..Len(list) : Names(list[k]) \/ list[k].third \in ToDrop("window")
      /\ \A th \in promised : \/ \E k \in 1..Len(list) : list[k].third = th
                              \/ \E e \in ToSave("window") : e.third = th
  BY <1>0 DEF WindowsFollow
<1>4. ToSave("window")' \subseteq ToSave("window") /\ ToDrop("window")' \subseteq ToDrop("window")
  BY LeftToDo
<1>5. ASSUME \A k \in 1..Len(wins) : Names(wins[k]) \/ wins[k].third \in ToDrop("window")',
             \A th \in promised : \/ \E k \in 1..Len(wins) : wins[k].third = th
                                  \/ \E e \in ToSave("window")' : e.third = th
      PROVE  WindowsFollow'
  <2>1. \A e \in ToSave("window")' : Names(e)'
    BY <1>3, <1>4, SameAgreement
  <2>2. ToDrop("window")' \cap promised' = {}
    BY <1>3, <1>4
  <2>3. \A k \in 1..Len(wins) : Names(wins[k])' \/ wins[k].third \in ToDrop("window")'
    BY <1>5, SameAgreement
  <2>4. \A th \in promised' : \/ \E k \in 1..Len(wins) : wins[k].third = th
                              \/ \E e \in ToSave("window")' : e.third = th
    BY <1>5
  <2> QED
    BY <1>0, <2>1, <2>2, <2>3, <2>4 DEF WindowsFollow
<1>6. CASE j.file # "window"
  <2>1. wins = list /\ ToSave("window")' = ToSave("window") /\ ToDrop("window")' = ToDrop("window")
    BY <1>0, <1>6, LeftToDo DEF Does, Lists
  <2> QED
    BY <1>3, <1>5, <2>1
<1>7. CASE j.file = "window" /\ j.do = "save"
  <2>0. PICK put : put = Store!WithEntry(list, j.entry, Store!Key("window"))
    OBVIOUS
  <2>1. j.entry \in EntryOf["window"] /\ wins = put
    BY <1>0, <1>1, <1>7, <2>0, JobFields DEF Does, Lists, After
  <2>2. PICK p \in 1..Len(put) :
               /\ put[p] = j.entry
               /\ \A k \in 1..Len(put) \ {p} : k \in 1..Len(list) /\ put[k] = list[k]
               /\ \A k \in 1..Len(list) \ {p} : k \in 1..Len(put)
               /\ p \in 1..Len(list) => list[p].third = j.entry.third
    <3>1. Store!Key("window") = "third"
      BY DEF Store!Key
    <3>2. put = Store!WithEntry(list, j.entry, Store!Key("window"))
      BY <2>0
    <3>3. IsPut(list, j.entry, Store!Key("window"), put)
      BY <1>2, <2>1, <3>2, EntryIsPut
    <3> QED
      BY <3>1, <3>3 DEF IsPut
  <2>3. /\ j.entry \in ToSave("window")
        /\ ToSave("window") \subseteq ToSave("window")' \cup {j.entry}
        /\ ToDrop("window")' = ToDrop("window")
    BY <1>7, LeftToDo
  <2>4. \A k \in 1..Len(put) : Names(put[k]) \/ put[k].third \in ToDrop("window")'
    BY <1>3, <2>2, <2>3
  <2>5. ASSUME NEW th \in promised
        PROVE  \/ \E k \in 1..Len(put) : put[k].third = th
               \/ \E e \in ToSave("window")' : e.third = th
    <3>1. CASE th = j.entry.third
      BY <2>2, <3>1
    <3>2. CASE th # j.entry.third
      BY <1>3, <2>2, <2>3, <2>5, <3>2
    <3> QED
      BY <3>1, <3>2
  <2> QED
    BY <1>5, <2>1, <2>4, <2>5
<1>8. CASE j.file = "window" /\ j.do = "remove"
  <2>0. PICK left : left = Store!WithoutThird(list, j.third)
    OBVIOUS
  <2>1. wins = left
    BY <1>0, <1>8, <2>0 DEF Does, Lists, After
  <2>2. /\ \A k \in 1..Len(left) : \E m \in 1..Len(list) :
               left[k] = list[m] /\ list[m].third # j.third
        /\ \A m \in 1..Len(list) : list[m].third # j.third =>
               \E k \in 1..Len(left) : left[k] = list[m]
    <3>1. IsLeft(list, j.third, left)
      BY <1>2, <2>0, OthersAreKept
    <3> QED
      BY <3>1 DEF IsLeft
  <2>3. /\ j.third \in ToDrop("window")
        /\ ToDrop("window") \subseteq ToDrop("window")' \cup {j.third}
        /\ ToSave("window")' = ToSave("window")
    BY <1>8, LeftToDo
  <2>4. ASSUME NEW k \in 1..Len(left)
        PROVE  Names(left[k]) \/ left[k].third \in ToDrop("window")'
    <3>1. PICK m \in 1..Len(list) : left[k] = list[m] /\ list[m].third # j.third
      BY <2>2
    <3>2. Names(list[m]) \/ list[m].third \in ToDrop("window")
      BY <1>3
    <3> QED
      BY <2>3, <3>1, <3>2
  <2>5. ASSUME NEW th \in promised
        PROVE  \/ \E k \in 1..Len(left) : left[k].third = th
               \/ \E e \in ToSave("window")' : e.third = th
    <3>1. th # j.third
      BY <1>3, <2>3
    <3>2. CASE \E m \in 1..Len(list) : list[m].third = th
      <4>1. PICK m \in 1..Len(list) : list[m].third = th
        BY <3>2
      <4>2. PICK k \in 1..Len(left) : left[k] = list[m]
        BY <2>2, <3>1, <4>1
      <4> QED
        BY <4>1, <4>2
    <3> QED
      BY <1>3, <2>3, <3>2
  <2> QED
    BY <1>5, <2>1, <2>4, <2>5
<1> QED
  BY <1>1, <1>6, <1>7, <1>8, JobFields

(* The jobs on the file of audio streams, two of which may be under way.   *)
LEMMA OfAudioAfter ==
  ASSUME NEW list \in Seq(AudioEntry), OfAudio(list)
  PROVE  /\ \A th : OfAudio(Store!WithoutThird(list, th))
         /\ \A e \in AudioEntry : AudioOwner(e) =>
               OfAudio(Store!WithEntry(list, e, Store!Key("audio")))
<1>1. ASSUME NEW th
      PROVE  OfAudio(Store!WithoutThird(list, th))
  <2>1. \A k \in 1..Len(Store!WithoutThird(list, th)) : \E m \in 1..Len(list) :
           Store!WithoutThird(list, th)[k] = list[m]
    BY OthersAreKept DEF IsLeft
  <2> QED
    BY <2>1 DEF OfAudio
<1>2. ASSUME NEW e \in AudioEntry, AudioOwner(e)
      PROVE  OfAudio(Store!WithEntry(list, e, Store!Key("audio")))
  <2> DEFINE put == Store!WithEntry(list, e, Store!Key("audio"))
  <2>1. "audio" \in Store!File /\ EntryOf["audio"] = AudioEntry
    BY DEF Store!File, EntryOf
  <2>2. \E p \in 1..Len(put) :
           /\ put[p] = e
           /\ \A k \in 1..Len(put) \ {p} : k \in 1..Len(list) /\ put[k] = list[k]
    BY <2>1, EntryIsPut DEF IsPut
  <2> HIDE DEF put
  <2>3. \A k \in 1..Len(put) : AudioOwner(put[k])
    BY <1>2, <2>2 DEF OfAudio
  <2> QED
    BY <2>3 DEF OfAudio, put
<1> QED
  BY <1>1, <1>2

LEMMA AudioAfter ==
  ASSUME NodeInv, Alone, AudioApart, NEW w \in Worker, Store!Work(w)
  PROVE  AudioApart'
<1>0. PICK job : job = threads[w].job
  OBVIOUS
<1>1. FilesOK /\ ThreadsOK
  BY StoreParts DEF NodeInv
<1>2. ToSave("audio")' \subseteq ToSave("audio")
  BY WorkDoes, LeftToDo DEF Rests, ToSave
<1>3. /\ \A e \in ToSave("audio") : AudioOwner(e)
      /\ OfAudio(files["audio"].list)
      /\ \A v \in Worker : Writing(v, "audio") => OfAudio(threads[v].list)
  BY DEF AudioApart
<1>4. ASSUME OnlyMoves(w), OfAudio(files'["audio"].list),
             Writing(w, "audio")' => OfAudio(threads'[w].list)
      PROVE  AudioApart'
  <2>1. \A v \in Worker : Writing(v, "audio")' => OfAudio(threads'[v].list)
    BY <1>3, <1>4 DEF OnlyMoves, Writing
  <2>2. \A e \in ToSave("audio")' : AudioOwner(e)
    BY <1>2, <1>3
  <2> QED
    BY <1>4, <2>1, <2>2 DEF AudioApart, OfAudio
<1>5. ASSUME NEW t, threads' = [threads EXCEPT ![w] = t], files' = files,
             t.at \in {"idle", "taken"}
      PROVE  AudioApart'
  <2>1. OnlyMoves(w) /\ threads'[w] = t
    BY <1>1, <1>5, OneMoves
  <2> QED
    BY <1>3, <1>4, <1>5, <2>1 DEF Writing
<1>6. CASE Store!Take(w) \/ Store!NothingToRemove(w)
  BY <1>5, <1>6 DEF Store!Take, Store!NothingToRemove, Store!Idle
<1>7. CASE Store!ReadToSave(w) \/ Store!ReadToRemove(w)
  <2>1. threads[w].at = "taken" /\ files' = files
    BY <1>7 DEF Store!ReadToSave, Store!ReadToRemove
  <2>2. job \in Job /\ job \in Pending
    BY <1>0, <1>1, <2>1, TakenJob DEF Pending
  <2>3. PICK list : /\ threads' = [threads EXCEPT ![w] = [at |-> "read", job |-> job, list |-> list]]
                    /\ \/ /\ job.do = "save"
                          /\ list = Store!WithEntry(files[job.file].list, job.entry, Store!Key(job.file))
                       \/ list = Store!WithoutThird(files[job.file].list, job.third)
    BY <1>0, <1>1, <1>7
       DEF Store!ReadToSave, Store!ReadToRemove, Store!HasRead, Store!ReadBack, ThreadsOK
  <2>4. OnlyMoves(w) /\ threads'[w] = [at |-> "read", job |-> job, list |-> list]
    BY <1>1, <2>3, OneMoves
  <2>5. ASSUME job.file = "audio"
        PROVE  OfAudio(list)
    <3>1. files["audio"].list \in Seq(AudioEntry)
      BY <1>1, FileLists DEF AudioFile
    <3>2. job.do = "save" => job.entry \in AudioEntry /\ AudioOwner(job.entry)
      BY <1>3, <2>2, <2>5, JobFields DEF ToSave, EntryOf
    <3> QED
      BY <1>3, <2>3, <2>5, <3>1, <3>2, OfAudioAfter
  <2>6. Writing(w, "audio")' => OfAudio(threads'[w].list)
    <3>1. threads'[w].job = job /\ threads'[w].list = list
      BY <2>4
    <3> QED
      BY <2>5, <3>1 DEF Writing
  <2> QED
    BY <1>3, <1>4, <2>1, <2>4, <2>6
<1>8. CASE Store!OpenFile(w)
  <2> DEFINE t == [at |-> "opened", job |-> job, list |-> threads[w].list]
  <2>1. threads[w].at = "read" /\ threads[w] = [at |-> "read", job |-> job, list |-> threads[w].list]
    BY <1>0, <1>1, <1>8, WrittenJob DEF Store!OpenFile
  <2>2. threads' = [threads EXCEPT ![w] = t]
    <3>1. [threads[w] EXCEPT !.at = "opened"] = t
      BY <2>1
    <3> QED
      BY <1>8, <3>1 DEF Store!OpenFile
  <2>3. OnlyMoves(w) /\ threads'[w] = t
    BY <1>1, <2>2, OneMoves
  <2>4. Writing(w, "audio")' => OfAudio(threads'[w].list)
    BY <1>0, <1>3, <2>1, <2>3 DEF Writing
  <2>5. OfAudio(files'["audio"].list)
    <3>1. files' = [files EXCEPT ![job.file] = Store!Unreadable]
      BY <1>0, <1>8 DEF Store!OpenFile
    <3>2. files'["audio"].list \in {files["audio"].list, <<>>}
      BY <1>1, <3>1 DEF Store!Unreadable, FilesOK, Store!File
    <3>3. OfAudio(<<>>)
      BY DEF OfAudio
    <3> QED
      BY <1>3, <3>2, <3>3
  <2> QED
    BY <1>4, <2>3, <2>4, <2>5
<1>9. CASE Store!CloseFile(w)
  <2>1. OnlyMoves(w) /\ threads'[w] = Store!Idle
    BY <1>1, <1>9, OneMoves DEF Store!CloseFile
  <2>2. ~Writing(w, "audio")'
    BY <2>1 DEF Writing, Store!Idle
  <2>3. OfAudio(files'["audio"].list)
    <3>1. /\ files' = [files EXCEPT ![job.file] = Store!Readable(threads[w].list)]
          /\ threads[w].at = "opened"
      BY <1>0, <1>9 DEF Store!CloseFile
    <3>2. job.file = "audio" => Writing(w, "audio")
      BY <1>0, <3>1 DEF Writing
    <3>3. files'["audio"].list = IF job.file = "audio" THEN threads[w].list
                                                       ELSE files["audio"].list
      BY <1>1, <3>1 DEF Store!Readable, FilesOK, Store!File
    <3> QED
      BY <1>3, <3>2, <3>3
  <2> QED
    BY <1>4, <2>1, <2>2, <2>3
<1> QED
  BY <1>6, <1>7, <1>8, <1>9 DEF Store!Work

LEMMA WorkFollows ==
  ASSUME RecoveryInv, NEW w \in Worker, Work(w)
  PROVE  RecoveryInv'
<1>1. NodeInv /\ Alone /\ Store!Work(w) /\ NodeInv'
  BY WorkKeeps DEF RecoveryInv, JobsFollow, Alone, Work
<1>2. UNCHANGED <<dec, ids, promised, aoCodec>>
  BY DEF Work, vars, taskVars
<1>3. Alone' /\ AudioApart'
  BY <1>1, WorkDoes, AudioAfter DEF RecoveryInv, JobsFollow
<1>4. OwnersOK'
  BY <1>2 DEF RecoveryInv, OwnersOK, WindowOwners
<1>5. RecordsFollow' /\ WindowsFollow'
  <2>1. CASE Rests
    <3>1. /\ Now("avdec")' = Now("avdec") /\ Now("window")' = Now("window")
          /\ ToSave("avdec")' = ToSave("avdec") /\ ToSave("window")' = ToSave("window")
          /\ ToDrop("window")' = ToDrop("window")
      BY <2>1 DEF Rests, Lists, ToSave, ToDrop
    <3>2. RecordsFollow'
      BY <1>2, <3>1, SameAgreement DEF RecoveryInv, JobsFollow, RecordsFollow
    <3>3. WindowsFollow'
      BY <1>2, <3>1, SameAgreement DEF RecoveryInv, JobsFollow, WindowsFollow
    <3> QED
      BY <3>2, <3>3
  <2>2. CASE \E j \in Pending : Does(j)
    BY <1>1, <1>2, <2>2, RecordsAfter, WindowsAfter DEF RecoveryInv, JobsFollow
  <2> QED
    BY <1>1, <2>1, <2>2, WorkDoes
<1> QED
  BY <1>1, <1>3, <1>4, <1>5 DEF RecoveryInv, JobsFollow, Alone

-----------------------------------------------------------------------------
(* A handler and the jobs it queues.                                       *)

(* The requests of a handler.                                              *)
Asks == {saves[k] : k \in 1..Len(saves)}

(* A handler tells the files what it changes: a task that it does not save *)
(* is not closed and, if it is a promised window's, is as it was before;   *)
(* the owner of a window is saved or dropped when the node's promise to it *)
(* changes.                                                                *)
Told ==
  /\ \A i \in CodecID : SaveAVDec(i) \notin Asks' =>
        /\ dec[i].open # 0 => dec'[i].open # 0
        /\ i \in PromisedTasks' => i \in PromisedTasks /\ SameTask(dec'[i], dec[i])
  /\ \A k, m \in 1..Len(saves') :
        saves'[k].job \in {"window", "closeWindow"} /\ saves'[m].job \in {"window", "closeWindow"}
          => k = m
  /\ \A s \in Asks' :
        /\ s.job = "window" => s.third \in promised' /\ s.codec = ids'.third[s.third]
        /\ s.job = "closeWindow" => s.third \notin promised'
        /\ s.job = "audio" => AudioOwner(s)
  /\ \A th \in promised' : \/ \E s \in Asks' : s.job = "window" /\ s.third = th
                           \/ th \in promised /\ ids'.third[th] = ids.third[th]
  /\ \A th \in promised : \/ th \in promised' /\ ids'.third[th] = ids.third[th]
                          \/ \E s \in Asks' : s.job = "closeWindow" /\ s.third = th

(* With no job under way the lists are those of the files.                 *)
LEMMA NothingUnderWay ==
  ASSUME Store!Drained
  PROVE  /\ Pending = {} /\ \A f : Now(f) = files[f].list
         /\ \A f : ToSave(f) = {} /\ ToDrop(f) = {}
<1>1. queue = <<>> /\ \A w \in Worker : threads[w].at = "idle"
  BY DEF Store!Drained
<1>2. Pending = {}
  BY <1>1 DEF Pending
<1>3. \A f : Now(f) = files[f].list
  BY <1>1, NowMeans DEF Writing
<1> QED
  BY <1>2, <1>3 DEF ToSave, ToDrop

(* What becomes of a request.                                              *)
LEMMA JobKinds ==
  ASSUME NEW s \in Request
  PROVE  /\ JobOf(s).file = "avdec" =>
              /\ s.job = "avdec" /\ s = SaveAVDec(s.codec) /\ JobOf(s).do = "save"
              /\ JobOf(s).entry = [codec |-> s.codec, rec |-> dec'[s.codec]]
         /\ JobOf(s).file = "window" => s.job \in {"window", "closeWindow"}
         /\ JobOf(s).file = "window" /\ JobOf(s).do = "save" =>
              /\ s.job = "window"
              /\ JobOf(s).entry = [third |-> s.third, codec |-> s.codec, src |-> dec'[s.codec].crop]
         /\ JobOf(s).file = "window" /\ JobOf(s).do = "remove" =>
              s.job = "closeWindow" /\ JobOf(s).third = s.third
         /\ JobOf(s).file = "audio" /\ JobOf(s).do = "save" =>
              /\ s.job = "audio" /\ JobOf(s).entry.third = s.third
              /\ JobOf(s).entry.codec = s.codec
         /\ s.job = "avdec" => JobOf(s).file = "avdec"
         /\ s.job = "window" => JobOf(s).file = "window" /\ JobOf(s).do = "save"
         /\ s.job = "closeWindow" => JobOf(s).file = "window" /\ JobOf(s).do = "remove"
<1>1. CASE s \in [job : {"avdec"}, codec : CodecID]
  BY <1>1 DEF JobOf, Store!Save, SaveAVDec
<1>2. CASE s \in [job : {"window"}, third : ThirdID, codec : CodecID]
  BY <1>2 DEF JobOf, Store!Save
<1>3. CASE s \in [job : {"audio"}, third : ThirdID, codec : CodecID \cup {0}, ao : AOChn]
  BY <1>3 DEF JobOf, Store!Save
<1>4. CASE s \in [job : {"closeWindow", "closeAudio"}, third : ThirdID]
  BY <1>4 DEF JobOf, Store!Remove
<1> QED
  BY <1>1, <1>2, <1>3, <1>4 DEF Request

(* The jobs under way after a handler, when there were none before.        *)
LEMMA WhatIsAsked ==
  ASSUME Asks' \subseteq Request, Pending' = {JobOf(s) : s \in Asks'}
  PROVE  /\ \A e \in ToSave("avdec")' : \E s \in Asks' : e = [codec |-> s.codec, rec |-> dec'[s.codec]]
         /\ \A i : SaveAVDec(i) \in Asks' => \E e \in ToSave("avdec")' : e.codec = i
         /\ \A e \in ToSave("window")' : \E s \in Asks' :
               s.job = "window" /\ e.third = s.third /\ e.codec = s.codec
         /\ \A s \in Asks' : s.job = "window" => \E e \in ToSave("window")' : e.third = s.third
         /\ \A th \in ToDrop("window")' : \E s \in Asks' : s.job = "closeWindow" /\ s.third = th
         /\ \A s \in Asks' : s.job = "closeWindow" => s.third \in ToDrop("window")'
         /\ \A e \in ToSave("audio")' : \E s \in Asks' :
               s.job = "audio" /\ e.third = s.third /\ e.codec = s.codec
<1>1. ASSUME NEW f, NEW e \in ToSave(f)'
      PROVE  \E s \in Asks' : s \in Request /\ JobOf(s).file = f /\ JobOf(s).do = "save"
                              /\ e = JobOf(s).entry
  <2>1. PICK j \in Pending' : j.file = f /\ j.do = "save" /\ e = j.entry
    BY <1>1 DEF ToSave
  <2>2. PICK s \in Asks' : j = JobOf(s)
    BY <2>1
  <2> QED
    BY <2>1, <2>2
<1>2. ASSUME NEW e \in ToSave("avdec")'
      PROVE  \E s \in Asks' : e = [codec |-> s.codec, rec |-> dec'[s.codec]]
  <2>1. PICK s \in Asks' : s \in Request /\ JobOf(s).file = "avdec" /\ JobOf(s).do = "save"
                           /\ e = JobOf(s).entry
    BY <1>1, <1>2
  <2> QED
    BY <2>1, JobKinds
<1>3. ASSUME NEW i, SaveAVDec(i) \in Asks'
      PROVE  \E e \in ToSave("avdec")' : e.codec = i
  <2>1. PICK s \in Asks' : s = SaveAVDec(i)
    BY <1>3
  <2>2. s \in Request /\ s.job = "avdec" /\ s.codec = i
    BY <2>1 DEF SaveAVDec
  <2>3. JobOf(s).file = "avdec"
    BY <2>2, JobKinds
  <2>4. JobOf(s).do = "save" /\ JobOf(s).entry = [codec |-> s.codec, rec |-> dec'[s.codec]]
    BY <2>2, <2>3, JobKinds
  <2>5. PICK j \in Pending' : j = JobOf(s)
    OBVIOUS
  <2>6. j.entry \in ToSave("avdec")'
    BY <2>3, <2>4, <2>5 DEF ToSave
  <2> QED
    BY <2>2, <2>4, <2>5, <2>6
<1>4. ASSUME NEW e \in ToSave("window")'
      PROVE  \E s \in Asks' : s.job = "window" /\ e.third = s.third /\ e.codec = s.codec
  <2>1. PICK s \in Asks' : s \in Request /\ JobOf(s).file = "window" /\ JobOf(s).do = "save"
                           /\ e = JobOf(s).entry
    BY <1>1, <1>4
  <2>2. s.job = "window" /\ e = [third |-> s.third, codec |-> s.codec, src |-> dec'[s.codec].crop]
    BY <2>1, JobKinds
  <2> QED
    BY <2>2
<1>5. ASSUME NEW s \in Asks', s.job = "window"
      PROVE  \E e \in ToSave("window")' : e.third = s.third
  <2>1. s \in Request
    OBVIOUS
  <2>2. JobOf(s).file = "window" /\ JobOf(s).do = "save"
    BY <1>5, <2>1, JobKinds
  <2>3. JobOf(s).entry = [third |-> s.third, codec |-> s.codec, src |-> dec'[s.codec].crop]
    BY <2>1, <2>2, JobKinds
  <2>4. PICK j \in Pending' : j = JobOf(s)
    OBVIOUS
  <2>5. j.entry \in ToSave("window")'
    BY <2>2, <2>4 DEF ToSave
  <2> QED
    BY <2>3, <2>4, <2>5
<1>6. ASSUME NEW th \in ToDrop("window")'
      PROVE  \E s \in Asks' : s.job = "closeWindow" /\ s.third = th
  <2>1. PICK j \in Pending' : j.file = "window" /\ j.do = "remove" /\ th = j.third
    BY <1>6 DEF ToDrop
  <2>2. PICK s \in Asks' : s \in Request /\ j = JobOf(s)
    BY <2>1
  <2> QED
    BY <2>1, <2>2, JobKinds
<1>7. ASSUME NEW s \in Asks', s.job = "closeWindow"
      PROVE  s.third \in ToDrop("window")'
  <2>1. s \in Request
    OBVIOUS
  <2>2. JobOf(s).file = "window" /\ JobOf(s).do = "remove"
    BY <1>7, <2>1, JobKinds
  <2>3. JobOf(s).third = s.third
    BY <2>1, <2>2, JobKinds
  <2>4. PICK j \in Pending' : j = JobOf(s)
    OBVIOUS
  <2> QED
    BY <2>2, <2>3, <2>4 DEF ToDrop
<1>8. ASSUME NEW e \in ToSave("audio")'
      PROVE  \E s \in Asks' :
               s.job = "audio" /\ e.third = s.third /\ e.codec = s.codec
  <2>1. PICK s \in Asks' : s \in Request /\ JobOf(s).file = "audio" /\ JobOf(s).do = "save"
                           /\ e = JobOf(s).entry
    BY <1>1, <1>8
  <2> QED
    BY <2>1, JobKinds
<1> QED
  BY <1>2, <1>3, <1>4, <1>5, <1>6, <1>7, <1>8

LEMMA SubmitFollows ==
  ASSUME RecoveryInv, NodeInv', OwnersOK', Told, saves' \in Seq(Request), Store!Drained,
         Store!Submit([k \in 1..Len(saves') |-> JobOf(saves'[k])])
  PROVE  RecoveryInv'
<1> DEFINE n == Len(saves')
           jobs == [k \in 1..n |-> JobOf(saves'[k])]
<1>1. n \in Nat /\ \A k \in 1..n : saves'[k] \in Request /\ saves'[k] \in Asks'
  BY DEF Asks
<1>2. \A s \in Asks' : s \in Request /\ \E k \in 1..n : saves'[k] = s
  BY DEF Asks
<1>3. queue' = jobs /\ files' = files /\ threads' = threads
  <2>1. jobs \in Seq({JobOf(saves'[k]) : k \in 1..n})
    BY <1>1
  <2>2. queue = <<>>
    BY DEF Store!Drained
  <2>3. <<>> \o jobs = jobs
    BY <2>1
  <2> QED
    BY <2>2, <2>3 DEF Store!Submit
<1>4. Len(queue') = n /\ \A k \in 1..n : queue'[k] = JobOf(saves'[k])
  BY <1>1, <1>3
<1> HIDE DEF jobs, n
<1>5. \A w \in Worker : threads'[w].at = "idle"
  BY <1>3 DEF Store!Drained
<1>6. /\ \A f : Now(f)' = files'[f].list
      /\ \A f, w : w \in Worker => ~Writing(w, f)'
  <2>1. \A f, w : w \in Worker => ~Writing(w, f)'
    BY <1>5 DEF Writing
  <2> QED
    BY <2>1, NowMeansThen
<1>7. \A f : Now(f)' = Now(f) /\ ToSave(f) = {} /\ ToDrop(f) = {}
  BY <1>3, <1>6, NothingUnderWay
<1>8. Pending' = {JobOf(s) : s \in Asks'}
  <2>1. Pending' = {queue'[k] : k \in 1..Len(queue')}
    BY <1>5 DEF Pending
  <2> QED
    BY <1>1, <1>2, <1>4, <2>1
<1>9. OneWriterOf("avdec")' /\ OneWindowJob'
  <2>1. \A k, m \in 1..Len(queue') : queue'[k].file = "window" /\ queue'[m].file = "window" => k = m
    <3>1. \A k \in 1..n : queue'[k].file = "window" => saves'[k].job \in {"window", "closeWindow"}
      BY <1>1, <1>4, JobKinds
    <3>2. \A k, m \in 1..n : saves'[k].job \in {"window", "closeWindow"}
                             /\ saves'[m].job \in {"window", "closeWindow"} => k = m
      BY DEF Told, n
    <3> QED
      BY <1>4, <3>1, <3>2
  <2>2. \A w \in Worker : ~OnWindow(w)'
    BY <1>5 DEF OnWindow
  <2> QED
    BY <1>6, <2>1, <2>2 DEF OneWriterOf, OneWindowJob
<1>10. Asks' \subseteq Request
  BY <1>2
<1>11. RecordsFollow'
  <2>1. \A e \in ToSave("avdec")' : SameTask(e.rec, dec'[e.codec])
    <3>1. ASSUME NEW e \in ToSave("avdec")'
          PROVE  SameTask(e.rec, dec'[e.codec])
      <4>1. PICK s \in Asks' : e = [codec |-> s.codec, rec |-> dec'[s.codec]]
        BY <1>8, <1>10, <3>1, WhatIsAsked
      <4> QED
        BY <4>1 DEF SameTask
    <3> QED
      BY <3>1
  <2>2. \A i \in CodecID : SaveAVDec(i) \in Asks' => \E e \in ToSave("avdec")' : e.codec = i
    BY <1>8, <1>10, WhatIsAsked
  <2>3. PICK list : list = Now("avdec") /\ list = Now("avdec")'
    BY <1>7
  <2>4. /\ \A k, m \in 1..Len(list) : list[k].codec = list[m].codec => k = m
        /\ \A k \in 1..Len(list) : Agrees(list[k])
    BY <1>7, <2>3 DEF RecoveryInv, JobsFollow, RecordsFollow
  <2>5. \A k \in 1..Len(list) : list[k].codec \in CodecID
    <3>1. list \in Seq(EntryOf["avdec"])
      BY <2>3, NowIsTyped DEF Lists, RecoveryInv, JobsFollow, Alone
    <3>2. \A e \in EntryOf["avdec"] : e.codec \in CodecID
      BY DEF EntryOf, RecordEntry
    <3> QED
      BY <3>1, <3>2
  <2>6. ASSUME NEW k \in 1..Len(list)
        PROVE  Agrees(list[k])' \/ \E e \in ToSave("avdec")' : e.codec = list[k].codec
    <3>1. CASE SaveAVDec(list[k].codec) \in Asks'
      BY <2>2, <2>5, <3>1
    <3>2. CASE SaveAVDec(list[k].codec) \notin Asks'
      <4>1. PICK e, i : e = list[k] /\ i = e.codec
        OBVIOUS
      <4>2. i \in CodecID /\ Agrees(e) /\ SaveAVDec(i) \notin Asks'
        BY <2>4, <2>5, <3>2, <4>1
      <4>3. /\ e.rec.open # 0 => dec'[i].open # 0
            /\ i \in PromisedTasks' => SameTask(e.rec, dec'[i])
        BY <4>1, <4>2 DEF Told, Agrees, SameTask
      <4>4. Agrees(e)'
        BY <4>1, <4>3 DEF Agrees, SameTask
      <4> QED
        BY <4>1, <4>4
    <3> QED
      BY <3>1, <3>2
  <2> QED
    BY <2>1, <2>3, <2>4, <2>6 DEF RecordsFollow, SameTask
<1>12. WindowsFollow'
  <2>1. \A e \in ToSave("window")' : Names(e)'
    <3>1. ASSUME NEW e \in ToSave("window")'
          PROVE  Names(e)'
      <4>1. PICK s \in Asks' : s.job = "window" /\ e.third = s.third /\ e.codec = s.codec
        BY <1>8, <1>10, WhatIsAsked
      <4> QED
        BY <4>1 DEF Told, Names
    <3> QED
      BY <3>1
  <2>2. ToDrop("window")' \cap promised' = {}
    <3>1. \A th \in ToDrop("window")' : \E s \in Asks' : s.job = "closeWindow" /\ s.third = th
      BY <1>8, <1>10, WhatIsAsked
    <3> QED
      BY <3>1 DEF Told
  <2>3. \A s \in Asks' : s.job = "closeWindow" => s.third \in ToDrop("window")'
    BY <1>8, <1>10, WhatIsAsked
  <2>4. \A s \in Asks' : s.job = "window" => \E e \in ToSave("window")' : e.third = s.third
    BY <1>8, <1>10, WhatIsAsked
  <2>5. PICK list : list = Now("window") /\ list = Now("window")'
    BY <1>7
  <2>6. /\ \A k \in 1..Len(list) : Names(list[k])
        /\ \A th \in promised : \E k \in 1..Len(list) : list[k].third = th
    BY <1>7, <2>5 DEF RecoveryInv, JobsFollow, WindowsFollow
  <2>7. ASSUME NEW k \in 1..Len(list)
        PROVE  Names(list[k])' \/ list[k].third \in ToDrop("window")'
    <3>1. PICK e : e = list[k]
      OBVIOUS
    <3>2. e.third \in promised /\ e.codec = ids.third[e.third]
      BY <2>6, <3>1 DEF Names
    <3>3. \/ e.third \in promised' /\ ids'.third[e.third] = ids.third[e.third]
          \/ e.third \in ToDrop("window")'
      BY <2>3, <3>2 DEF Told
    <3> QED
      BY <3>1, <3>2, <3>3 DEF Names
  <2>8. \A th \in promised' : \/ \E k \in 1..Len(list) : list[k].third = th
                              \/ \E e \in ToSave("window")' : e.third = th
    BY <2>4, <2>6 DEF Told
  <2> QED
    BY <2>1, <2>2, <2>5, <2>7, <2>8 DEF WindowsFollow
<1>13. AudioApart'
  <2>1. \A e \in ToSave("audio")' : \E s \in Asks' :
               s.job = "audio" /\ e.third = s.third /\ e.codec = s.codec
    BY <1>8, <1>10, WhatIsAsked
  <2>2. \A e \in ToSave("audio")' : AudioOwner(e)
    BY <2>1 DEF Told, AudioOwner
  <2>3. OfAudio(files'["audio"].list)
    BY <1>3 DEF RecoveryInv, JobsFollow, AudioApart
  <2> QED
    BY <1>6, <2>2, <2>3 DEF AudioApart, OfAudio
<1> QED
  BY <1>9, <1>11, <1>12, <1>13 DEF RecoveryInv, JobsFollow

-----------------------------------------------------------------------------
(* What the handlers of this client tell.                                  *)

(* The tables of the owners, by what may change in them.                   *)
LEMMA OwnersApart ==
  ASSUME NodeInv, OwnersOK
  PROVE  /\ WindowID \cap AudioID = {} \/ ClientMistakes
         /\ \A th \in WindowOwners : ids.third[th] \in AuViTaskID \cap ids.used
                                     /\ ids.third[th] \in CodecID
         /\ PromisedTasks \subseteq AuViTaskID \cap ids.used
         /\ AuViTaskID \cap AudioTaskID = {} /\ 0 \notin AuViTaskID
         /\ dec \in [CodecID -> AVDec]
<1>1. AuViTaskID \cap AudioTaskID = {} /\ 0 \notin AuViTaskID
  BY TaskIDAssumption
<1> QED
  BY <1>1, HandlerAssumption DEF OwnersOK, PromisedTasks, CodecID, NodeInv, MemoryOK

(* A handler that lends nothing and closes nothing.                        *)
LEMMA QuietTells ==
  ASSUME NodeInv, OwnersOK, ids'.third = ids.third, ids'.used = ids.used, aoCodec' = aoCodec,
         \A i \in CodecID : SameTask(dec'[i], dec[i]), saves' = <<>>, promised' = promised
  PROVE  OwnersOK' /\ Told
<1>1. OwnersOK'
  BY OwnersApart DEF OwnersOK, WindowOwners, SameTask
<1>2. Asks' = {} /\ Len(saves') = 0
  BY DEF Asks
<1>3. PromisedTasks' = PromisedTasks
  BY DEF PromisedTasks
<1> QED
  BY <1>1, <1>2, <1>3 DEF Told, SameTask

(* The requests of a window command that is answered.                      *)
LEMMA WindowAsks ==
  ASSUME NEW i, NEW th, saves' = <<SaveAVDec(i), SaveWindow(th, i)>>
  PROVE  /\ Asks' = {SaveAVDec(i), SaveWindow(th, i)}
         /\ \A k, m \in 1..Len(saves') :
               saves'[k].job \in {"window", "closeWindow"}
               /\ saves'[m].job \in {"window", "closeWindow"} => k = m
         /\ SaveAVDec(i).job = "avdec"
         /\ SaveWindow(th, i).job = "window" /\ SaveWindow(th, i).third = th
         /\ SaveWindow(th, i).codec = i
<1>1. Len(saves') = 2 /\ saves'[1] = SaveAVDec(i) /\ saves'[2] = SaveWindow(th, i)
  OBVIOUS
<1>2. /\ SaveAVDec(i).job = "avdec" /\ SaveWindow(th, i).job = "window"
      /\ SaveWindow(th, i).third = th /\ SaveWindow(th, i).codec = i
  BY DEF SaveAVDec, SaveWindow
<1>3. 1..Len(saves') = {1, 2}
  BY <1>1
<1> QED
  BY <1>1, <1>2, <1>3 DEF Asks

LEMMA OpenDoneOwns ==
  ASSUME NodeInv, OwnersOK, NEW th \in WindowID, NEW src \in SrcVideo, OpenDone(th, src)
  PROVE  LET id == FindNewID(ids, th, "auvi")
         IN /\ id \in AuViTaskID \ ids.used /\ id \in CodecID
            /\ th \notin DOMAIN ids.third /\ th \notin promised
            /\ ids'.third = Put(ids.third, th, id) /\ ids'.used = ids.used \cup {id}
            /\ dec'[id].open = 2 /\ dec'[id].swms
            /\ \A i \in CodecID \ {id} : dec'[i] = dec[i]
            /\ promised' \subseteq promised \cup {th} => OwnersOK'
<1>0. PICK id : id = FindNewID(ids, th, "auvi")
  OBVIOUS
<1>1. id \in AuViTaskID \ ids.used /\ id \in CodecID /\ th \notin DOMAIN ids.third
  BY <1>0, FoundIsFree DEF OpenDone, TaskType, Pool, CodecID
<1>2. ids'.third = Put(ids.third, th, id) /\ ids'.used = ids.used \cup {id}
  BY <1>0 DEF OpenDone, Lend
<1>3. /\ dec'[id].open = 2 /\ dec'[id].swms
      /\ \A i \in CodecID \ {id} : dec'[i] = dec[i]
  <2>1. dec' = Opened(id, src) /\ dec \in [CodecID -> AVDec] /\ dec[id] \in AVDec
    BY <1>0, <1>1 DEF OpenDone, NodeInv, MemoryOK
  <2> QED
    BY <1>1, <2>1 DEF Opened, AVDec
<1>4. DOMAIN ids'.third = DOMAIN ids.third \cup {th} /\ ids'.third[th] = id
      /\ \A x \in DOMAIN ids.third : ids'.third[x] = ids.third[x]
  BY <1>1, <1>2 DEF Put
<1>5. WindowOwners' = WindowOwners \cup {th} /\ th \notin WindowOwners
  BY <1>1, <1>4 DEF WindowOwners
<1>6. th \notin promised
  BY <1>5 DEF OwnersOK
<1>7. ASSUME promised' \subseteq promised \cup {th}
      PROVE  OwnersOK'
  <2>1. \A x \in WindowOwners' :
           \/ x = th /\ ids'.third[x] = id
           \/ x # th /\ x \in WindowOwners /\ ids'.third[x] = ids.third[x]
    <3>1. WindowOwners \subseteq DOMAIN ids.third
      BY DEF WindowOwners
    <3> QED
      BY <1>4, <1>5, <3>1
  <2>2. \A x \in WindowOwners : /\ ids.third[x] # id
                                /\ ids.third[x] \in CodecID
                                /\ dec'[ids.third[x]] = dec[ids.third[x]]
    BY <1>1, <1>3, OwnersApart
  <2>3. \A x \in WindowOwners' :
           /\ ids'.third[x] \in AuViTaskID \cap ids'.used
           /\ dec'[ids'.third[x]].open = 2 /\ dec'[ids'.third[x]].swms
    BY <1>1, <1>2, <1>3, <2>1, <2>2 DEF OwnersOK
  <2>4. \A x, y \in WindowOwners' : ids'.third[x] = ids'.third[y] => x = y
    BY <2>1, <2>2 DEF OwnersOK
  <2>5. \A x \in DOMAIN ids'.third \ WindowID : ids'.third[x] \in AudioTaskID \cup {0}
    BY <1>4 DEF OwnersOK
  <2>6. aoCodec' = aoCodec
    BY DEF OpenDone
  <2>7. promised' \subseteq WindowOwners'
    BY <1>5, <1>7 DEF OwnersOK
  <2> QED
    BY <1>4, <2>3, <2>4, <2>5, <2>6, <2>7 DEF OwnersOK
<1> QED
  BY <1>0, <1>1, <1>2, <1>3, <1>6, <1>7

LEMMA OpenTells ==
  ASSUME NodeInv, OwnersOK, NEW th \in WindowID, NEW src \in SrcVideo,
         \/ OpenWindow(th, src) /\ promised' = promised \cup {th}
         \/ CreateWindow(th, src) /\ promised' = promised
  PROVE  OwnersOK' /\ Told
<1>0. PICK id : id = FindNewID(ids, th, "auvi")
  OBVIOUS
<1>1. OpenDone(th, src)
  BY DEF OpenWindow, CreateWindow
<1>2. /\ id \in AuViTaskID \ ids.used /\ id \in CodecID
      /\ th \notin DOMAIN ids.third /\ th \notin promised
      /\ ids'.third = Put(ids.third, th, id)
      /\ dec'[id].open = 2 /\ dec'[id].swms
      /\ \A i \in CodecID \ {id} : dec'[i] = dec[i]
      /\ OwnersOK'
  BY <1>0, <1>1, OpenDoneOwns
<1>3. promised \subseteq DOMAIN ids.third
  BY DEF OwnersOK, WindowOwners
<1>4. ids'.third[th] = id /\ \A x \in promised : ids'.third[x] = ids.third[x]
  BY <1>2, <1>3 DEF Put
<1>5. \A i \in CodecID : (dec[i].open # 0 => dec'[i].open # 0)
                         /\ (i # id => SameTask(dec'[i], dec[i]))
  BY <1>2 DEF SameTask
<1>6. id \notin PromisedTasks
  BY <1>2, OwnersApart
<1>7. CASE CreateWindow(th, src) /\ promised' = promised
  <2>1. Asks' = {} /\ Len(saves') = 0
    BY <1>7 DEF CreateWindow, Asks
  <2>2. PromisedTasks' = PromisedTasks
    BY <1>4, <1>7 DEF PromisedTasks
  <2> QED
    BY <1>2, <1>4, <1>5, <1>6, <1>7, <2>1, <2>2 DEF Told
<1>8. CASE OpenWindow(th, src) /\ promised' = promised \cup {th}
  <2>1. saves' = <<SaveAVDec(id), SaveWindow(th, id)>>
    BY <1>4, <1>8 DEF OpenWindow
  <2>2. PromisedTasks' = PromisedTasks \cup {id}
    BY <1>4, <1>8 DEF PromisedTasks
  <2>3. /\ Asks' = {SaveAVDec(id), SaveWindow(th, id)}
        /\ \A k, m \in 1..Len(saves') :
              saves'[k].job \in {"window", "closeWindow"}
              /\ saves'[m].job \in {"window", "closeWindow"} => k = m
        /\ SaveAVDec(id).job = "avdec"
        /\ SaveWindow(th, id).job = "window" /\ SaveWindow(th, id).third = th
        /\ SaveWindow(th, id).codec = id
    BY <2>1, WindowAsks
  <2>4. \A i \in CodecID : SaveAVDec(i) \notin Asks' => i # id
    BY <2>3
  <2>5. \A s \in Asks' :
          /\ s.job = "window" => s.third \in promised' /\ s.codec = ids'.third[s.third]
          /\ s.job # "closeWindow" /\ s.job # "audio"
    BY <1>4, <1>8, <2>3
  <2>6. \A x \in promised' : \/ \E s \in Asks' : s.job = "window" /\ s.third = x
                             \/ x \in promised /\ ids'.third[x] = ids.third[x]
    BY <1>4, <1>8, <2>3
  <2>7. \A x \in promised : x \in promised' /\ ids'.third[x] = ids.third[x]
    BY <1>4, <1>8
  <2> QED
    BY <1>2, <1>5, <2>2, <2>3, <2>4, <2>5, <2>6, <2>7 DEF Told
<1> QED
  BY <1>7, <1>8

LEMMA LoweredIsSame ==
  ASSUME NEW d \in [CodecID -> AVDec], NEW S, NEW i \in CodecID
  PROVE  SameTask(Lowered(d, S)[i], d[i])
<1>1. Lowered(d, S)[i] = IF i \in S THEN [d[i] EXCEPT !.prio = (@ + U32 - 1) % U32] ELSE d[i]
  BY DEF Lowered
<1>2. d[i] \in AVDec
  OBVIOUS
<1> QED
  BY <1>1, <1>2 DEF AVDec, SameTask

(* A window has its task, so its request is known.                         *)
LEMMA WindowIsKnown ==
  ASSUME NodeInv, OwnersOK, NEW th \in WindowID, th \in DOMAIN ids.third
  PROVE  /\ th \in WindowOwners /\ ids.third[th] \in CodecID /\ Known(th)
         /\ dec[ids.third[th]] \in AVDec /\ dec[ids.third[th]].swms
<1>1. th \in WindowOwners
  BY DEF WindowOwners
<1>2. ids.third[th] \in CodecID /\ dec \in [CodecID -> AVDec]
  BY <1>1, OwnersApart
<1> QED
  BY <1>1, <1>2 DEF OwnersOK, Known, HasTask

LEMMA RaisedIsSame ==
  ASSUME NodeInv, OwnersOK, NEW th \in WindowID, NEW src \in SrcVideo, NEW show \in BOOLEAN,
         RaiseDone(th, src, show)
  PROVE  /\ ids' = ids /\ aoCodec' = aoCodec
         /\ \A i \in CodecID : SameTask(dec'[i], dec[i])
         /\ th \in WindowOwners /\ ids.third[th] \in CodecID
<1>0. PICK id : id = ids.third[th]
  OBVIOUS
<1>1. th \in DOMAIN ids.third /\ ids' = ids /\ aoCodec' = aoCodec /\ winPriority # <<>>
  BY DEF RaiseDone, Known, HasTask
<1>2. th \in WindowOwners /\ id \in CodecID /\ dec[id] \in AVDec /\ dec[id].swms
      /\ dec \in [CodecID -> AVDec]
  BY <1>0, <1>1, WindowIsKnown, OwnersApart
<1>3. PICK d : d = [Raised(id, src) EXCEPT ![id].swms = @ \/ show]
  OBVIOUS
<1>4. d \in [CodecID -> AVDec]
  BY <1>1, <1>2, <1>3, RaisedShownIsTyped DEF NodeInv
<1>5. \A i \in CodecID : SameTask(d[i], dec[i])
  <2>1. d[id].open = dec[id].open /\ d[id].swms = (dec[id].swms \/ show)
    BY <1>2, <1>3 DEF Raised, AVDec
  <2>2. \A i \in CodecID \ {id} : d[i] = dec[i]
    BY <1>2, <1>3 DEF Raised
  <2>3. d[id].swms = dec[id].swms
    BY <1>2, <2>1
  <2> QED
    BY <2>1, <2>2, <2>3 DEF SameTask
<1>6. PICK S : dec' = Lowered(d, S)
  BY <1>0, <1>3 DEF RaiseDone
<1>7. \A i \in CodecID : SameTask(dec'[i], d[i])
  BY <1>4, <1>6, LoweredIsSame
<1> QED
  BY <1>0, <1>1, <1>2, <1>5, <1>7 DEF SameTask

LEMMA RaiseTells ==
  ASSUME NodeInv, OwnersOK, NEW th \in WindowID, NEW src \in SrcVideo,
         RaiseWindow(th, src), promised' = promised \cup {th}
  PROVE  OwnersOK' /\ Told
<1>0. PICK id : id = ids.third[th]
  OBVIOUS
<1>1. /\ ids' = ids /\ aoCodec' = aoCodec
      /\ \A i \in CodecID : SameTask(dec'[i], dec[i])
      /\ th \in WindowOwners /\ id \in CodecID
  BY <1>0, RaisedIsSame DEF RaiseWindow
<1>2. OwnersOK'
  BY <1>1, OwnersApart DEF OwnersOK, WindowOwners, SameTask
<1>3. saves' = <<SaveAVDec(id), SaveWindow(th, id)>>
  BY <1>0 DEF RaiseWindow
<1>4. /\ Asks' = {SaveAVDec(id), SaveWindow(th, id)}
      /\ \A k, m \in 1..Len(saves') :
            saves'[k].job \in {"window", "closeWindow"}
            /\ saves'[m].job \in {"window", "closeWindow"} => k = m
      /\ SaveAVDec(id).job = "avdec"
      /\ SaveWindow(th, id).job = "window" /\ SaveWindow(th, id).third = th
      /\ SaveWindow(th, id).codec = id
  BY <1>3, WindowAsks
<1>5. PromisedTasks' = PromisedTasks \cup {id}
  BY <1>0, <1>1 DEF PromisedTasks
<1>6. \A i \in CodecID : SaveAVDec(i) \notin Asks' => i # id
  BY <1>4
<1>7. \A s \in Asks' :
        /\ s.job = "window" => s.third \in promised' /\ s.codec = ids'.third[s.third]
        /\ s.job # "closeWindow" /\ s.job # "audio"
  BY <1>0, <1>1, <1>4
<1>8. \A x \in promised' : \/ \E s \in Asks' : s.job = "window" /\ s.third = x
                           \/ x \in promised /\ ids'.third[x] = ids.third[x]
  BY <1>1, <1>4
<1>9. \A i \in CodecID : dec[i].open # 0 => dec'[i].open # 0
  BY <1>1 DEF SameTask
<1> QED
  BY <1>1, <1>2, <1>4, <1>5, <1>6, <1>7, <1>8, <1>9 DEF Told

LEMMA CloseTells ==
  ASSUME NodeInv, OwnersOK, NEW th \in WindowID, CloseWindow(th),
         promised' = promised \cap DOMAIN ids'.third
  PROVE  OwnersOK' /\ Told
<1>0. PICK id : id = ids.third[th]
  OBVIOUS
<1>1. th \in DOMAIN ids.third /\ th \in WindowOwners /\ id \in CodecID /\ dec[id] \in AVDec
      /\ dec \in [CodecID -> AVDec] /\ id \in AuViTaskID \cap ids.used
  BY <1>0, WindowIsKnown, OwnersApart DEF CloseWindow, Known, HasTask
<1>2. ids'.third = Erase(ids.third, th) /\ ids'.used = ids.used \ {id}
  <2>1. TypeOfID(id) # "none"
    BY <1>1, TypeOfCodecID DEF TaskType
  <2>2. ids' = RemoveCodecTaskID(ids, th)
    BY DEF CloseWindow
  <2> QED
    BY <1>0, <1>1, <2>1, <2>2 DEF RemoveCodecTaskID
<1>3. /\ DOMAIN ids'.third = DOMAIN ids.third \ {th}
      /\ \A x \in DOMAIN ids'.third : ids'.third[x] = ids.third[x]
  BY <1>2 DEF Erase
<1>4. PICK d, others : /\ d = Hidden(id) /\ others = Above(d, id, d[id].prio)
                       /\ dec' = Lowered(d, others)
                       /\ saves' = <<SaveAVDec(id), DropWindow(th)>>
                                    \o [k \in 1..Cardinality(others) |-> SaveAVDec(InOrder(others)[k])]
  BY <1>0 DEF CloseWindow
<1>5. \A i \in CodecID \ {id} : SameTask(dec'[i], dec[i])
  <2>1. d \in [CodecID -> AVDec]
    BY <1>1, <1>4, RecordsAreTyped
  <2>2. \A i \in CodecID \ {id} : d[i] = dec[i]
    BY <1>1, <1>4 DEF Hidden
  <2>3. \A i \in CodecID : SameTask(dec'[i], d[i])
    BY <1>4, <2>1, LoweredIsSame
  <2> QED
    BY <2>2, <2>3
<1>6. PICK n : n = Cardinality(others)
  OBVIOUS
<1>7. /\ n \in Nat /\ Len(saves') = n + 2
      /\ saves'[1] = SaveAVDec(id) /\ saves'[2] = DropWindow(th)
      /\ \A k \in 3..(n + 2) : saves'[k] = SaveAVDec(InOrder(others)[k - 2])
  <2>1. others \in SUBSET CodecID
    BY <1>4 DEF Above
  <2>2. n \in Nat
    BY <1>6, <2>1, CodecIDsAreFinite, ListedInOrder
  <2>3. PICK tail : tail = [k \in 1..n |-> SaveAVDec(InOrder(others)[k])]
    OBVIOUS
  <2>4. PICK T : T = {SaveAVDec(InOrder(others)[k]) : k \in 1..n} \cup {SaveAVDec(id), DropWindow(th)}
    OBVIOUS
  <2>5. tail \in Seq(T) /\ Len(tail) = n
    BY <2>2, <2>3, <2>4
  <2>6. PICK a, b : a = SaveAVDec(id) /\ b = DropWindow(th)
    OBVIOUS
  <2>7. a \in T /\ b \in T /\ saves' = <<a, b>> \o tail
    BY <1>4, <1>6, <2>3, <2>4, <2>6
  <2>8. /\ Len(saves') = n + 2 /\ saves'[1] = a /\ saves'[2] = b
        /\ \A k \in 3..(n + 2) : k - 2 \in 1..n /\ saves'[k] = tail[k - 2]
    BY <2>2, <2>5, <2>7
  <2> QED
    BY <2>2, <2>3, <2>6, <2>8
<1>8. /\ SaveAVDec(id) \in Asks' /\ DropWindow(th) \in Asks'
      /\ \A s \in Asks' : s = DropWindow(th) \/ s.job = "avdec"
      /\ \A k \in 1..Len(saves') : saves'[k].job = "avdec" \/ k = 2
  <2>1. \A i : SaveAVDec(i).job = "avdec"
    BY DEF SaveAVDec
  <2>2. \A k \in 1..Len(saves') : k = 1 \/ k = 2 \/ k \in 3..(n + 2)
    BY <1>7
  <2>3. 1 \in 1..Len(saves') /\ 2 \in 1..Len(saves')
    BY <1>7
  <2>4. \A k \in 1..Len(saves') : saves'[k].job = "avdec" \/ k = 2
    BY <1>7, <2>1, <2>2
  <2> QED
    BY <1>7, <2>3, <2>4 DEF Asks
<1>9. DropWindow(th).job = "closeWindow" /\ DropWindow(th).third = th
  BY DEF DropWindow
<1>10. /\ WindowOwners' = WindowOwners \ {th}
       /\ \A x \in WindowOwners' : ids'.third[x] = ids.third[x] /\ ids.third[x] # id
                                   /\ ids.third[x] \in CodecID
  <2>1. WindowOwners' = WindowOwners \ {th}
    BY <1>3 DEF WindowOwners
  <2>2. WindowOwners \subseteq DOMAIN ids.third
    BY DEF WindowOwners
  <2>3. \A x \in WindowOwners : ids.third[x] = id => x = th
    BY <1>0, <1>1 DEF OwnersOK
  <2> QED
    BY <1>3, <2>1, <2>2, <2>3, OwnersApart
<1>11. promised' = promised \ {th} /\ promised \subseteq WindowOwners
       /\ promised' \subseteq WindowOwners'
  <2>1. promised \subseteq WindowOwners /\ WindowOwners \subseteq DOMAIN ids.third
    BY DEF OwnersOK, WindowOwners
  <2> QED
    BY <1>3, <1>10, <2>1
<1>12. OwnersOK'
  <2>1. \A x \in WindowOwners' :
           /\ ids'.third[x] \in AuViTaskID \cap ids'.used
           /\ dec'[ids'.third[x]].open = 2 /\ dec'[ids'.third[x]].swms
    BY <1>2, <1>5, <1>10 DEF OwnersOK, SameTask
  <2>2. \A x, y \in WindowOwners' : ids'.third[x] = ids'.third[y] => x = y
    BY <1>10 DEF OwnersOK
  <2>3. \A x \in DOMAIN ids'.third \ WindowID : ids'.third[x] \in AudioTaskID \cup {0}
    BY <1>3 DEF OwnersOK
  <2>4. aoCodec' = aoCodec /\ DOMAIN ids'.third \subseteq WindowID \cup AudioID
    BY <1>3 DEF CloseWindow, OwnersOK
  <2> QED
    BY <1>11, <2>1, <2>2, <2>3, <2>4 DEF OwnersOK
<1>13. PromisedTasks' \subseteq PromisedTasks
  BY <1>10, <1>11 DEF PromisedTasks
<1>14. \A i \in CodecID : SaveAVDec(i) \notin Asks' => i # id
  BY <1>8
<1>15. \A i \in CodecID \ {id} : dec[i].open # 0 => dec'[i].open # 0
  BY <1>5 DEF SameTask
<1>16. \A x \in promised' : x \in promised /\ ids'.third[x] = ids.third[x]
  BY <1>10, <1>11
<1>17. \A x \in promised : \/ x \in promised' /\ ids'.third[x] = ids.third[x]
                           \/ \E s \in Asks' : s.job = "closeWindow" /\ s.third = x
  BY <1>8, <1>9, <1>11, <1>16
<1>18. \A s \in Asks' : /\ s.job # "window" /\ s.job # "audio"
                        /\ s.job = "closeWindow" => s.third \notin promised'
  BY <1>8, <1>9, <1>11
<1>19. \A k, m \in 1..Len(saves') :
         saves'[k].job \in {"window", "closeWindow"}
         /\ saves'[m].job \in {"window", "closeWindow"} => k = m
  BY <1>8
<1> QED
  BY <1>5, <1>12, <1>13, <1>14, <1>15, <1>16, <1>17, <1>18, <1>19 DEF Told

(* A window command of a client that makes no mistakes, on a link that     *)
(* always acknowledges.                                                    *)
LEMMA WindowTells ==
  ASSUME PatientClient, NodeInv, OwnersOK, NEW th \in WindowID,
         OpenOrCreate(th) \/ RaiseOrMove(th) \/ Close(th),
         promised' = CASE reply'.cmd = "open" /\ reply'.ok -> promised \cup {reply'.third}
                       [] OTHER -> promised \cap DOMAIN ids'.third
  PROVE  OwnersOK' /\ Told
<1>1. \A o \in Outcome : o = "ok"
  BY DEF PatientClient, Outcome
<1>2. \A cmd, ok : /\ Reply(cmd, th, ok).cmd = cmd /\ Reply(cmd, th, ok).third = th
                   /\ Reply(cmd, th, ok).ok = ok
  BY DEF Reply
<1>3. ASSUME reply' = NoReply \/ \E cmd, ok : cmd # "open" /\ reply' = Reply(cmd, th, ok)
      PROVE  promised' = promised \cap DOMAIN ids'.third
  BY <1>2, <1>3 DEF NoReply
<1>4. ASSUME reply' = Reply("open", th, TRUE)
      PROVE  promised' = promised \cup {th}
  BY <1>2, <1>4
<1>5. ASSUME ids'.third = ids.third, ids'.used = ids.used, aoCodec' = aoCodec,
             \A i \in CodecID : SameTask(dec'[i], dec[i]), saves' = <<>>,
             reply' = NoReply \/ \E cmd, ok : cmd # "open" /\ reply' = Reply(cmd, th, ok)
      PROVE  OwnersOK' /\ Told
  <2>1. promised' = promised
    BY <1>3, <1>5 DEF OwnersOK, WindowOwners
  <2> QED
    BY <1>5, <2>1, QuietTells
<1>6. \A i \in CodecID : SameTask(dec[i], dec[i])
  BY DEF SameTask
<1>7. CASE OpenOrCreate(th)
  <2>1. ASSUME OpenWindowRejected(th) \/ CreateWindowRejected(th)
        PROVE  OwnersOK' /\ Told
    <3>1. OpenRejected(th) /\ (reply' = NoReply \/ reply' = Reply("create", th, FALSE))
      BY <2>1 DEF OpenWindowRejected, CreateWindowRejected
    <3>2. ids' = ids
      BY <3>1, LendThenRemove DEF OpenRejected, HasTask, NodeInv, MemoryOK, TaskType
    <3>3. dec' = dec /\ aoCodec' = aoCodec /\ saves' = <<>>
      BY <3>1 DEF OpenRejected
    <3> QED
      BY <1>5, <1>6, <3>1, <3>2, <3>3
  <2>2. ASSUME CreateWindowAgain(th)
        PROVE  OwnersOK' /\ Told
    BY <1>5, <1>6, <2>2 DEF CreateWindowAgain, taskVars
  <2>3. ASSUME NEW src \in SrcVideo, OpenWindow(th, src) \/ CreateWindow(th, src)
        PROVE  OwnersOK' /\ Told
    <3>1. CASE OpenWindow(th, src)
      <4>1. promised' = promised \cup {th}
        BY <1>4, <3>1 DEF OpenWindow
      <4> QED
        BY <3>1, <4>1, OpenTells
    <3>2. CASE CreateWindow(th, src)
      <4>1. promised' = promised \cap DOMAIN ids'.third
        BY <1>3, <3>2 DEF CreateWindow
      <4>2. DOMAIN ids.third \subseteq DOMAIN ids'.third
        BY <3>2 DEF CreateWindow, OpenDone, Lend, Put
      <4>3. promised' = promised
        BY <4>1, <4>2 DEF OwnersOK, WindowOwners
      <4> QED
        BY <3>2, <4>3, OpenTells
    <3> QED
      BY <2>3, <3>1, <3>2
  <2>4. ASSUME NEW src \in SrcVideo, NEW o \in Outcome
        PROVE  ~OpenWindowFails(th, src, o) /\ ~CreateWindowFails(th, src, o)
    BY <1>1 DEF OpenWindowFails, CreateWindowFails, OpenFails
  <2> QED
    BY <1>7, <2>1, <2>2, <2>3, <2>4 DEF OpenOrCreate
<1>8. CASE RaiseOrMove(th)
  <2>1. ASSUME RaiseRejected(th)
        PROVE  FALSE
    BY <2>1, WindowIsKnown DEF RaiseRejected, HasTask, PatientClient
  <2>2. ASSUME RaiseWithoutStack(th)
        PROVE  OwnersOK' /\ Told
    <3>1. /\ ids.third[th] \in CodecID /\ dec[ids.third[th]] \in AVDec
          /\ dec[ids.third[th]].swms /\ dec \in [CodecID -> AVDec]
      BY <2>2, WindowIsKnown, OwnersApart DEF RaiseWithoutStack, Known, HasTask
    <3>2. \A i \in CodecID : SameTask(dec'[i], dec[i])
      <4>1. dec' = [dec EXCEPT ![ids.third[th]].swms = TRUE]
        BY <2>2 DEF RaiseWithoutStack
      <4> QED
        BY <3>1, <4>1 DEF SameTask, AVDec
    <3> QED
      BY <1>5, <2>2, <3>2 DEF RaiseWithoutStack
  <2>3. ASSUME NEW src \in SrcVideo, RaiseWindow(th, src)
        PROVE  OwnersOK' /\ Told
    <3>1. promised' = promised \cup {th}
      BY <1>4, <2>3 DEF RaiseWindow
    <3> QED
      BY <2>3, <3>1, RaiseTells
  <2>4. ASSUME NEW src \in SrcVideo, MoveWindow(th, src)
        PROVE  OwnersOK' /\ Told
    <3>1. /\ ids' = ids /\ aoCodec' = aoCodec
          /\ \A i \in CodecID : SameTask(dec'[i], dec[i])
      BY <2>4, RaisedIsSame DEF MoveWindow
    <3> QED
      BY <1>5, <2>4, <3>1 DEF MoveWindow
  <2>5. ASSUME NEW src \in SrcVideo, MoveWindowRejected(th, src)
        PROVE  OwnersOK' /\ Told
    <3>1. \A i \in CodecID : SameTask(dec'[i], dec[i])
      <4>1. CASE ~Known(th)
        BY <1>6, <2>5, <4>1 DEF MoveWindowRejected
      <4>2. CASE Known(th)
        <5>1. dec' = [dec EXCEPT ![ids.third[th]].crop = src]
          BY <2>5, <4>2 DEF MoveWindowRejected
        <5>2. ids.third[th] \in CodecID /\ dec \in [CodecID -> AVDec]
              /\ dec[ids.third[th]] \in AVDec
          BY <4>2, OwnersApart DEF Known
        <5> QED
          BY <5>1, <5>2 DEF SameTask, AVDec
      <4> QED
        BY <4>1, <4>2
    <3> QED
      BY <1>5, <2>5, <3>1 DEF MoveWindowRejected
  <2>6. ASSUME NEW src \in SrcVideo, NEW o \in Outcome
        PROVE  ~RaiseWindowFails(th, src, o) /\ ~MoveWindowFails(th, src, o)
    BY <1>1 DEF RaiseWindowFails, MoveWindowFails, RaiseFails
  <2> QED
    BY <1>8, <2>1, <2>2, <2>3, <2>4, <2>5, <2>6 DEF RaiseOrMove
<1>9. CASE Close(th)
  <2>1. ASSUME CloseWindow(th)
        PROVE  OwnersOK' /\ Told
    <3>1. promised' = promised \cap DOMAIN ids'.third
      BY <1>3, <2>1 DEF CloseWindow
    <3> QED
      BY <2>1, <3>1, CloseTells
  <2>2. ASSUME CloseWindowUnknown(th)
        PROVE  OwnersOK' /\ Told
    BY <1>5, <1>6, <2>2 DEF CloseWindowUnknown, taskVars
  <2>3. ASSUME NEW o \in Outcome
        PROVE  ~CloseWindowFails(th, o)
    BY <1>1 DEF CloseWindowFails
  <2> QED
    BY <1>9, <2>1, <2>2, <2>3 DEF Close
<1> QED
  BY <1>7, <1>8, <1>9

-----------------------------------------------------------------------------
(* Audio commands, of third ids of their own.                              *)

(* A handler that touches audio tasks only.                                *)
Apart ==
  /\ WindowOwners' = WindowOwners
  /\ \A x \in WindowOwners : ids'.third[x] = ids.third[x]
  /\ AuViTaskID \cap ids.used \subseteq ids'.used
  /\ \A i \in CodecID \ AudioTaskID : dec'[i] = dec[i]
  /\ DOMAIN ids'.third \subseteq WindowID \cup AudioID
  /\ \A x \in DOMAIN ids'.third \ WindowID : ids'.third[x] \in AudioTaskID \cup {0}
  /\ \A ao \in DOMAIN aoCodec' : aoCodec'[ao] \in AudioTaskID \cup {0}
  /\ \A i \in AudioTaskID : SaveAVDec(i) \in Asks' \/ dec'[i] = dec[i]
  /\ \A s \in Asks' : /\ s.job \notin {"window", "closeWindow"}
                      /\ s.job = "audio" => AudioOwner(s)
  /\ promised' = promised \cap DOMAIN ids'.third

LEMMA ApartTells ==
  ASSUME NodeInv, OwnersOK, Apart
  PROVE  OwnersOK' /\ Told
<1>1. promised' = promised /\ promised \subseteq WindowOwners
  BY DEF OwnersOK, WindowOwners, Apart
<1>2. \A x \in WindowOwners : /\ ids.third[x] \in AuViTaskID \cap ids.used
                              /\ ids.third[x] \in CodecID \ AudioTaskID
  BY OwnersApart
<1>3. OwnersOK'
  <2>1. \A x \in WindowOwners' :
           /\ ids'.third[x] \in AuViTaskID \cap ids'.used
           /\ dec'[ids'.third[x]].open = 2 /\ dec'[ids'.third[x]].swms
    BY <1>2 DEF OwnersOK, Apart
  <2>2. \A x, y \in WindowOwners' : ids'.third[x] = ids'.third[y] => x = y
    BY DEF OwnersOK, Apart
  <2>3. promised' \subseteq WindowOwners'
    BY <1>1 DEF Apart
  <2> QED
    BY <2>1, <2>2, <2>3 DEF OwnersOK, Apart
<1>4. PromisedTasks' = PromisedTasks
  BY <1>1 DEF PromisedTasks, Apart
<1>5. \A i \in CodecID : SaveAVDec(i) \notin Asks' => dec'[i] = dec[i]
  BY DEF Apart
<1>6. \A k, m \in 1..Len(saves') :
        saves'[k].job \in {"window", "closeWindow"}
        /\ saves'[m].job \in {"window", "closeWindow"} => k = m
  BY DEF Asks, Apart
<1>7. \A x \in promised : x \in promised' /\ ids'.third[x] = ids.third[x]
  BY <1>1 DEF Apart
<1> QED
  BY <1>1, <1>3, <1>4, <1>5, <1>6, <1>7 DEF Told, SameTask, Apart

(* The requests of an audio command.                                       *)
LEMMA AudioAsks ==
  ASSUME NEW i, NEW s, saves' = <<SaveAVDec(i), s>>
  PROVE  Asks' = {SaveAVDec(i), s} /\ SaveAVDec(i).job = "avdec"
<1>1. Len(saves') = 2 /\ saves'[1] = SaveAVDec(i) /\ saves'[2] = s
  OBVIOUS
<1>2. 1..Len(saves') = {1, 2}
  BY <1>1
<1> QED
  BY <1>1, <1>2 DEF Asks, SaveAVDec

(* A command for one audio task.                                           *)
LEMMA AudioTaskTells ==
  ASSUME PatientClient, NodeInv, OwnersOK, NEW th \in AudioID, NEW id \in AudioTaskID, NEW s,
         saves' = <<SaveAVDec(id), s>>,
         s.job \in {"audio", "closeAudio"}, s.job = "audio" => AudioOwner(s),
         \A i \in CodecID \ {id} : dec'[i] = dec[i],
         AuViTaskID \cap ids.used \subseteq ids'.used,
         DOMAIN ids'.third \subseteq DOMAIN ids.third \cup {th},
         th \in DOMAIN ids'.third => ids'.third[th] = id,
         \A x \in DOMAIN ids'.third : x # th => ids'.third[x] = ids.third[x],
         \A x \in DOMAIN ids.third :
            x # th /\ ids.third[x] # id => x \in DOMAIN ids'.third,
         \A ao \in DOMAIN aoCodec' : aoCodec'[ao] \in AudioTaskID \cup {0},
         promised' = promised \cap DOMAIN ids'.third
  PROVE  OwnersOK' /\ Told
<1>1. Asks' = {SaveAVDec(id), s} /\ SaveAVDec(id).job = "avdec"
  BY AudioAsks
<1>2. th \notin WindowID /\ AuViTaskID \cap AudioTaskID = {}
  BY OwnersApart DEF PatientClient
<1>3. /\ DOMAIN ids.third \subseteq WindowID \cup AudioID
      /\ \A x \in DOMAIN ids.third \ WindowID : ids.third[x] \in AudioTaskID \cup {0}
      /\ WindowOwners = WindowID \cap DOMAIN ids.third
      /\ \A i \in AudioTaskID : i \in CodecID
  BY DEF OwnersOK, CodecID, WindowOwners
<1>4. WindowOwners' = WindowOwners
  <2>1. \A x \in WindowOwners : ids.third[x] # id /\ x # th
    BY <1>2, <1>3, OwnersApart
  <2>2. \A x \in WindowOwners : x \in DOMAIN ids'.third
    BY <1>3, <2>1
  <2> QED
    BY <1>2, <1>3, <2>2 DEF WindowOwners
<1>5. \A x \in WindowOwners : ids'.third[x] = ids.third[x]
  <2>1. \A x \in WindowOwners' : x \in DOMAIN ids'.third /\ x # th
    BY <1>2 DEF WindowOwners
  <2> QED
    BY <1>4, <2>1
<1>6. \A x \in DOMAIN ids'.third \ WindowID : ids'.third[x] \in AudioTaskID \cup {0}
  BY <1>3
<1>7. DOMAIN ids'.third \subseteq WindowID \cup AudioID
  BY <1>3
<1>8. \A i \in AudioTaskID : SaveAVDec(i) \in Asks' \/ dec'[i] = dec[i]
  BY <1>1, <1>3
<1>9. \A i \in CodecID \ AudioTaskID : dec'[i] = dec[i]
  OBVIOUS
<1>10. \A t \in Asks' : /\ t.job \notin {"window", "closeWindow"}
                        /\ t.job = "audio" => AudioOwner(t)
  BY <1>1
<1>11. Apart
  BY <1>4, <1>5, <1>6, <1>7, <1>8, <1>9, <1>10 DEF Apart
<1> QED
  BY <1>11, ApartTells

(* An audio command.                                                       *)
LEMMA AudioTells ==
  ASSUME PatientClient, NodeInv, OwnersOK, NEW th \in AudioID, Audio(th),
         promised' = CASE reply'.cmd = "open" /\ reply'.ok -> promised \cup {reply'.third}
                       [] OTHER -> promised \cap DOMAIN ids'.third
  PROVE  OwnersOK' /\ Told
<1>1. \A o \in Outcome : o = "ok"
  BY DEF PatientClient, Outcome
<1>2. \A ok : /\ Reply("openAudio", th, ok).cmd # "open"
              /\ Reply("closeAudio", th, ok).cmd # "open"
  BY DEF Reply
<1>3. th \notin WindowID /\ AuViTaskID \cap AudioTaskID = {} /\ dec \in [CodecID -> AVDec]
  BY OwnersApart DEF PatientClient
<1>4. th \in DOMAIN ids.third => ids.third[th] \in AudioTaskID \cup {0}
  BY <1>3 DEF OwnersOK
<1>5. ASSUME \E ok : reply' = Reply("openAudio", th, ok) \/ reply' = Reply("closeAudio", th, ok)
      PROVE  promised' = promised \cap DOMAIN ids'.third
  BY <1>2, <1>5
<1>6. /\ DOMAIN ids.third \subseteq WindowID \cup AudioID
      /\ \A x \in DOMAIN ids.third \ WindowID : ids.third[x] \in AudioTaskID \cup {0}
      /\ \A ao \in DOMAIN aoCodec : aoCodec[ao] \in AudioTaskID \cup {0}
      /\ \A i \in AudioTaskID : i \in CodecID
      /\ WindowOwners \subseteq DOMAIN ids.third
  BY DEF OwnersOK, CodecID, WindowOwners
<1>7. 0 \notin CodecID
  BY TaskIDAssumption DEF CodecID
<1>8. ASSUME UNCHANGED <<ids, dec, aoCodec>>, saves' = <<>>,
             \E ok : reply' = Reply("openAudio", th, ok) \/ reply' = Reply("closeAudio", th, ok)
      PROVE  OwnersOK' /\ Told
  <2>1. promised' = promised
    BY <1>5, <1>8 DEF OwnersOK, WindowOwners
  <2>2. \A i \in CodecID : SameTask(dec'[i], dec[i])
    BY <1>8 DEF SameTask
  <2> QED
    BY <1>8, <2>1, <2>2, QuietTells
<1>9. ASSUME \/ OpenAudioAgain(th)
              \/ CloseAudioUnknown(th)
              \/ \E ao \in AOChn : OpenAudioRejected(th, ao)
       PROVE  OwnersOK' /\ Told
  <2>1. saves' = <<>> /\ UNCHANGED <<ids, dec, aoCodec>>
        /\ \E ok : reply' = Reply("openAudio", th, ok) \/ reply' = Reply("closeAudio", th, ok)
    BY <1>9 DEF OpenAudioAgain, CloseAudioUnknown, OpenAudioRejected, taskVars, windowVars
  <2> QED
    BY <1>8, <2>1
<1>10. ASSUME NEW ao \in AOChn, OpenAudio(th, ao)
       PROVE  OwnersOK' /\ Told
  <2>1. PICK id : id = FindNewID(ids, th, "audio")
    OBVIOUS
  <2>2. id \in AudioTaskID /\ id \in CodecID /\ th \notin DOMAIN ids.third
    BY <1>10, <2>1, FoundIsFree DEF OpenAudio, TaskType, Pool, CodecID
  <2>3. ids'.third = Put(ids.third, th, id) /\ ids'.used = ids.used \cup {id}
    BY <1>10, <2>1 DEF OpenAudio, Lend
  <2>4. dec' = Streaming(id, ao) /\ aoCodec' = Put(aoCodec, ao, id)
        /\ saves' = <<SaveAVDec(id), SaveAudio(th, id, ao)>>
        /\ reply' = Reply("openAudio", th, TRUE)
    BY <1>10, <2>1 DEF OpenAudio
  <2>6. \A i \in CodecID \ {id} : dec'[i] = dec[i]
    BY <1>3, <2>2, <2>4 DEF Streaming
  <2>7. \A a \in DOMAIN aoCodec' : aoCodec'[a] \in AudioTaskID \cup {0}
    BY <1>6, <2>2, <2>4 DEF Put
  <2>8. /\ DOMAIN ids'.third = DOMAIN ids.third \cup {th} /\ ids'.third[th] = id
        /\ \A x \in DOMAIN ids'.third : x # th => ids'.third[x] = ids.third[x]
    BY <2>3 DEF Put
  <2>9. /\ DOMAIN ids'.third \subseteq DOMAIN ids.third \cup {th}
        /\ th \in DOMAIN ids'.third => ids'.third[th] = id
        /\ \A x \in DOMAIN ids'.third : x # th => ids'.third[x] = ids.third[x]
        /\ \A x \in DOMAIN ids.third : x # th /\ ids.third[x] # id => x \in DOMAIN ids'.third
    BY <2>8
  <2>10. AuViTaskID \cap ids.used \subseteq ids'.used
    BY <2>3
  <2>11. promised' = promised \cap DOMAIN ids'.third
    BY <1>5, <2>4
  <2>12. PICK s : s = SaveAudio(th, id, ao)
    OBVIOUS
  <2>13. saves' = <<SaveAVDec(id), s>> /\ s.job = "audio" /\ AudioOwner(s)
    BY <2>2, <2>4, <2>12 DEF SaveAudio, AudioOwner
  <2> QED
    BY <2>2, <2>6, <2>7, <2>9, <2>10, <2>11, <2>13, AudioTaskTells
<1>11. ASSUME NEW ao \in AOChn, ShiftAudio(th, ao)
       PROVE  OwnersOK' /\ Told
  <2>1. PICK id : id = aoCodec[ao]
    OBVIOUS
  <2>2. id \in AudioTaskID /\ id \in CodecID /\ th \notin DOMAIN ids.third
    BY <1>6, <1>7, <1>11, <2>1 DEF ShiftAudio, HasTask
  <2>3. /\ dec' = Restarted(id, ao) /\ ids' = UpdateThirdTaskID(ids, th, id)
        /\ saves' = <<SaveAVDec(id), SaveAudio(th, 0, ao)>>
        /\ reply' = Reply("openAudio", th, TRUE) /\ aoCodec' = aoCodec
    BY <1>11, <2>1 DEF ShiftAudio
  <2>5. \A i \in CodecID \ {id} : dec'[i] = dec[i]
    BY <1>3, <2>2, <2>3 DEF Restarted
  <2>6. AreTables(ids) /\ CountsAgree(ids) /\ th \in ThirdID
    BY ClientIDs DEF NodeInv, MemoryOK
  <2>7. /\ ids'.used = ids.used /\ ids'.third[th] = id
        /\ \A x \in DOMAIN ids.third : ids.third[x] # id =>
              x \in DOMAIN ids'.third /\ ids'.third[x] = ids.third[x]
    BY <2>2, <2>3, <2>6, UpdateCounts
  <2>8. /\ DOMAIN ids'.third \subseteq DOMAIN ids.third \cup {th}
        /\ \A x \in DOMAIN ids'.third : x # th => ids'.third[x] = ids.third[x]
    <3>1. PICK rest : /\ rest = IF Borrowers(ids, id) = {} THEN ids.third
                                ELSE Erase(ids.third, Least(Borrowers(ids, id)))
                      /\ ids'.third = Insert(rest, th, id)
      BY <2>3, <2>6 DEF UpdateThirdTaskID, AreTables
    <3>2. DOMAIN rest \subseteq DOMAIN ids.third /\ \A x \in DOMAIN rest : rest[x] = ids.third[x]
      BY <3>1 DEF Erase
    <3> QED
      BY <3>1, <3>2 DEF Insert, Put
  <2>9. th \in DOMAIN ids'.third => ids'.third[th] = id
    BY <2>7
  <2>10. \A x \in DOMAIN ids.third : x # th /\ ids.third[x] # id => x \in DOMAIN ids'.third
    BY <2>7
  <2>11. AuViTaskID \cap ids.used \subseteq ids'.used
    BY <2>7
  <2>12. promised' = promised \cap DOMAIN ids'.third
    BY <1>5, <2>3
  <2>13. PICK s : s = SaveAudio(th, 0, ao)
    OBVIOUS
  <2>14. saves' = <<SaveAVDec(id), s>> /\ s.job = "audio" /\ AudioOwner(s)
    BY <2>3, <2>13 DEF SaveAudio, AudioOwner
  <2>15. \A a \in DOMAIN aoCodec' : aoCodec'[a] \in AudioTaskID \cup {0}
    BY <1>6, <2>3
  <2> QED
    BY <2>2, <2>5, <2>8, <2>9, <2>10, <2>11, <2>12, <2>14, <2>15, AudioTaskTells
<1>12. ASSUME NEW ao, CloseAudio(th, ao)
       PROVE  OwnersOK' /\ Told
  <2>1. PICK id : id = ids.third[th]
    OBVIOUS
  <2>2. id \in AudioTaskID /\ id \in CodecID /\ th \in DOMAIN ids.third
    BY <1>4, <1>7, <1>12, <2>1 DEF CloseAudio, Known, HasTask
  <2>3. /\ dec' = Muted(id) /\ saves' = <<SaveAVDec(id), DropAudio(th)>>
        /\ aoCodec' = Erase(aoCodec, ao) /\ reply' = Reply("closeAudio", th, TRUE)
        /\ ids' \in {ids, RemoveCodecTaskID(ids, th)}
    BY <1>12, <2>1 DEF CloseAudio
  <2>5. \A i \in CodecID \ {id} : dec'[i] = dec[i]
    BY <1>3, <2>2, <2>3 DEF Muted
  <2>6. \A a \in DOMAIN aoCodec' : aoCodec'[a] \in AudioTaskID \cup {0}
    BY <1>6, <2>3 DEF Erase
  <2>7. \/ ids' = ids
        \/ ids'.third = Erase(ids.third, th) /\ ids'.used \in {ids.used, ids.used \ {id}}
    <3>1. AreTables(ids)
      BY DEF NodeInv, MemoryOK
    <3> QED
      BY <2>1, <2>3, <3>1 DEF RemoveCodecTaskID, AreTables
  <2>8. /\ DOMAIN ids'.third \subseteq DOMAIN ids.third
        /\ \A x \in DOMAIN ids'.third : ids'.third[x] = ids.third[x]
        /\ \A x \in DOMAIN ids.third : x \notin DOMAIN ids'.third => x = th
    BY <2>7 DEF Erase
  <2>9. AuViTaskID \cap ids.used \subseteq ids'.used
    BY <1>3, <2>2, <2>7
  <2>10. /\ DOMAIN ids'.third \subseteq DOMAIN ids.third \cup {th}
         /\ th \in DOMAIN ids'.third => ids'.third[th] = id
         /\ \A x \in DOMAIN ids'.third : x # th => ids'.third[x] = ids.third[x]
         /\ \A x \in DOMAIN ids.third : x # th /\ ids.third[x] # id => x \in DOMAIN ids'.third
    BY <2>1, <2>8
  <2>11. promised' = promised \cap DOMAIN ids'.third
    BY <1>5, <2>3
  <2>12. PICK s : s = DropAudio(th)
    OBVIOUS
  <2>13. saves' = <<SaveAVDec(id), s>> /\ s.job = "closeAudio"
    BY <2>3, <2>12 DEF DropAudio
  <2> QED
    BY <2>2, <2>5, <2>6, <2>9, <2>10, <2>11, <2>13, AudioTaskTells
<1>13. ASSUME NEW ao \in AOChn, NEW o \in Outcome, NEW stopped
       PROVE  ~OpenAudioFails(th, ao, o) /\ ~ShiftAudioFails(th, ao, o, stopped)
  BY <1>1 DEF OpenAudioFails, ShiftAudioFails
<1>14. ASSUME NEW o \in Outcome
       PROVE  ~CloseAudioFails(th, o)
  <2>1. ~CloseAudioFails(th, o)
    BY <1>1 DEF CloseAudioFails
  <2> QED
    BY <2>1
<1> QED
  BY <1>9, <1>10, <1>11, <1>12, <1>13, <1>14 DEF Audio

-----------------------------------------------------------------------------
(* A restart once the jobs are done.                                       *)

(* A start puts nothing under way.                                         *)
LEMMA NothingUnderWayThen ==
  ASSUME Store!Drained'
  PROVE  /\ Pending' = {} /\ \A f : Now(f)' = files'[f].list
         /\ \A f : ToSave(f)' = {} /\ ToDrop(f)' = {}
         /\ \A w \in Worker : \A f : ~Writing(w, f)'
         /\ OneWriterOf("avdec")' /\ OneWindowJob'
<1>1. queue' = <<>> /\ \A w \in Worker : threads'[w].at = "idle"
  BY DEF Store!Drained
<1>2. Pending' = {}
  BY <1>1 DEF Pending
<1>3. \A w \in Worker : \A f : ~Writing(w, f)'
  BY <1>1 DEF Writing
<1>4. \A f : Now(f)' = files'[f].list
  BY <1>3, NowMeansThen
<1>5. OneWriterOf("avdec")'
  BY <1>3 DEF OneWriterOf
<1>6. OneWindowJob'
  BY <1>1 DEF OneWindowJob, OnWindow
<1> QED
  BY <1>2, <1>3, <1>4, <1>5, <1>6 DEF ToSave, ToDrop

(* The entry that is met first is one with the key looked for.             *)
LEMMA FirstHasKey ==
  ASSUME NEW list, NEW key, NEW k \in Store!Keys(list, key)
  PROVE  \E m \in 1..Len(list) : Store!First(list, key, k) = list[m] /\ list[m][key] = k
<1> DEFINE at == {j \in 1..Len(list) : list[j][key] = k}
<1>1. at # {} /\ at \in SUBSET Nat
  BY DEF Store!Keys
<1>2. Store!Min(at) \in at
  BY <1>1, MinInSet
<1>3. Store!First(list, key, k) = list[Store!Min(at)]
  BY DEF Store!First
<1> QED
  BY <1>2, <1>3

(* What the files hold when the jobs are done.                             *)
FilesTell ==
  /\ files["avdec"].parses
  /\ \A i \in CodecID : \E k \in 1..Len(files["avdec"].list) : files["avdec"].list[k].codec = i
  /\ \A k \in 1..Len(files["avdec"].list) : /\ files["avdec"].list[k].codec \in CodecID
                                            /\ Agrees(files["avdec"].list[k])
  /\ \A k, m \in 1..Len(files["avdec"].list) :
        files["avdec"].list[k].codec = files["avdec"].list[m].codec => k = m
  /\ \A k \in 1..Len(WindowsFile) : Names(WindowsFile[k])
  /\ \A th \in promised : \E k \in 1..Len(WindowsFile) : WindowsFile[k].third = th
  /\ OfAudio(AudioFile)

LEMMA DrainedFilesTell ==
  ASSUME RecoveryInv, Store!Drained
  PROVE  FilesTell
<1>1. FilesOK /\ BeingWritten /\ \A w \in Worker : threads[w].at = "idle"
  BY StoreParts DEF RecoveryInv, NodeInv, Store!Drained
<1>2. files["avdec"].parses
  BY <1>1 DEF BeingWritten
<1>3. files["avdec"].list \in Seq(RecordEntry) /\ Complete(files["avdec"].list)
  BY <1>1, <1>2, FileLists
<1>4. \A e \in RecordEntry : e.codec \in CodecID
  BY DEF RecordEntry
<1>5. \A k \in 1..Len(files["avdec"].list) : files["avdec"].list[k].codec \in CodecID
  BY <1>3, <1>4
<1>6. /\ Now("avdec") = files["avdec"].list /\ Now("window") = WindowsFile
      /\ ToSave("avdec") = {} /\ ToSave("window") = {} /\ ToDrop("window") = {}
  BY NothingUnderWay DEF WindowsFile
<1>7. /\ \A k \in 1..Len(files["avdec"].list) : Agrees(files["avdec"].list[k])
      /\ \A k, m \in 1..Len(files["avdec"].list) :
            files["avdec"].list[k].codec = files["avdec"].list[m].codec => k = m
  BY <1>6 DEF RecoveryInv, JobsFollow, RecordsFollow
<1>8. /\ \A k \in 1..Len(WindowsFile) : Names(WindowsFile[k])
      /\ \A th \in promised : \E k \in 1..Len(WindowsFile) : WindowsFile[k].third = th
  BY <1>6 DEF RecoveryInv, JobsFollow, WindowsFollow
<1>9. OfAudio(AudioFile)
  BY DEF RecoveryInv, JobsFollow, AudioApart, AudioFile
<1> QED
  BY <1>2, <1>3, <1>5, <1>7, <1>8, <1>9 DEF FilesTell, Complete

(* The records read back.                                                  *)
LEMMA RecordsRead ==
  ASSUME FilesTell
  PROVE  /\ \A k \in 1..Len(files["avdec"].list) :
               RestoredDec[files["avdec"].list[k].codec] = files["avdec"].list[k].rec
         /\ \A i \in CodecID : /\ RestoredDec[i].open # 0 => dec[i].open # 0
                               /\ i \in PromisedTasks => SameTask(RestoredDec[i], dec[i])
<1>1. PICK list : list = files["avdec"].list
  OBVIOUS
<1>2. ASSUME NEW i \in CodecID
      PROVE  \E k \in 1..Len(list) : list[k].codec = i /\ RestoredDec[i] = list[k].rec
  <2>1. i \in Store!Keys(list, "codec")
    BY <1>1 DEF FilesTell, Store!Keys
  <2>2. PICK k \in 1..Len(list) : /\ Store!First(list, "codec", i) = list[k]
                                  /\ list[k]["codec"] = i
    BY <2>1, FirstHasKey
  <2>3. RestoredDec[i] = Store!First(list, "codec", i).rec
    BY <1>1 DEF RestoredDec, FilesTell
  <2> QED
    BY <2>2, <2>3
<1>3. ASSUME NEW k \in 1..Len(list)
      PROVE  RestoredDec[list[k].codec] = list[k].rec
  <2>1. list[k].codec \in CodecID
    BY <1>1 DEF FilesTell
  <2>2. PICK m \in 1..Len(list) : list[m].codec = list[k].codec
                                  /\ RestoredDec[list[k].codec] = list[m].rec
    BY <1>2, <2>1
  <2>3. m = k
    BY <1>1, <2>2 DEF FilesTell
  <2> QED
    BY <2>2, <2>3
<1>4. ASSUME NEW i \in CodecID
      PROVE  /\ RestoredDec[i].open # 0 => dec[i].open # 0
             /\ i \in PromisedTasks => SameTask(RestoredDec[i], dec[i])
  <2>1. PICK k \in 1..Len(list) : list[k].codec = i /\ RestoredDec[i] = list[k].rec
    BY <1>2
  <2>2. Agrees(list[k])
    BY <1>1 DEF FilesTell
  <2> QED
    BY <2>1, <2>2 DEF Agrees
<1> QED
  BY <1>1, <1>3, <1>4

(* The owners read back.                                                   *)
LEMMA OwnersRead ==
  ASSUME FilesTell, WindowID \cap AudioID = {}, promised \subseteq WindowID
  PROVE  /\ Store!Keys(WindowsFile, "third") = promised
         /\ DOMAIN RestoredThird \subseteq promised \cup AudioID
         /\ promised \subseteq DOMAIN RestoredThird
         /\ \A th \in promised : RestoredThird[th] = ids.third[th]
         /\ \A th \in DOMAIN RestoredThird \ WindowID : RestoredThird[th] \in AudioTaskID \cup {0}
         /\ \A ao \in Store!Keys(AudioFile, "ao") :
               Store!First(AudioFile, "ao", ao).codec \in AudioTaskID \cup {0}
<1> DEFINE wins == Store!Keys(WindowsFile, "third")
           auds == Store!Keys(AudioFile, "third")
<1>1. wins = promised
  BY DEF FilesTell, Names, Store!Keys
<1>2. auds \subseteq AudioID
  BY DEF FilesTell, OfAudio, AudioOwner, Store!Keys
<1>3. RestoredThird = [th \in wins \cup auds |->
         IF th \in wins THEN Store!First(WindowsFile, "third", th).codec
                        ELSE Store!First(AudioFile, "third", th).codec]
  BY DEF RestoredThird
<1>4. ASSUME NEW th \in wins
      PROVE  Store!First(WindowsFile, "third", th).codec = ids.third[th]
  <2>1. PICK m \in 1..Len(WindowsFile) :
           Store!First(WindowsFile, "third", th) = WindowsFile[m] /\ WindowsFile[m]["third"] = th
    BY <1>4, FirstHasKey
  <2>2. Names(WindowsFile[m])
    BY DEF FilesTell
  <2> QED
    BY <2>1, <2>2 DEF Names
<1>5. ASSUME NEW key, NEW x \in Store!Keys(AudioFile, key)
      PROVE  Store!First(AudioFile, key, x).codec \in AudioTaskID \cup {0}
  <2>1. PICK m \in 1..Len(AudioFile) : Store!First(AudioFile, key, x) = AudioFile[m]
    BY <1>5, FirstHasKey
  <2>2. AudioOwner(AudioFile[m])
    BY DEF FilesTell, OfAudio
  <2> QED
    BY <2>1, <2>2 DEF AudioOwner
<1>6. DOMAIN RestoredThird = wins \cup auds
  BY <1>3
<1>7. \A th \in promised : RestoredThird[th] = ids.third[th]
  <2> HIDE DEF wins, auds
  <2> QED
    BY <1>1, <1>3, <1>4
<1>8. ASSUME NEW th \in DOMAIN RestoredThird \ WindowID
      PROVE  RestoredThird[th] \in AudioTaskID \cup {0}
  <2>1. th \notin wins /\ th \in auds
    BY <1>1, <1>6, <1>8
  <2>2. RestoredThird[th] = Store!First(AudioFile, "third", th).codec
    BY <1>3, <2>1
  <2> QED
    BY <1>5, <2>1, <2>2
<1> QED
  BY <1>1, <1>2, <1>5, <1>6, <1>7, <1>8

LEMMA RestartFollows ==
  ASSUME RecoveryInv, PatientClient, Restart
  PROVE  RecoveryInv'
<1>1. FilesTell
  BY DrainedFilesTell DEF Restart, PatientClient
<1>2. NodeInv' /\ NodeInv /\ OwnersOK
  BY RestartKeeps DEF RecoveryInv
<1>3. /\ dec' = RestoredDec /\ ids'.third = RestoredThird /\ ids'.used = OpenOf(RestoredDec)
      /\ aoCodec' = [ao \in Store!Keys(AudioFile, "ao") |-> Store!First(AudioFile, "ao", ao).codec]
      /\ promised' = {th \in Store!Keys(WindowsFile, "third") :
                        RestoredThird[th] \in OpenOf(RestoredDec)}
  BY DEF Restart
<1>4. files' = files
  BY <1>1 DEF FilesTell, Restart
<1>5. Store!Drained'
  <2>1. queue' = <<>> /\ threads' = [w \in Worker |-> Store!Idle]
    BY DEF Restart
  <2> QED
    BY <2>1 DEF Store!Drained, Store!Idle
<1>6. WindowID \cap AudioID = {} /\ promised \subseteq WindowID /\ promised \subseteq WindowOwners
  BY <1>2, OwnersApart DEF PatientClient, OwnersOK, WindowOwners
<1>7. /\ Store!Keys(WindowsFile, "third") = promised
      /\ DOMAIN RestoredThird \subseteq promised \cup AudioID
      /\ promised \subseteq DOMAIN RestoredThird
      /\ \A th \in promised : RestoredThird[th] = ids.third[th]
      /\ \A th \in DOMAIN RestoredThird \ WindowID : RestoredThird[th] \in AudioTaskID \cup {0}
      /\ \A ao \in Store!Keys(AudioFile, "ao") :
            Store!First(AudioFile, "ao", ao).codec \in AudioTaskID \cup {0}
  BY <1>1, <1>6, OwnersRead
<1>8. /\ \A k \in 1..Len(files["avdec"].list) :
            RestoredDec[files["avdec"].list[k].codec] = files["avdec"].list[k].rec
      /\ \A i \in CodecID : i \in PromisedTasks => SameTask(RestoredDec[i], dec[i])
  BY <1>1, RecordsRead
<1>9. \A th \in promised :
        /\ ids.third[th] \in AuViTaskID /\ ids.third[th] \in CodecID
        /\ RestoredDec[ids.third[th]].open = 2 /\ RestoredDec[ids.third[th]].swms
        /\ ids.third[th] \in OpenOf(RestoredDec)
  <2>1. \A th \in promised :
          /\ ids.third[th] \in AuViTaskID /\ ids.third[th] \in CodecID
          /\ dec[ids.third[th]].open = 2 /\ dec[ids.third[th]].swms
          /\ ids.third[th] \in PromisedTasks
    BY <1>2, <1>6, OwnersApart DEF OwnersOK, PromisedTasks
  <2> QED
    BY <1>8, <2>1 DEF SameTask, OpenOf
<1>10. promised' = promised
  BY <1>3, <1>7, <1>9
<1>11. WindowOwners' = promised
  BY <1>3, <1>6, <1>7 DEF WindowOwners
<1>12. OwnersOK'
  <2>1. \A th \in WindowOwners' :
           /\ ids'.third[th] \in AuViTaskID \cap ids'.used
           /\ dec'[ids'.third[th]].open = 2 /\ dec'[ids'.third[th]].swms
    BY <1>3, <1>7, <1>9, <1>11
  <2>2. \A x, y \in WindowOwners' : ids'.third[x] = ids'.third[y] => x = y
    BY <1>2, <1>3, <1>6, <1>7, <1>11 DEF OwnersOK
  <2>3. \A ao \in DOMAIN aoCodec' : aoCodec'[ao] \in AudioTaskID \cup {0}
    BY <1>3, <1>7
  <2>4. DOMAIN ids'.third \subseteq WindowID \cup AudioID
    BY <1>3, <1>6, <1>7
  <2> QED
    BY <1>3, <1>7, <1>10, <1>11, <2>1, <2>2, <2>3, <2>4 DEF OwnersOK
<1>13. RecordsFollow'
  <2>1. PICK list : list = files["avdec"].list
    OBVIOUS
  <2>2. Now("avdec")' = list /\ ToSave("avdec")' = {}
    BY <1>4, <1>5, <2>1, NothingUnderWayThen
  <2>3. \A k, m \in 1..Len(list) : list[k].codec = list[m].codec => k = m
    BY <1>1, <2>1 DEF FilesTell
  <2>4. ASSUME NEW k \in 1..Len(list)
        PROVE  Agrees(list[k])'
    <3>1. PICK e : e = list[k]
      OBVIOUS
    <3>2. dec'[e.codec] = e.rec
      BY <1>3, <1>8, <2>1, <3>1
    <3>3. Agrees(e)'
      BY <3>2 DEF Agrees, SameTask
    <3> QED
      BY <3>1, <3>3
  <2> QED
    BY <2>2, <2>3, <2>4 DEF RecordsFollow
<1>14. WindowsFollow'
  <2>1. PICK list : list = WindowsFile
    OBVIOUS
  <2>2. Now("window")' = list /\ ToSave("window")' = {} /\ ToDrop("window")' = {}
    BY <1>4, <1>5, <2>1, NothingUnderWayThen DEF WindowsFile
  <2>3. ASSUME NEW k \in 1..Len(list)
        PROVE  Names(list[k])'
    <3>1. PICK e : e = list[k]
      OBVIOUS
    <3>2. e.third \in promised /\ e.codec = ids.third[e.third]
      BY <1>1, <2>1, <3>1 DEF FilesTell, Names
    <3>3. e.third \in promised' /\ e.codec = ids'.third[e.third]
      BY <1>3, <1>7, <1>10, <3>2
    <3> QED
      BY <3>1, <3>3 DEF Names
  <2>4. \A th \in promised' : \E k \in 1..Len(list) : list[k].third = th
    BY <1>1, <1>10, <2>1 DEF FilesTell
  <2> QED
    BY <2>2, <2>3, <2>4 DEF WindowsFollow
<1>15. AudioApart'
  <2>1. OfAudio(files'["audio"].list)
    BY <1>1, <1>4 DEF FilesTell, AudioFile
  <2> QED
    BY <1>5, <2>1, NothingUnderWayThen DEF AudioApart, OfAudio
<1> QED
  BY <1>2, <1>5, <1>12, <1>13, <1>14, <1>15, NothingUnderWayThen DEF RecoveryInv, JobsFollow

-----------------------------------------------------------------------------
(* The node.                                                               *)

LEMMA RecoveryHoldsFirst == NodeInit => RecoveryInv
<1> SUFFICES ASSUME NodeInit
             PROVE  RecoveryInv
  OBVIOUS
<1>1. NodeInv
  BY NodeInitHolds
<1>2. /\ ids.third = EmptyMap /\ aoCodec = EmptyMap /\ promised = {}
      /\ dec = [i \in CodecID |-> Closed] /\ files = Store!Files0(FirstRecords)
      /\ Store!Drained
  BY DEF NodeInit, Init, NoTables, Store!NothingQueued, Store!Drained, Store!Idle
<1>3. /\ files["avdec"].list = FirstRecords
      /\ files["window"].list = <<>> /\ files["audio"].list = <<>>
  BY <1>2 DEF Store!Files0, Store!Readable, Store!Unreadable, Store!File
<1>4. DOMAIN ids.third = {} /\ DOMAIN aoCodec = {}
  BY <1>2 DEF EmptyMap
<1>5. OwnersOK
  BY <1>2, <1>4 DEF OwnersOK, WindowOwners
<1>6. /\ \A f : Now(f) = files[f].list /\ ToSave(f) = {} /\ ToDrop(f) = {}
      /\ OneWriterOf("avdec") /\ OneWindowJob
      /\ \A w \in Worker : \A f : ~Writing(w, f)
  <2>1. queue = <<>> /\ \A w \in Worker : threads[w].at = "idle"
    BY <1>2 DEF Store!Drained
  <2> QED
    BY <1>2, <2>1, NothingUnderWay DEF OneWriterOf, OneWindowJob, OnWindow, Writing
<1>7. RecordsFollow
  <2> DEFINE n == Cardinality(CodecID)
             order == InOrder(CodecID)
  <2>1. /\ n \in Nat
        /\ \A k, m \in 1..n : order[k] = order[m] => k = m
    BY CodecIDsAreFinite, ListedInOrder
  <2>2. FirstRecords = [k \in 1..n |-> [codec |-> order[k], rec |-> Closed]]
    BY DEF FirstRecords
  <2> HIDE DEF n, order
  <2>3. Len(FirstRecords) = n
    BY <2>1, <2>2
  <2>4. \A k, m \in 1..Len(FirstRecords) : FirstRecords[k].codec = FirstRecords[m].codec => k = m
    BY <2>1, <2>2, <2>3
  <2>5. PromisedTasks = {}
    BY <1>2 DEF PromisedTasks
  <2>6. \A k \in 1..Len(FirstRecords) : Agrees(FirstRecords[k])
    BY <2>2, <2>3, <2>5 DEF Agrees, Closed
  <2> QED
    BY <1>3, <1>6, <2>4, <2>6 DEF RecordsFollow
<1>8. WindowsFollow
  <2>1. Len(<<>>) = 0
    OBVIOUS
  <2> QED
    BY <1>2, <1>3, <1>6, <2>1 DEF WindowsFollow
<1>9. AudioApart
  <2>1. OfAudio(<<>>)
    BY DEF OfAudio
  <2> QED
    BY <1>3, <1>6, <2>1 DEF AudioApart
<1> QED
  BY <1>1, <1>5, <1>6, <1>7, <1>8, <1>9 DEF RecoveryInv, JobsFollow

(* A command, once the jobs of the one before are done.                    *)
LEMMA CommandFollows ==
  ASSUME RecoveryInv, PatientClient, WindowCommand \/ AudioCommand
  PROVE  RecoveryInv'
<1>1. NodeInv /\ OwnersOK /\ MemoryOK
  BY DEF RecoveryInv, NodeInv
<1>2. NodeInv'
  BY <1>1, NodeNextKeeps DEF NodeNext
<1>3. /\ Store!Drained
      /\ Store!Submit([k \in 1..Len(saves') |-> JobOf(saves'[k])])
      /\ promised' = CASE reply'.cmd = "open" /\ reply'.ok -> promised \cup {reply'.third}
                       [] OTHER -> promised \cap DOMAIN ids'.third
  BY DEF WindowCommand, AudioCommand, Handled, PatientClient
<1>4. saves' \in Seq(Request)
  BY <1>1, WindowHandles, AudioHandles
     DEF WindowCommand, AudioCommand, Handled, Handles, RequestsOK
<1>5. OwnersOK' /\ Told
  <2>1. CASE WindowCommand
    <3>1. PICK th \in WindowID : OpenOrCreate(th) \/ RaiseOrMove(th) \/ Close(th)
      BY <2>1 DEF WindowCommand, Handled
    <3> QED
      BY <1>1, <1>3, <3>1, WindowTells
  <2>2. CASE AudioCommand
    <3>1. PICK th \in AudioID : Audio(th)
      BY <2>2 DEF AudioCommand, Handled
    <3> QED
      BY <1>1, <1>3, <3>1, AudioTells
  <2> QED
    BY <2>1, <2>2
<1> QED
  BY <1>2, <1>3, <1>4, <1>5, SubmitFollows

LEMMA RecoveryNextKeeps ==
  ASSUME PatientClient
  PROVE  RecoveryInv /\ [NodeNext]_nodeVars => RecoveryInv'
<1> SUFFICES ASSUME RecoveryInv, [NodeNext]_nodeVars
             PROVE  RecoveryInv'
  OBVIOUS
<1>1. ~ClearCommand
  BY DEF PatientClient, ClearCommand, Handled
<1>2. ASSUME UNCHANGED <<ids, dec, aoCodec, store, promised>>
      PROVE  OwnersOK' /\ JobsFollow'
  <2>1. UNCHANGED <<ids, dec, aoCodec, files, queue, threads, promised>>
    BY <1>2 DEF store
  <2>2. OwnersOK'
    BY <2>1 DEF RecoveryInv, OwnersOK, WindowOwners
  <2>3. /\ OneWriterOf("avdec")' /\ OneWindowJob' /\ AudioApart'
    BY <2>1 DEF RecoveryInv, JobsFollow, OneWriterOf, OneWindowJob, OnWindow, Writing,
       AudioApart, ToSave, Pending
  <2>4. Now("avdec")' = Now("avdec") /\ Now("window")' = Now("window")
    BY <2>1 DEF Now, Writing
  <2>5. /\ ToSave("avdec")' = ToSave("avdec") /\ ToSave("window")' = ToSave("window")
        /\ ToDrop("window")' = ToDrop("window") /\ PromisedTasks' = PromisedTasks
    BY <2>1 DEF ToSave, ToDrop, Pending, PromisedTasks
  <2>6. \A e : (Agrees(e)' <=> Agrees(e)) /\ (Names(e)' <=> Names(e))
    BY <2>1, <2>5 DEF Agrees, Names
  <2>7. RecordsFollow'
    BY <2>1, <2>4, <2>5, <2>6 DEF RecoveryInv, JobsFollow, RecordsFollow
  <2>8. WindowsFollow'
    BY <2>1, <2>4, <2>5, <2>6 DEF RecoveryInv, JobsFollow, WindowsFollow
  <2> QED
    BY <2>2, <2>3, <2>7, <2>8 DEF JobsFollow
<1>3. NodeInv'
  BY NodeNextKeeps DEF RecoveryInv
<1>4. CASE Waiting \/ UNCHANGED nodeVars
  <2>1. UNCHANGED <<ids, dec, aoCodec, store, promised>>
    BY <1>4 DEF Waiting, WaitForClear, taskVars, nodeVars, vars
  <2> QED
    BY <1>2, <1>3, <2>1 DEF RecoveryInv
<1>5. ASSUME NEW w \in Worker, Work(w)
      PROVE  RecoveryInv'
  BY <1>5, WorkFollows
<1> QED
  BY <1>1, <1>4, <1>5, CommandFollows, RestartFollows DEF NodeNext

(* Through every interleaving of the pool's threads and every restart, the *)
(* list that each file holds, or will hold when the write under way is     *)
(* done, differs from what the node has promised only by the jobs that     *)
(* have not been taken to it yet.                                          *)
THEOREM RecoveryInvariantHolds == PatientClient => (NodeSpec => []RecoveryInv)
<1>1. ASSUME PatientClient
      PROVE  NodeSpec => []RecoveryInv
  <2>1. RecoveryInv /\ [NodeNext]_nodeVars => RecoveryInv'
    BY <1>1, RecoveryNextKeeps
  <2> QED
    BY <2>1, RecoveryHoldsFirst, PTL DEF NodeSpec
<1> QED
  BY <1>1

(* What openAndMoveWindow has answered survives a restart that comes when  *)
(* TaskRestore's jobs are done: owner, task, and the task open and shown.  *)
THEOREM ForgetsNothing == PatientClient => (NodeSpec => []NothingForgotten)
<1>1. ASSUME PatientClient
      PROVE  RecoveryInv => NothingForgotten
  <2> SUFFICES ASSUME RecoveryInv, Store!Drained, NEW th \in promised
               PROVE  /\ th \in DOMAIN RestoredThird
                      /\ RestoredThird[th] = ids.third[th]
                      /\ ids.third[th] \in CodecID =>
                           /\ RestoredDec[ids.third[th]].open = dec[ids.third[th]].open
                           /\ RestoredDec[ids.third[th]].swms = dec[ids.third[th]].swms
    BY DEF NothingForgotten
  <2>1. FilesTell
    BY DrainedFilesTell
  <2>2. WindowID \cap AudioID = {} /\ promised \subseteq WindowID
    BY <1>1, OwnersApart DEF PatientClient, RecoveryInv, OwnersOK, WindowOwners
  <2>3. th \in DOMAIN RestoredThird /\ RestoredThird[th] = ids.third[th]
    BY <2>1, <2>2, OwnersRead
  <2>4. ids.third[th] \in PromisedTasks
    BY DEF PromisedTasks
  <2>5. ids.third[th] \in CodecID => SameTask(RestoredDec[ids.third[th]], dec[ids.third[th]])
    BY <2>1, <2>4, RecordsRead
  <2> QED
    BY <2>3, <2>5 DEF SameTask
<1>2. ASSUME PatientClient
      PROVE  NodeSpec => []NothingForgotten
  BY <1>1, <1>2, RecoveryInvariantHolds, PTL
<1> QED
  BY <1>2

(* Nothing that was closed comes back: no owner without its task, no task  *)
(* that is closed in memory.  Audio streams are left out because the entry *)
(* that a shifted stream leaves under its codec id 0 does come back.       *)
THEOREM RevivesNothing ==
  PatientClient /\ AudioID = {} => (NodeSpec => []NothingRevived)
<1>1. ASSUME PatientClient, AudioID = {}
      PROVE  RecoveryInv => NothingRevived
  <2> SUFFICES ASSUME RecoveryInv, Store!Drained
               PROVE  /\ \A th \in DOMAIN RestoredThird :
                           th \in DOMAIN ids.third /\ ids.third[th] = RestoredThird[th]
                      /\ OpenOf(RestoredDec) \subseteq OpenOf(dec)
    BY DEF NothingRevived
  <2>1. FilesTell
    BY DrainedFilesTell
  <2>2. promised \subseteq WindowOwners /\ WindowOwners \subseteq WindowID
        /\ WindowOwners \subseteq DOMAIN ids.third
    BY DEF RecoveryInv, OwnersOK, WindowOwners
  <2>3. \A th \in DOMAIN RestoredThird : th \in promised /\ RestoredThird[th] = ids.third[th]
    BY <1>1, <2>1, <2>2, OwnersRead
  <2>4. OpenOf(RestoredDec) \subseteq OpenOf(dec)
    BY <2>1, RecordsRead DEF OpenOf
  <2> QED
    BY <2>2, <2>3, <2>4
<1>2. ASSUME PatientClient, AudioID = {}
      PROVE  NodeSpec => []NothingRevived
  BY <1>1, <1>2, RecoveryInvariantHolds, PTL
<1> QED
  BY <1>2
=============================================================================
