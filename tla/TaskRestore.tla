---------------------------- MODULE TaskRestore ----------------------------
(***************************************************************************)
(* How an output node keeps its tasks across a restart (class TaskRestore).*)
(* The command handlers queue jobs; the threads of a pool run them, each   *)
(* of which reads one of three json files, changes it and writes it back:  *)
(*    avdec   one entry per codec task, its whole record                   *)
(*    window  third id, codec id and source area of each window            *)
(*    audio   third id, codec id and AO device of each audio stream        *)
(* A file has a mutex.  A job that saves an entry holds it from the read   *)
(* to the end of the write; a job that removes one (removeThirdTask) holds *)
(* it for the read only.  To open a file for writing truncates it, and a   *)
(* truncated file does not parse.  The files survive a crash, the queue    *)
(* and the threads do not.                                                 *)
(*                                                                         *)
(* setAVDecEncInfoToJson is declared in TaskRestore.h but defined in a     *)
(* header that the repository lacks; it is taken to use the avdec mutex    *)
(* the way setThirdWindowTaskToJson uses the window mutex.                 *)
(***************************************************************************)
EXTENDS Naturals, Sequences, FiniteSetsExt, Listing

CONSTANTS Worker,    \* the threads of the pool; main starts two
          MaxQueue   \* bound of the queue; 32 in main

VARIABLES files,     \* file -> whether it parses, and its entries in order
          queue,     \* jobs not yet taken
          threads    \* what each thread is doing

File == {"avdec", "window", "audio"}

(* An unreadable file: missing, or truncated by a write that is under way  *)
(* or never finished.                                                      *)
Unreadable == [parses |-> FALSE, list |-> <<>>]

Readable(list) == [parses |-> TRUE, list |-> list]

Save(file, entry) == [do |-> "save", file |-> file, entry |-> entry]

Remove(file, th) == [do |-> "remove", file |-> file, third |-> th]

Idle == [at |-> "idle"]

Files0(list) == [f \in File |-> IF f = "avdec" THEN Readable(list) ELSE Unreadable]

(* The pool starts with nothing queued, with the files as they are.        *)
NothingQueued == queue = <<>> /\ threads = [w \in Worker |-> Idle]

-----------------------------------------------------------------------------
(* The key of an entry when it is saved: the third id of a window, but the *)
(* codec id of an audio stream.                                            *)
Key(f) == IF f = "window" THEN "third" ELSE "codec"

OwnersNotRead(f) ==  \* mutant: the owners that were saved before are dropped
  IF f = "avdec" THEN files[f].list ELSE <<>>

(* What a job starts from: the entries of the file, or none.               *)
ReadBack(f) == files[f].list

(* A save replaces the last entry with its key, or appends one.            *)
WithEntry(list, e, key) ==
  LET at == {k \in 1..Len(list) : list[k][key] = e[key]}
  IN IF at = {} THEN Append(list, e) ELSE [list EXCEPT ![Max(at)] = e]

KeptAll(list, th) == list  \* mutant: looked up under a name entries lack

(* A removal drops every entry of the third id.                            *)
WithoutThird(list, th) ==
  LET kept == {k \in 1..Len(list) : list[k].third # th}
  IN [k \in 1..Cardinality(kept) |-> list[InOrder(kept)[k]]]

-----------------------------------------------------------------------------
(* ThreadPool::run blocks its caller while the queue is full.              *)
Submit(jobs) ==
  /\ Len(queue) + Len(jobs) <= MaxQueue
  /\ queue' = queue \o jobs
  /\ UNCHANGED <<files, threads>>

Take(w) ==
  /\ threads[w].at = "idle"
  /\ queue # <<>>
  /\ threads' = [threads EXCEPT ![w] = [at |-> "taken", job |-> Head(queue)]]
  /\ queue' = Tail(queue)
  /\ UNCHANGED files

(* A save has the mutex of its file from its read to the end of its write. *)
Locked(f) ==
  \E w \in Worker : /\ threads[w].at \in {"read", "opened"}
                    /\ threads[w].job.do = "save"
                    /\ threads[w].job.file = f

HasRead(w, list) ==
  threads' = [threads EXCEPT ![w] = [at |-> "read", job |-> @.job, list |-> list]]

ReadToSave(w) ==
  /\ threads[w].at = "taken"
  /\ threads[w].job.do = "save"
  /\ LET job == threads[w].job
     IN /\ ~Locked(job.file)
        /\ HasRead(w, WithEntry(ReadBack(job.file), job.entry, Key(job.file)))
  /\ UNCHANGED <<files, queue>>

ReadToRemove(w) ==
  /\ threads[w].at = "taken"
  /\ threads[w].job.do = "remove"
  /\ LET job == threads[w].job
         list == ReadBack(job.file)
     IN /\ ~Locked(job.file)
        /\ WithoutThird(list, job.third) # list
        /\ HasRead(w, WithoutThird(list, job.third))
  /\ UNCHANGED <<files, queue>>

RetriedForEver(w) == FALSE  \* mutant: the search is repeated until it finds

(* The file does not parse, or has no entry of the third id: nothing is    *)
(* written.                                                                *)
NothingToRemove(w) ==
  /\ threads[w].at = "taken"
  /\ threads[w].job.do = "remove"
  /\ LET job == threads[w].job
     IN /\ ~Locked(job.file)
        /\ WithoutThird(ReadBack(job.file), job.third) = ReadBack(job.file)
  /\ threads' = [threads EXCEPT ![w] = Idle]
  /\ UNCHANGED <<files, queue>>

(* OFStream.open truncates the file.                                       *)
OpenFile(w) ==
  /\ threads[w].at = "read"
  /\ files' = [files EXCEPT ![threads[w].job.file] = Unreadable]
  /\ threads' = [threads EXCEPT ![w].at = "opened"]
  /\ UNCHANGED queue

(* OFStream.close writes the buffered contents at once.  When a second     *)
(* writer had opened the file, what remains of a longer first text follows *)
(* the end of the json value, where the parser does not look.              *)
CloseFile(w) ==
  /\ threads[w].at = "opened"
  /\ files' = [files EXCEPT ![threads[w].job.file] = Readable(threads[w].list)]
  /\ threads' = [threads EXCEPT ![w] = Idle]
  /\ UNCHANGED queue

Work(w) ==
  \/ Take(w)
  \/ ReadToSave(w)
  \/ ReadToRemove(w)
  \/ NothingToRemove(w)
  \/ OpenFile(w)
  \/ CloseFile(w)

(* Every job is done.                                                      *)
Drained == queue = <<>> /\ \A w \in Worker : threads[w].at = "idle"

-----------------------------------------------------------------------------
(* What a start of the node reads back: the entry of a key that it meets   *)
(* first wins, because the maps are filled with insert.                    *)
First(list, key, k) ==
  list[Min({j \in 1..Len(list) : list[j][key] = k})]

Keys(list, key) == {list[j][key] : j \in 1..Len(list)}
=============================================================================
