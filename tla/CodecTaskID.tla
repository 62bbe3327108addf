---------------------------- MODULE CodecTaskID ----------------------------
(***************************************************************************)
(* The three tables in which an output node (NodeInfo) records which codec *)
(* task serves which task of the controlling software, and the operations  *)
(* of NodeInfo on them.  The controlling software numbers its own tasks    *)
(* ("third" ids); the node lends each of them one codec task id out of a   *)
(* fixed pool per task type.                                               *)
(*                                                                         *)
(* The tables are kept in one record t:                                    *)
(*   t.third   _mOutThirdCodecTaskID, third id -> codec id                 *)
(*   t.used    _vAllUseCodecTaskID, the codec ids lent out (the code       *)
(*             pushes an id only when it is not there: the vector is a set)*)
(*   t.beUsed  _mOutCodecTaskIDBeUsed, how many ids of each pool are lent  *)
(*                                                                         *)
(* Every operation is an operator from tables to tables, so that a handler *)
(* that calls several of them is still one action.                         *)
(***************************************************************************)
EXTENDS Integers, FiniteSets

CONSTANTS ThirdID,      \* the task ids the controlling software may use
          AudioTaskID,  \* _vAudioTaskID, the audio decoding tasks
          VideoTaskID,  \* _vVideoTaskID, the video decoding tasks
          AuViTaskID    \* _vAuViTaskID, the audio-and-video decoding tasks

(* The ranges of "Codec task id" in the comment above removeCodecTaskID.    *)
ASSUME TaskIDAssumption ==
  /\ ThirdID \subseteq Nat
  /\ AudioTaskID \subseteq 256..511
  /\ VideoTaskID \subseteq 1024..1279
  /\ AuViTaskID \subseteq 1536..1791

CodecID == AudioTaskID \cup VideoTaskID \cup AuViTaskID

TaskType == {"audio", "video", "auvi"}

Pool == [audio |-> AudioTaskID, video |-> VideoTaskID, auvi |-> AuViTaskID]

(* Maps (std::map): insertion keeps an entry that is there, assignment     *)
(* through operator[] replaces it.                                         *)
PutKeepsOld(f, k, v) ==  \* mutant: operator[] taken for insert
  [x \in DOMAIN f \cup {k} |-> IF x \in DOMAIN f THEN f[x] ELSE v]

Put(f, k, v) == [x \in DOMAIN f \cup {k} |-> IF x = k THEN v ELSE f[x]]

Insert(f, k, v) == IF k \in DOMAIN f THEN f ELSE Put(f, k, v)

Erase(f, k) == [x \in DOMAIN f \ {k} |-> f[x]]

EmptyMap == [x \in {} |-> 0]

Least(S) == CHOOSE x \in S : \A y \in S : x <= y

(* f is a map from some of the keys in K to values in V.                    *)
IsMap(f, K, V) == DOMAIN f \subseteq K /\ f \in [DOMAIN f -> V]

AreTables(t) ==
  /\ t = [third |-> t.third, used |-> t.used, beUsed |-> t.beUsed]
  /\ IsMap(t.third, ThirdID, CodecID \cup {0})
  /\ t.used \subseteq CodecID
  /\ t.beUsed \in [TaskType -> Nat]

NoTables == [third |-> EmptyMap, used |-> {}, beUsed |-> [y \in TaskType |-> 0]]

-----------------------------------------------------------------------------
(* The error codes share the value space of the codec ids: a caller tells  *)
(* them apart with "id > 1792".                                            *)
DP_ERR_TASK_ID_NOTEXIST      == 51204
DP_ERR_TASK_SOURCE_NOTENOUGH == 51206
DP_ERR_THIRD_TASK_ID         == 51969
DP_ERR_FULL_CODEC_TASK_ID    == 51970

IsTaskID(id) == id <= 1792

(* The pool of a type from which nothing is left, judged by its counter.   *)
Full(t, ty) == Cardinality(Pool[ty]) <= t.beUsed[ty]

Free(t, ty) == Pool[ty] \ t.used

(* findNewID: what it returns ...                                          *)
FindNewID(t, th, ty) ==
  CASE th \in DOMAIN t.third -> DP_ERR_THIRD_TASK_ID
    [] th \notin DOMAIN t.third /\ Full(t, ty) -> DP_ERR_FULL_CODEC_TASK_ID
    [] th \notin DOMAIN t.third /\ ~Full(t, ty) /\ Free(t, ty) = {} ->
         DP_ERR_TASK_SOURCE_NOTENOUGH
    [] OTHER -> Least(Free(t, ty))

(* ... and the tables it leaves.                                           *)
Lend(t, th, ty) ==
  LET id == FindNewID(t, th, ty)
  IN IF IsTaskID(id)
     THEN [third  |-> Put(t.third, th, id),
           used   |-> t.used \cup {id},
           beUsed |-> [t.beUsed EXCEPT ![ty] = @ + 1]]
     ELSE t

(* The type removeCodecTaskID reads off an id's range; an id outside the   *)
(* ranges (the 0 that a restored audio task may carry) has none.           *)
TypeOfID(id) ==
  CASE id \in 256..511   -> "audio"
    [] id \in 1024..1279 -> "video"
    [] id \in 1536..1791 -> "auvi"
    [] OTHER             -> "none"

RemoveUncounted(t, th) ==  \* mutant: the counter is not taken down
  IF th \notin DOMAIN t.third THEN t
  ELSE [t EXCEPT !.third = Erase(@, th), !.used = @ \ {t.third[th]}]

RemoveThirdOnly(t, th) == [t EXCEPT !.third = Erase(@, th)]  \* mutant

RemoveUsedOnly(t, th) ==  \* mutant: the map keeps its entry
  IF th \notin DOMAIN t.third THEN t ELSE [t EXCEPT !.used = @ \ {t.third[th]}]

(* removeCodecTaskID: the id goes back even if another third id maps to it.*)
RemoveCodecTaskID(t, th) ==
  IF th \notin DOMAIN t.third THEN t
  ELSE LET id == t.third[th]
           ty == TypeOfID(id)
       IN CASE ty = "none" -> t
            [] ty # "none" /\ id \notin t.used -> [t EXCEPT !.third = Erase(@, th)]
            [] OTHER ->
                 [third  |-> Erase(t.third, th),
                  used   |-> t.used \ {id},
                  beUsed |-> [t.beUsed EXCEPT ![ty] = IF @ > 0 THEN @ - 1 ELSE @]]

(* The third ids a codec id is lent to; find_if meets the least one first. *)
Borrowers(t, id) == {th \in DOMAIN t.third : t.third[th] = id}

UpdateKeepsFormer(t, th, id) == [t EXCEPT !.third = Insert(@, th, id)]  \* mutant

(* updateThirdTaskIDCodecTaskid: th takes the id over from the third id    *)
(* that had it; the id is not entered in used when nobody had it.          *)
UpdateThirdTaskID(t, th, id) ==
  LET had == Borrowers(t, id)
      rest == IF had = {} THEN t.third ELSE Erase(t.third, Least(had))
  IN [t EXCEPT !.third = Insert(rest, th, id)]

(* setServerTaskID                                                         *)
ServerTaskID(t, th) ==
  IF th \in DOMAIN t.third THEN t.third[th] ELSE DP_ERR_TASK_ID_NOTEXIST

-----------------------------------------------------------------------------
(* The counter that decides whether a pool is full agrees with the list of *)
(* ids lent out: the two are updated at different places of findNewID,     *)
(* removeCodecTaskID and setOutputTaskIDInMap and never compared.          *)
CountsAgree(t) ==
  \A ty \in TaskType : t.beUsed[ty] = Cardinality(t.used \cap Pool[ty])

(* Every codec id lent out has exactly one borrower, and nothing else is   *)
(* lent.                                                                   *)
LentOnce(t) ==
  /\ \A th \in DOMAIN t.third : t.third[th] \in t.used
  /\ \A id \in t.used : \E th \in DOMAIN t.third : t.third[th] = id
  /\ \A x, y \in DOMAIN t.third : t.third[x] = t.third[y] => x = y
=============================================================================
