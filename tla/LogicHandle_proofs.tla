------------------------- MODULE LogicHandle_proofs -------------------------
(***************************************************************************)
(* What the handlers of an output node keep, for every set of third ids,   *)
(* codec tasks and source areas, under every fault of the codec link and   *)
(* every mistake of the client that LogicHandle models.  First the tables  *)
(* of CodecTaskID: what the operations on them preserve.                   *)
(***************************************************************************)
EXTENDS LogicHandle, FiniteSetTheorems, WellFoundedInduction, TLAPS

(* The three facts together.                                               *)
TablesInv(t) ==
  /\ AreTables(t)
  /\ CountsAgree(t)
  /\ \A id \in t.used : Borrowers(t, id) # {}

-----------------------------------------------------------------------------
(* A non-empty set of naturals has a least element: findNewID returns the  *)
(* first free id, find_if the first borrower.                              *)
LEMMA LeastExists ==
  ASSUME NEW S \in SUBSET Nat, S # {}
  PROVE  \E x \in S : \A y \in S : x <= y
<1>1. \E x \in S : \A y \in S : ~(<<y, x>> \in OpToRel(<, Nat))
  BY NatLessThanWellFounded, WFMin
<1>2. PICK x \in S : \A y \in S : ~(<<y, x>> \in OpToRel(<, Nat))
  BY <1>1
<1>3. ASSUME NEW y \in S
      PROVE  x <= y
  <2>1. <<y, x>> \in Nat \X Nat
    OBVIOUS
  <2>2. ~(y < x)
    BY <1>2, <2>1 DEF OpToRel
  <2> QED
    BY <2>2
<1> QED
  BY <1>3

LEMMA LeastInSet ==
  ASSUME NEW S \in SUBSET Nat, S # {}
  PROVE  Least(S) \in S
<1> QED
  BY LeastExists DEF Least

(* The pools are finite, made of codec ids, and disjoint.                  *)
LEMMA PoolsAreFinite ==
  ASSUME NEW ty \in TaskType
  PROVE  /\ IsFiniteSet(Pool[ty])
         /\ Pool[ty] \subseteq CodecID
         /\ Pool[ty] \subseteq Nat
         /\ \A i \in Pool[ty] : IsTaskID(i) /\ TypeOfID(i) = ty
<1>1. ASSUME NEW S \in SUBSET Nat, NEW n \in Nat, n = 1791, \A i \in S : i <= n
      PROVE  IsFiniteSet(S)
  BY <1>1, FS_BoundedSetOfNaturals
<1>2. /\ AudioTaskID \in SUBSET Nat /\ \A i \in AudioTaskID : i <= 1791
      /\ VideoTaskID \in SUBSET Nat /\ \A i \in VideoTaskID : i <= 1791
      /\ AuViTaskID \in SUBSET Nat /\ \A i \in AuViTaskID : i <= 1791
  BY TaskIDAssumption
<1>3. IsFiniteSet(AudioTaskID) /\ IsFiniteSet(VideoTaskID) /\ IsFiniteSet(AuViTaskID)
  BY <1>1, <1>2
<1>5. IsFiniteSet(Pool[ty]) /\ Pool[ty] \subseteq CodecID
  BY <1>3 DEF TaskType, Pool, CodecID
<1>6. ASSUME NEW i \in Pool[ty]
      PROVE  i \in Nat /\ IsTaskID(i) /\ TypeOfID(i) = ty
  <2>1. CASE ty = "audio"
    BY <2>1, TaskIDAssumption DEF Pool, IsTaskID, TypeOfID
  <2>2. CASE ty = "video"
    BY <2>2, TaskIDAssumption DEF Pool, IsTaskID, TypeOfID
  <2>3. CASE ty = "auvi"
    BY <2>3, TaskIDAssumption DEF Pool, IsTaskID, TypeOfID
  <2> QED
    BY <2>1, <2>2, <2>3 DEF TaskType
<1> QED
  BY <1>5, <1>6

(* ... and hold every codec id, each in the pool of its type.              *)
LEMMA TypeOfCodecID ==
  ASSUME NEW i \in CodecID
  PROVE  /\ TypeOfID(i) \in TaskType
         /\ \A ty \in TaskType : i \in Pool[ty] <=> ty = TypeOfID(i)
<1>1. \E ty \in TaskType : i \in Pool[ty]
  BY DEF CodecID, TaskType, Pool
<1> QED
  BY <1>1, PoolsAreFinite

-----------------------------------------------------------------------------
(* findNewID returns either an error or a free id of the pool asked for.   *)
LEMMA FoundIsFree ==
  ASSUME NEW t, NEW th, NEW ty \in TaskType, IsTaskID(FindNewID(t, th, ty))
  PROVE  /\ th \notin DOMAIN t.third
         /\ FindNewID(t, th, ty) \in Pool[ty] \ t.used
<1>1. FindNewID(t, th, ty) = Least(Free(t, ty)) /\ Free(t, ty) # {}
      /\ th \notin DOMAIN t.third
  BY DEF FindNewID, IsTaskID, DP_ERR_THIRD_TASK_ID, DP_ERR_FULL_CODEC_TASK_ID,
         DP_ERR_TASK_SOURCE_NOTENOUGH
<1>2. Free(t, ty) \subseteq Nat
  BY PoolsAreFinite DEF Free
<1> QED
  BY <1>1, <1>2, LeastInSet DEF Free

-----------------------------------------------------------------------------
(* Lending: the id found is entered in the map, in the list and in the     *)
(* counter of its own pool only.                                           *)
LEMMA LendCounts ==
  ASSUME NEW t, AreTables(t), CountsAgree(t), NEW th \in ThirdID, NEW ty \in TaskType
  PROVE  AreTables(Lend(t, th, ty)) /\ CountsAgree(Lend(t, th, ty))
<1>1. CASE ~IsTaskID(FindNewID(t, th, ty))
  BY <1>1 DEF Lend
<1>2. CASE IsTaskID(FindNewID(t, th, ty))
  <2> DEFINE id == FindNewID(t, th, ty)
             u == Lend(t, th, ty)
  <2>1. /\ th \notin DOMAIN t.third
        /\ id \in Pool[ty] \ t.used
        /\ id \in CodecID
    BY <1>2, FoundIsFree, PoolsAreFinite
  <2>2. u = [third  |-> Put(t.third, th, id),
             used   |-> t.used \cup {id},
             beUsed |-> [t.beUsed EXCEPT ![ty] = @ + 1]]
    BY <1>2 DEF Lend
  <2> HIDE DEF id, u
  <2>3. AreTables(u)
    BY <2>1, <2>2 DEF AreTables, IsMap, Put
  <2>4. CountsAgree(u)
    <3>1. ASSUME NEW y \in TaskType
          PROVE  u.beUsed[y] = Cardinality(u.used \cap Pool[y])
      <4>1. IsFiniteSet(t.used \cap Pool[y])
        BY PoolsAreFinite, FS_Intersection
      <4>2. t.beUsed[y] = Cardinality(t.used \cap Pool[y]) /\ t.beUsed[y] \in Nat
        BY DEF CountsAgree, AreTables
      <4>3. CASE y = ty
        <5>1. u.used \cap Pool[y] = (t.used \cap Pool[y]) \cup {id}
          BY <2>1, <2>2, <4>3
        <5>2. Cardinality(u.used \cap Pool[y]) = Cardinality(t.used \cap Pool[y]) + 1
          BY <5>1, <4>1, <2>1, FS_AddElement
        <5> QED
          BY <5>2, <4>2, <4>3, <2>2 DEF AreTables
      <4>4. CASE y # ty
        <5>1. id \notin Pool[y]
          BY <4>4, <2>1, PoolsAreFinite
        <5>2. u.used \cap Pool[y] = t.used \cap Pool[y]
          BY <5>1, <2>2
        <5> QED
          BY <5>2, <4>2, <4>4, <2>2 DEF AreTables
      <4> QED
        BY <4>3, <4>4
    <3> QED
      BY <3>1 DEF CountsAgree
  <2> QED
    BY <2>3, <2>4 DEF u
<1> QED
  BY <1>1, <1>2

LEMMA LendKeepsTables ==
  ASSUME NEW t, TablesInv(t), NEW th \in ThirdID, NEW ty \in TaskType
  PROVE  TablesInv(Lend(t, th, ty))
<1>1. AreTables(t) /\ CountsAgree(t)
  BY DEF TablesInv
<1>2. AreTables(Lend(t, th, ty)) /\ CountsAgree(Lend(t, th, ty))
  BY <1>1, LendCounts
<1>3. ASSUME IsTaskID(FindNewID(t, th, ty)), NEW i \in Lend(t, th, ty).used
      PROVE  Borrowers(Lend(t, th, ty), i) # {}
  <2>1. th \notin DOMAIN t.third
    BY <1>3, FoundIsFree
  <2> QED
    BY <1>3, <2>1 DEF TablesInv, Lend, Borrowers, Put
<1>4. ~IsTaskID(FindNewID(t, th, ty)) => Lend(t, th, ty) = t
  BY DEF Lend
<1> QED
  BY <1>2, <1>3, <1>4 DEF TablesInv

(* Returning: the id leaves the list and the counter of its pool goes down *)
(* by one; a borrower of an id that is not in the list only leaves the map.*)
LEMMA RemoveCounts ==
  ASSUME NEW t, AreTables(t), CountsAgree(t), NEW th
  PROVE  AreTables(RemoveCodecTaskID(t, th)) /\ CountsAgree(RemoveCodecTaskID(t, th))
<1> DEFINE id == t.third[th]
           ty == TypeOfID(id)
           u == RemoveCodecTaskID(t, th)
<1>1. CASE th \notin DOMAIN t.third \/ ty = "none"
  BY <1>1 DEF RemoveCodecTaskID
<1>2. CASE th \in DOMAIN t.third /\ ty # "none" /\ id \notin t.used
  <2>1. u = [t EXCEPT !.third = Erase(@, th)]
    BY <1>2 DEF RemoveCodecTaskID
  <2> QED
    BY <1>2, <2>1 DEF AreTables, IsMap, CountsAgree, Erase
<1>3. CASE th \in DOMAIN t.third /\ ty # "none" /\ id \in t.used
  <2>1. id \in CodecID
    BY <1>3 DEF AreTables
  <2>2. ty \in TaskType /\ id \in Pool[ty]
    BY <2>1, TypeOfCodecID
  <2>3. u = [third  |-> Erase(t.third, th),
             used   |-> t.used \ {id},
             beUsed |-> [t.beUsed EXCEPT ![ty] = IF @ > 0 THEN @ - 1 ELSE @]]
    BY <1>3 DEF RemoveCodecTaskID
  <2> HIDE DEF id, ty, u
  <2>4. ASSUME NEW y \in TaskType
        PROVE  u.beUsed[y] \in Nat /\ u.beUsed[y] = Cardinality(u.used \cap Pool[y])
    <3>1. IsFiniteSet(t.used \cap Pool[y])
      BY PoolsAreFinite, FS_Intersection
    <3>2. t.beUsed[y] = Cardinality(t.used \cap Pool[y]) /\ t.beUsed[y] \in Nat
      BY DEF CountsAgree, AreTables
    <3>3. CASE y = ty
      <4>1. u.used \cap Pool[y] = (t.used \cap Pool[y]) \ {id}
        BY <2>3
      <4>2. id \in t.used \cap Pool[y]
        BY <1>3, <2>2, <3>3 DEF id
      <4>3. Cardinality(u.used \cap Pool[y]) = Cardinality(t.used \cap Pool[y]) - 1
        BY <4>1, <4>2, <3>1, FS_RemoveElement
      <4>4. t.beUsed[y] > 0
        BY <4>2, <3>1, <3>2, FS_EmptySet
      <4> QED
        BY <4>3, <4>4, <3>2, <3>3, <2>3 DEF AreTables
    <3>4. CASE y # ty
      <4>1. id \notin Pool[y]
        BY <3>4, <2>1, TypeOfCodecID DEF ty
      <4>2. u.used \cap Pool[y] = t.used \cap Pool[y]
        BY <4>1, <2>3
      <4> QED
        BY <4>2, <3>2, <3>4, <2>3 DEF AreTables
    <3> QED
      BY <3>3, <3>4
  <2>5. AreTables(u)
    <3>1. u.beUsed \in [TaskType -> Nat]
      <4>1. u.beUsed = [y \in TaskType |-> u.beUsed[y]]
        BY <2>3 DEF AreTables
      <4> QED
        BY <4>1, <2>4
    <3> QED
      BY <3>1, <2>3 DEF AreTables, IsMap, Erase
  <2> QED
    BY <2>4, <2>5 DEF CountsAgree, u
<1> QED
  BY <1>1, <1>2, <1>3

LEMMA RemoveKeepsTables ==
  ASSUME NEW t, TablesInv(t), NEW th
  PROVE  TablesInv(RemoveCodecTaskID(t, th))
<1> DEFINE u == RemoveCodecTaskID(t, th)
<1>1. AreTables(t) /\ CountsAgree(t)
  BY DEF TablesInv
<1>2. AreTables(u) /\ CountsAgree(u)
  BY <1>1, RemoveCounts
<1>3. \/ u = t
      \/ /\ th \in DOMAIN t.third
         /\ u.third = Erase(t.third, th) /\ u.used = t.used \ {t.third[th]}
  BY <1>1 DEF RemoveCodecTaskID, AreTables
<1>4. \A i \in u.used : Borrowers(u, i) # {}
  BY <1>3 DEF TablesInv, Borrowers, Erase
<1> QED
  BY <1>2, <1>4 DEF TablesInv

(* Handing an id over: only its owner changes.                             *)
LEMMA UpdateCounts ==
  ASSUME NEW t, AreTables(t), CountsAgree(t), NEW th \in ThirdID, th \notin DOMAIN t.third,
         NEW id \in CodecID
  PROVE  /\ AreTables(UpdateThirdTaskID(t, th, id))
         /\ CountsAgree(UpdateThirdTaskID(t, th, id))
         /\ UpdateThirdTaskID(t, th, id).used = t.used
         /\ UpdateThirdTaskID(t, th, id).third[th] = id
         /\ \A x \in DOMAIN t.third : t.third[x] # id =>
               /\ x \in DOMAIN UpdateThirdTaskID(t, th, id).third
               /\ UpdateThirdTaskID(t, th, id).third[x] = t.third[x]
         /\ th \in DOMAIN UpdateThirdTaskID(t, th, id).third
<1> DEFINE had == Borrowers(t, id)
           rest == IF had = {} THEN t.third ELSE Erase(t.third, Least(had))
           u == UpdateThirdTaskID(t, th, id)
<1>1. had \subseteq Nat
  BY TaskIDAssumption DEF AreTables, IsMap, Borrowers
<1>2. had # {} => Least(had) \in had
  BY <1>1, LeastInSet
<1>3. /\ DOMAIN rest \subseteq DOMAIN t.third
      /\ rest = [x \in DOMAIN rest |-> t.third[x]]
      /\ \A x \in DOMAIN t.third : t.third[x] # id => x \in DOMAIN rest
  <2>1. CASE had = {}
    BY <2>1 DEF AreTables, IsMap
  <2>2. CASE had # {}
    BY <2>2, <1>2 DEF Erase, Borrowers
  <2> QED
    BY <2>1, <2>2
<1> HIDE DEF rest
<1>4. u = [t EXCEPT !.third = Put(rest, th, id)]
  BY <1>3 DEF UpdateThirdTaskID, Insert, rest
<1>5. AreTables(u) /\ CountsAgree(u)
  BY <1>3, <1>4 DEF AreTables, IsMap, Put, CountsAgree
<1>6. u.third = Put(rest, th, id) /\ u.used = t.used
  BY <1>4 DEF AreTables
<1> QED
  BY <1>3, <1>5, <1>6 DEF Put

LEMMA UpdateKeepsTables ==
  ASSUME NEW t, TablesInv(t), NEW th \in ThirdID, th \notin DOMAIN t.third,
         NEW id \in CodecID
  PROVE  TablesInv(UpdateThirdTaskID(t, th, id))
<1> DEFINE u == UpdateThirdTaskID(t, th, id)
<1>1. AreTables(t) /\ CountsAgree(t)
  BY DEF TablesInv
<1>2. /\ AreTables(u) /\ CountsAgree(u) /\ u.used = t.used
      /\ th \in DOMAIN u.third /\ u.third[th] = id
      /\ \A x \in DOMAIN t.third : t.third[x] # id => x \in DOMAIN u.third /\ u.third[x] = t.third[x]
  BY <1>1, UpdateCounts
<1> HIDE DEF u
<1>3. \A i \in u.used : Borrowers(u, i) # {}
  BY <1>2 DEF TablesInv, Borrowers
<1> QED
  BY <1>2, <1>3 DEF TablesInv, u

-----------------------------------------------------------------------------
(* The handlers.                                                           *)
(* The priorities of n windows, the bottom one first.                      *)
StackOf(n) == [k \in 1..n |-> k - 1]

(* _vWindowPriority is always such a list: it is what keeps the sort from  *)
(* moving anything and the next priority from wrapping around.             *)
Stacked == \E n \in 0..MaxPriorities : winPriority = StackOf(n)

Copies == [id : CodecID, prio : 0..(U32 - 1), crop : SrcVideo \cup {NoCrop}]

RecordsOK == dec \in [CodecID -> AVDec] /\ codec \in [CodecID -> AVDec]

MapsOK ==
  /\ IsMap(swmsDecInfo, {SwmsChn[i] : i \in CodecID}, Copies)
  /\ IsMap(srcInfo, ThirdID, SrcVideo)
  /\ IsMap(aoCodec, AOChn, CodecID)

ClearOK ==
  /\ isClearTasking \in BOOLEAN
  /\ latch \in 0..1
  /\ worker \in {"idle", "waiting"}
  /\ ClearBarrier

(* The inductive invariant.                                                *)
IInv ==
  /\ TablesInv(ids)
  /\ RecordsOK
  /\ Stacked
  /\ MapsOK
  /\ ClearOK
  /\ reply \in Replies

-----------------------------------------------------------------------------
(* The ids the client uses are third ids, and numbers.                     *)
LEMMA ClientIDs ==
  /\ \A th \in ThirdID : th \in Nat
  /\ \A th \in AudioID : th \in ThirdID
  /\ \A th \in WindowID : th \in ThirdID
<1>1. \A th \in ThirdID : th \in Nat
  BY TaskIDAssumption
<1>2. AudioID \subseteq ThirdID /\ WindowID \subseteq ThirdID
  BY HandlerAssumption
<1> QED
  BY <1>1, <1>2

(* The list of n priorities is a sorted sequence of the record's type.     *)
LEMMA StackIsSorted ==
  ASSUME NEW n \in 0..MaxPriorities
  PROVE  /\ StackOf(n) \in Seq(0..(U32 - 1))
         /\ Len(StackOf(n)) = n
         /\ Sorted(StackOf(n)) = StackOf(n)
<1>1. n \in Nat /\ n <= U32 - 1 /\ U32 \in Nat
  BY HandlerAssumption
<1>2. StackOf(n) \in Seq(0..(U32 - 1)) /\ Len(StackOf(n)) = n
  BY <1>1 DEF StackOf
<1>3. Ascending(StackOf(n))
  BY <1>1, <1>2 DEF Ascending, StackOf
<1> QED
  BY <1>2, <1>3 DEF Sorted

(* What is pushed on it is its length, and popping undoes the push.        *)
LEMMA PushAndPop ==
  ASSUME NEW n \in 0..MaxPriorities, winPriority = StackOf(n)
  PROVE  /\ n > 0 => winPriority # <<>> /\ Back = n - 1 /\ Front(winPriority) = StackOf(n - 1)
         /\ n = 0 => winPriority = <<>>
         /\ n < MaxPriorities => /\ NextPriority = n
                                 /\ Pushed = StackOf(n + 1)
                                 /\ Front(Pushed) = winPriority
<1>1. n \in Nat /\ n <= U32 - 1 /\ U32 \in Nat
  BY HandlerAssumption
<1>2. winPriority \in Seq(0..(U32 - 1)) /\ Len(winPriority) = n
  BY StackIsSorted
<1>3. ASSUME NEW m \in 1..MaxPriorities
      PROVE  Front(StackOf(m)) = StackOf(m - 1)
  <2>1. StackOf(m) \in Seq(0..(U32 - 1)) /\ Len(StackOf(m)) = m /\ m \in Nat \ {0}
    BY <1>3, StackIsSorted, HandlerAssumption
  <2>2. Front(StackOf(m)) = [k \in 1..(m - 1) |-> StackOf(m)[k]]
    BY <2>1 DEF Front
  <2>3. \A k \in 1..(m - 1) : StackOf(m)[k] = k - 1
    BY <2>1 DEF StackOf
  <2>4. Front(StackOf(m)) = [k \in 1..(m - 1) |-> k - 1]
    BY <2>2, <2>3
  <2> QED
    BY <2>4 DEF StackOf
<1>4. n > 0 => winPriority # <<>> /\ Back = n - 1
  BY <1>1, <1>2 DEF StackOf, Back
<1>5. n = 0 => winPriority = <<>>
  BY <1>2
<1>6. CASE n < MaxPriorities
  <2>1. NextPriority = n
    <3>1. n + 1 < U32 + 1 /\ n < U32
      BY <1>1
    <3>2. CASE n = 0
      BY <3>2, <1>5 DEF NextPriority
    <3>3. CASE n > 0
      <4>1. NextPriority = n % U32
        BY <3>3, <1>1, <1>4 DEF NextPriority
      <4> QED
        BY <4>1, <3>1, <1>1
    <3> QED
      BY <3>2, <3>3, <1>1
  <2>2. Append(winPriority, n) = StackOf(n + 1)
    BY <1>1, <1>2 DEF StackOf
  <2>3. n + 1 \in 1..MaxPriorities /\ n + 1 \in 0..MaxPriorities /\ (n + 1) - 1 = n
    BY <1>1, <1>6, HandlerAssumption
  <2>4. Pushed = StackOf(n + 1)
    BY <2>1, <2>2, <2>3, StackIsSorted DEF Pushed
  <2>5. Front(Pushed) = winPriority
    BY <2>3, <2>4, <1>3
  <2> QED
    BY <2>1, <2>4, <2>5, <1>3, <1>4, <1>5, <1>6, <1>1
<1>7. CASE ~(n < MaxPriorities)
  BY <1>7, <1>3, <1>4, <1>5, <1>1
<1> QED
  BY <1>6, <1>7

-----------------------------------------------------------------------------
(* Whatever a handler writes into a record, it stays a record.  U32 is at  *)
(* least 1, so the wrapped priority has a value.                           *)
LEMMA LoweredIsTyped ==
  ASSUME NEW d \in [CodecID -> AVDec], NEW S
  PROVE  Lowered(d, S) \in [CodecID -> AVDec]
<1>1. ASSUME NEW p \in 0..(U32 - 1)
      PROVE  (p + U32 - 1) % U32 \in 0..(U32 - 1)
  <2>1. U32 \in Nat \ {0}
    BY HandlerAssumption
  <2>2. p + U32 - 1 \in Nat
    BY <2>1
  <2> QED
    BY <2>1, <2>2
<1>2. ASSUME NEW i \in CodecID
      PROVE  (IF i \in S THEN [d[i] EXCEPT !.prio = (@ + U32 - 1) % U32] ELSE d[i]) \in AVDec
  BY <1>1 DEF AVDec
<1> QED
  BY <1>2 DEF Lowered

LEMMA RecordsAreTyped ==
  ASSUME dec \in [CodecID -> AVDec], NEW id \in CodecID
  PROVE  /\ Hidden(id) \in [CodecID -> AVDec]
         /\ Muted(id) \in [CodecID -> AVDec]
         /\ [dec EXCEPT ![id].swms = TRUE] \in [CodecID -> AVDec]
         /\ \A o \in 0..2 : [dec EXCEPT ![id].open = o] \in [CodecID -> AVDec]
         /\ \A ao \in AOChn : Streaming(id, ao) \in [CodecID -> AVDec] /\ Restarted(id, ao) \in [CodecID -> AVDec]
<1>1. dec \in [CodecID -> AVDec] /\ dec[id] \in AVDec
  OBVIOUS
<1>2. Hidden(id) \in [CodecID -> AVDec]
  <2>1. \A o \in 0..2 : [dec[id] EXCEPT !.open = o, !.swms = FALSE] \in AVDec
    BY <1>1 DEF AVDec
  <2> QED
    BY <2>1, <1>1 DEF Hidden
<1>3. \A o \in 0..2 : [dec EXCEPT ![id].open = o] \in [CodecID -> AVDec]
  <2>1. \A o \in 0..2 : [dec[id] EXCEPT !.open = o] \in AVDec
    BY <1>1 DEF AVDec
  <2> QED
    BY <2>1, <1>1
<1>4. Muted(id) \in [CodecID -> AVDec]
  <2>1. dec[id].open \in 0..2
    BY <1>1 DEF AVDec
  <2> QED
    BY <2>1, <1>3 DEF Muted
<1>5. [dec EXCEPT ![id].swms = TRUE] \in [CodecID -> AVDec]
  <2>1. [dec[id] EXCEPT !.swms = TRUE] \in AVDec
    BY <1>1 DEF AVDec
  <2> QED
    BY <2>1, <1>1
<1>6. ASSUME NEW ao \in AOChn
      PROVE  Streaming(id, ao) \in [CodecID -> AVDec] /\ Restarted(id, ao) \in [CodecID -> AVDec]
  <2>1. \A o \in 0..2 : [dec[id] EXCEPT !.open = o, !.dev = ao] \in AVDec
    BY <1>1 DEF AVDec
  <2>2. (IF TypeOfID(id) = "audio" THEN 1 ELSE 0) \in 0..2
    OBVIOUS
  <2>3. Streaming(id, ao) \in [CodecID -> AVDec]
    BY <2>1, <1>1 DEF Streaming
  <2>4. Restarted(id, ao) \in [CodecID -> AVDec]
    BY <2>1, <2>2, <1>1 DEF Restarted
  <2> QED
    BY <2>3, <2>4
<1> QED
  BY <1>2, <1>3, <1>4, <1>5, <1>6

LEMMA WindowRecordsAreTyped ==
  ASSUME dec \in [CodecID -> AVDec], NEW id \in CodecID, NEW src \in SrcVideo,
         winPriority # <<>> => Back \in 0..(U32 - 1),
         Len(winPriority) < MaxPriorities => NextPriority \in 0..(U32 - 1)
  PROVE  /\ Len(winPriority) < MaxPriorities => Opened(id, src) \in [CodecID -> AVDec]
         /\ winPriority # <<>> => Raised(id, src) \in [CodecID -> AVDec]
         /\ [dec EXCEPT ![id].crop = src] \in [CodecID -> AVDec]
<1>1. dec \in [CodecID -> AVDec] /\ dec[id] \in AVDec
  OBVIOUS
<1>2. /\ winPriority # <<>> => Back \in 0..(U32 - 1)
      /\ Len(winPriority) < MaxPriorities => NextPriority \in 0..(U32 - 1)
  OBVIOUS
<1>3. ASSUME Len(winPriority) < MaxPriorities
      PROVE  Opened(id, src) \in [CodecID -> AVDec]
  <2>1. \A o \in 0..2 :
          [dec[id] EXCEPT !.open = o, !.swms = TRUE, !.prio = NextPriority, !.crop = src] \in AVDec
    BY <1>1, <1>2, <1>3 DEF AVDec
  <2> QED
    BY <2>1, <1>1 DEF Opened
<1>4. ASSUME winPriority # <<>>
      PROVE  Raised(id, src) \in [CodecID -> AVDec]
  <2>1. [dec[id] EXCEPT !.prio = Back, !.crop = src] \in AVDec
    BY <1>1, <1>2, <1>4 DEF AVDec
  <2> QED
    BY <2>1, <1>1 DEF Raised
<1>5. [dec EXCEPT ![id].crop = src] \in [CodecID -> AVDec]
  <2>1. [dec[id] EXCEPT !.crop = src] \in AVDec
    BY <1>1 DEF AVDec
  <2> QED
    BY <2>1, <1>1
<1> QED
  BY <1>3, <1>4, <1>5

(* Where the invariant holds the priorities fit.                           *)
LEMMA PrioritiesAreTyped ==
  ASSUME IInv
  PROVE  /\ winPriority # <<>> => Back \in 0..(U32 - 1)
         /\ Len(winPriority) < MaxPriorities => NextPriority \in 0..(U32 - 1)
<1>1. PICK n \in 0..MaxPriorities : winPriority = StackOf(n)
  BY DEF IInv, Stacked
<1>2. Len(winPriority) = n
  BY <1>1, StackIsSorted
<1> QED
  BY <1>1, <1>2, PushAndPop, HandlerAssumption

LEMMA RecordsStayTyped ==
  ASSUME IInv, NEW id \in CodecID
  PROVE  /\ Hidden(id) \in [CodecID -> AVDec]
         /\ Muted(id) \in [CodecID -> AVDec]
         /\ [dec EXCEPT ![id].swms = TRUE] \in [CodecID -> AVDec]
         /\ \A o \in 0..2 : [dec EXCEPT ![id].open = o] \in [CodecID -> AVDec]
         /\ \A ao \in AOChn : Streaming(id, ao) \in [CodecID -> AVDec] /\ Restarted(id, ao) \in [CodecID -> AVDec]
<1> QED
  BY RecordsAreTyped DEF IInv, RecordsOK

LEMMA WindowRecordsStayTyped ==
  ASSUME IInv, NEW id \in CodecID, NEW src \in SrcVideo
  PROVE  /\ Len(winPriority) < MaxPriorities => Opened(id, src) \in [CodecID -> AVDec]
         /\ winPriority # <<>> => Raised(id, src) \in [CodecID -> AVDec]
         /\ [dec EXCEPT ![id].crop = src] \in [CodecID -> AVDec]
<1> QED
  BY PrioritiesAreTyped, WindowRecordsAreTyped DEF IInv, RecordsOK

(* ... and what reaches the codec is one of them.                          *)
LEMMA CodecStaysTyped ==
  ASSUME IInv, NEW d \in [CodecID -> AVDec]
  PROVE  /\ \A id \in CodecID : \A o : Sent(d, id, o) \in [CodecID -> AVDec]
         /\ \A c \in [CodecID -> AVDec] : \A S : Arrived(c, d, S) \in [CodecID -> AVDec]
<1>1. codec \in [CodecID -> AVDec]
  BY DEF IInv, RecordsOK
<1> QED
  BY <1>1 DEF Sent, Arrived

-----------------------------------------------------------------------------
(* clearAllTask gives back a set of ids at once, each through its first    *)
(* borrower.                                                               *)
LEMMA GiveBackCounts ==
  ASSUME AreTables(ids), CountsAgree(ids), NEW S \in SUBSET CodecID
  PROVE  AreTables(GiveBack(S)) /\ CountsAgree(GiveBack(S))
<1> DEFINE u == GiveBack(S)
<1>2. ASSUME NEW y \in TaskType
      PROVE  u.beUsed[y] \in Nat /\ u.beUsed[y] = Cardinality(u.used \cap Pool[y])
  <2> DEFINE A == ids.used \cap Pool[y]
  <2>1. IsFiniteSet(A)
    BY PoolsAreFinite, FS_Intersection
  <2>2. ids.beUsed[y] = Cardinality(A)
    BY DEF CountsAgree
  <2>3. IsFiniteSet(A \ S) /\ Cardinality(A \ S) = Cardinality(A) - Cardinality(A \cap S)
    BY <2>1, FS_Difference
  <2>4. A \cap S = S \cap ids.used \cap Pool[y] /\ u.used \cap Pool[y] = A \ S
    BY DEF GiveBack
  <2>5. u.beUsed[y] = ids.beUsed[y] - Cardinality(S \cap ids.used \cap Pool[y])
    BY DEF GiveBack
  <2>6. Cardinality(A \ S) \in Nat
    BY <2>3, FS_CardinalityType
  <2> QED
    BY <2>2, <2>3, <2>4, <2>5, <2>6
<1>3. u.beUsed \in [TaskType -> Nat]
  <2>1. u.beUsed = [y \in TaskType |-> u.beUsed[y]]
    BY DEF GiveBack
  <2> QED
    BY <2>1, <1>2
<1>4. AreTables(u)
  BY <1>3 DEF AreTables, IsMap, GiveBack
<1> QED
  BY <1>2, <1>4 DEF CountsAgree

LEMMA GiveBackKeepsTables ==
  ASSUME TablesInv(ids), NEW S \in SUBSET CodecID, \A i \in S : Borrowers(ids, i) # {}
  PROVE  TablesInv(GiveBack(S))
<1> DEFINE u == GiveBack(S)
<1>1. ASSUME NEW i \in S
      PROVE  FirstBorrower(i) \in Borrowers(ids, i)
  <2>1. Borrowers(ids, i) \in SUBSET Nat
    BY TaskIDAssumption DEF TablesInv, AreTables, IsMap, Borrowers
  <2> QED
    BY <2>1, LeastInSet DEF FirstBorrower
<1>4. AreTables(u) /\ CountsAgree(u)
  BY GiveBackCounts DEF TablesInv
<1>5. ASSUME NEW i \in u.used
      PROVE  Borrowers(u, i) # {}
  <2>1. i \in ids.used /\ i \notin S
    BY DEF GiveBack
  <2>2. PICK th \in DOMAIN ids.third : ids.third[th] = i
    BY <2>1 DEF TablesInv, Borrowers
  <2>3. th \notin {FirstBorrower(j) : j \in S}
    BY <1>1, <2>1, <2>2 DEF Borrowers
  <2> QED
    BY <2>2, <2>3 DEF Borrowers, GiveBack
<1> QED
  BY <1>4, <1>5 DEF TablesInv

-----------------------------------------------------------------------------
(* The handlers.  Each lemma says that one of them keeps the invariant.    *)

LEMMA MapsStayMaps ==
  ASSUME NEW f, NEW K, NEW V, IsMap(f, K, V), NEW k
  PROVE  /\ IsMap(Erase(f, k), K, V)
         /\ \A v \in V : k \in K => IsMap(Put(f, k, v), K, V) /\ IsMap(Insert(f, k, v), K, V)
BY DEF IsMap, Erase, Put, Insert

LEMMA RepliesAreTyped ==
  /\ NoReply \in Replies
  /\ \A cmd \in Command, n \in Nat, ok \in BOOLEAN : Reply(cmd, n, ok) \in Replies
<1>1. ASSUME NEW cmd \in Command, NEW n \in Nat, NEW ok \in BOOLEAN
      PROVE  Reply(cmd, n, ok) \in Replies
  BY DEF Reply, Replies
<1>2. NoReply = Reply("none", 0, FALSE) /\ "none" \in Command
  BY DEF NoReply, Reply, Command
<1> QED
  BY <1>1, <1>2

(* A record kept for status queries is a copy of a record.                 *)
LEMMA CopiesAreTyped ==
  ASSUME NEW d \in [CodecID -> AVDec], NEW id \in CodecID
  PROVE  Copy(d, id) \in Copies
BY DEF Copy, AVDec, Copies

(* createWindow, openAndMoveWindow: a new window.                          *)
LEMMA OpenKeeps ==
  ASSUME IInv, NEW th \in WindowID, NEW src \in SrcVideo, OpenDone(th, src),
         reply' \in Replies
  PROVE  IInv'
<1> DEFINE id == FindNewID(ids, th, "auvi")
<1>1. PICK n \in 0..MaxPriorities : winPriority = StackOf(n)
  BY DEF IInv, Stacked
<1>2. n < MaxPriorities /\ n + 1 \in 0..MaxPriorities /\ Len(winPriority) < MaxPriorities
  BY <1>1, StackIsSorted, HandlerAssumption DEF OpenDone
<1>3. id \in CodecID /\ th \in ThirdID
  BY FoundIsFree, PoolsAreFinite, ClientIDs DEF OpenDone, TaskType
<1>4. TablesInv(ids')
  BY <1>3, LendKeepsTables DEF OpenDone, IInv, TaskType
<1>5. Stacked'
  BY <1>1, <1>2, PushAndPop DEF OpenDone, Stacked
<1>6. dec' \in [CodecID -> AVDec]
  BY <1>2, <1>3, WindowRecordsStayTyped DEF OpenDone
<1>7. RecordsOK'
  BY <1>3, <1>6, CodecStaysTyped DEF OpenDone, RecordsOK
<1>8. MapsOK'
  BY <1>3, <1>6, MapsStayMaps, CopiesAreTyped DEF OpenDone, IInv, MapsOK
<1>9. ClearOK'
  BY DEF OpenDone, IInv, ClearOK, clearVars, ClearBarrier
<1> QED
  BY <1>4, <1>5, <1>7, <1>8, <1>9 DEF IInv

(* The id is given back and the priority popped; the record stays typed.   *)
LEMMA OpenFailsKeeps ==
  ASSUME IInv, NEW th \in WindowID, NEW src \in SrcVideo, NEW o, OpenFails(th, src, o),
         reply' \in Replies
  PROVE  IInv'
<1> DEFINE id == FindNewID(ids, th, "auvi")
<1>1. PICK n \in 0..MaxPriorities : winPriority = StackOf(n)
  BY DEF IInv, Stacked
<1>2. n < MaxPriorities /\ Len(winPriority) < MaxPriorities
  BY <1>1, StackIsSorted, HandlerAssumption DEF OpenFails
<1>3. id \in CodecID /\ th \in ThirdID
  BY FoundIsFree, PoolsAreFinite, ClientIDs DEF OpenFails, TaskType
<1>4. TablesInv(ids')
  BY <1>3, LendKeepsTables, RemoveKeepsTables DEF OpenFails, IInv, TaskType
<1>5. Stacked'
  BY <1>1, <1>2, PushAndPop DEF OpenFails, Stacked
<1>6. RecordsOK'
  BY <1>2, <1>3, WindowRecordsStayTyped, CodecStaysTyped DEF OpenFails, RecordsOK
<1>7. MapsOK' /\ ClearOK'
  BY DEF OpenFails, IInv, MapsOK, ClearOK, clearVars, ClearBarrier
<1> QED
  BY <1>4, <1>5, <1>6, <1>7 DEF IInv

(* moveWindow, openAndMoveWindow: the window goes to the top.              *)
LEMMA RaiseKeeps ==
  ASSUME IInv, NEW th \in WindowID, NEW src \in SrcVideo, NEW show \in BOOLEAN,
         RaiseDone(th, src, show), reply' \in Replies
  PROVE  IInv'
<1> DEFINE id == ids.third[th]
           d == [Raised(id, src) EXCEPT ![id].swms = @ \/ show]
<1>1. id \in CodecID /\ th \in ThirdID /\ winPriority # <<>>
  BY ClientIDs DEF RaiseDone, Known
<1>2. d \in [CodecID -> AVDec]
  <2>1. Raised(id, src) \in [CodecID -> AVDec]
    BY <1>1, WindowRecordsStayTyped
  <2>2. [Raised(id, src)[id] EXCEPT !.swms = @ \/ show] \in AVDec
    BY <2>1, <1>1 DEF AVDec
  <2> QED
    BY <2>1, <2>2
<1>3. PICK S : codec' = Arrived(Sent(d, id, "ok"), dec', S)
  BY DEF RaiseDone
<1>4. dec' \in [CodecID -> AVDec]
  BY <1>2, LoweredIsTyped DEF RaiseDone
<1>5. RecordsOK'
  BY <1>1, <1>2, <1>3, <1>4, CodecStaysTyped DEF RecordsOK
<1>6. MapsOK'
  BY <1>1, <1>2, MapsStayMaps, CopiesAreTyped DEF RaiseDone, IInv, MapsOK
<1>7. TablesInv(ids') /\ Stacked' /\ ClearOK'
  BY DEF RaiseDone, IInv, Stacked, ClearOK, clearVars, ClearBarrier
<1> QED
  BY <1>5, <1>6, <1>7 DEF IInv

LEMMA RaiseFailsKeeps ==
  ASSUME IInv, NEW th \in WindowID, NEW src \in SrcVideo, NEW show \in BOOLEAN, NEW o,
         RaiseFails(th, src, o, show), reply' \in Replies
  PROVE  IInv'
<1> DEFINE id == ids.third[th]
<1>1. id \in CodecID /\ winPriority # <<>>
  BY DEF RaiseFails, Known
<1>2. dec' \in [CodecID -> AVDec]
  <2>1. Raised(id, src) \in [CodecID -> AVDec]
    BY <1>1, WindowRecordsStayTyped
  <2>2. [Raised(id, src)[id] EXCEPT !.swms = @ \/ show] \in AVDec
    BY <2>1, <1>1 DEF AVDec
  <2> QED
    BY <2>1, <2>2 DEF RaiseFails
<1>3. RecordsOK'
  BY <1>1, <1>2, CodecStaysTyped DEF RaiseFails, RecordsOK
<1>4. TablesInv(ids') /\ Stacked' /\ MapsOK' /\ ClearOK'
  BY DEF RaiseFails, IInv, Stacked, MapsOK, ClearOK, windowVars, clearVars, ClearBarrier
<1> QED
  BY <1>3, <1>4 DEF IInv

(* closeWindow: the other windows move down, the list loses its last entry.*)
LEMMA CloseKeeps ==
  ASSUME IInv, NEW th \in WindowID, CloseWindow(th)
  PROVE  IInv'
<1> DEFINE id == ids.third[th]
<1>1. id \in CodecID /\ th \in ThirdID
  BY ClientIDs DEF CloseWindow, Known
<1>2. PICK n \in 0..MaxPriorities : winPriority = StackOf(n)
  BY DEF IInv, Stacked
<1>3. Stacked'
  <2>1. CASE n = 0
    BY <2>1, <1>2, PushAndPop DEF CloseWindow, Stacked
  <2>2. CASE n > 0
    <3>1. n - 1 \in 0..MaxPriorities
      BY <2>2, HandlerAssumption
    <3>2. winPriority' = StackOf(n - 1)
      BY <2>2, <3>1, <1>2, PushAndPop, StackIsSorted DEF CloseWindow
    <3> QED
      BY <3>1, <3>2 DEF Stacked
  <2> QED
    BY <2>1, <2>2
<1>4. Hidden(id) \in [CodecID -> AVDec]
  BY <1>1, RecordsStayTyped
<1>5. dec' \in [CodecID -> AVDec]
  BY <1>4, LoweredIsTyped DEF CloseWindow
<1>6. PICK S : codec' = Arrived(Sent(Hidden(id), id, "ok"), dec', S)
  BY DEF CloseWindow
<1>7. RecordsOK'
  BY <1>1, <1>4, <1>5, <1>6, CodecStaysTyped DEF RecordsOK
<1>8. MapsOK'
  BY MapsStayMaps DEF CloseWindow, IInv, MapsOK
<1>9. TablesInv(ids')
  BY RemoveKeepsTables DEF CloseWindow, IInv
<1>10. reply' \in Replies
  <2>1. reply' = Reply("close", th, TRUE)
    BY DEF CloseWindow
  <2>2. th \in Nat /\ "close" \in Command
    BY <1>1, TaskIDAssumption DEF Command
  <2> QED
    BY <2>1, <2>2, RepliesAreTyped
<1>11. ClearOK'
  BY DEF CloseWindow, IInv, ClearOK, clearVars, ClearBarrier
<1> QED
  BY <1>3, <1>7, <1>8, <1>9, <1>10, <1>11 DEF IInv

LEMMA CloseFailsKeeps ==
  ASSUME IInv, NEW th \in WindowID, NEW o, CloseWindowFails(th, o)
  PROVE  IInv'
<1> DEFINE id == ids.third[th]
<1>1. id \in CodecID
  BY DEF CloseWindowFails, Known
<1>2. Hidden(id) \in [CodecID -> AVDec]
  BY <1>1, RecordsStayTyped
<1>3. RecordsOK'
  BY <1>1, <1>2, CodecStaysTyped DEF CloseWindowFails, RecordsOK
<1>4. TablesInv(ids') /\ Stacked' /\ MapsOK' /\ ClearOK'
  BY DEF CloseWindowFails, IInv, Stacked, MapsOK, ClearOK, windowVars, clearVars,
         ClearBarrier
<1>5. reply' \in Replies
  BY RepliesAreTyped DEF Command, CloseWindowFails
<1> QED
  BY <1>3, <1>4, <1>5 DEF IInv

(* clearAllTask: only tasks with a borrower are given back.                *)
LEMMA ClosedInBatchIsTyped ==
  ASSUME NEW d \in [CodecID -> AVDec], NEW S
  PROVE  [i \in CodecID |-> IF i \in S THEN [d[i] EXCEPT !.open = 0, !.swms = FALSE]
                                       ELSE d[i]] \in [CodecID -> AVDec]
<1>1. ASSUME NEW i \in CodecID
      PROVE  [d[i] EXCEPT !.open = 0, !.swms = FALSE] \in AVDec
  <2>1. d[i] \in AVDec
    OBVIOUS
  <2>2. \A o \in 0..2 : [d[i] EXCEPT !.open = o, !.swms = FALSE] \in AVDec
    BY <2>1 DEF AVDec
  <2> QED
    BY <2>2
<1> QED
  BY <1>1

LEMMA ClearKeeps ==
  ASSUME IInv, NEW ty \in ClearTypes, NEW o, ClearAllTask(ty, o)
  PROVE  IInv'
<1> DEFINE S == ToClear(ty)
<1>1. S \in SUBSET CodecID /\ \A i \in S : Borrowers(ids, i) # {}
  <2>1. ToClear(ty) \subseteq CodecID
    BY HandlerAssumption DEF ToClear, OfClearType, CodecID
  <2> QED
    BY <2>1 DEF ClearAllTask, Cleared, Met, Orphan
<1>2. TablesInv(ids')
  BY <1>1, GiveBackKeepsTables DEF ClearAllTask, IInv
<1>3. RecordsOK'
  <2>1. PICK T : codec' = [i \in CodecID |->
                   IF i \in T THEN [codec[i] EXCEPT !.open = 0, !.swms = FALSE] ELSE codec[i]]
    BY DEF ClearAllTask
  <2>2. dec' = AllHidden(S)
    BY DEF ClearAllTask
  <2> QED
    BY <2>1, <2>2, ClosedInBatchIsTyped DEF AllHidden, IInv, RecordsOK
<1>4. Stacked'
  <2>1. 0 \in 0..MaxPriorities /\ StackOf(0) = <<>>
    BY HandlerAssumption DEF StackOf
  <2> QED
    BY <2>1 DEF ClearAllTask, Stacked
<1>5. MapsOK'
  BY DEF ClearAllTask, IInv, MapsOK, IsMap, EmptyMap
<1>6. ClearOK'
  <2>1. CountedDown = 0
    BY DEF CountedDown
  <2>2. latch' = 0 /\ isClearTasking' = FALSE /\ worker' = worker
    BY <2>1 DEF ClearAllTask
  <2>3. isClearTasking' \in BOOLEAN
    BY <2>2
  <2>4. latch' \in 0..1
    BY <2>2
  <2>5. ClearBarrier'
    BY <2>2 DEF ClearBarrier
  <2> QED
    BY <2>2, <2>3, <2>4, <2>5 DEF IInv, ClearOK
<1>7. reply' \in Replies
  <2>1. PICK ok \in BOOLEAN : reply' = Reply("clear", ty, ok)
    BY DEF ClearAllTask
  <2>2. ty \in Nat /\ "clear" \in Command
    BY HandlerAssumption DEF Command
  <2> QED
    BY <2>1, <2>2, RepliesAreTyped
<1> QED
  BY <1>2, <1>3, <1>4, <1>5, <1>6, <1>7 DEF IInv

LEMMA ClearAbortedKeeps ==
  ASSUME IInv, NEW ty \in ClearTypes, ClearAborted(ty)
  PROVE  IInv'
<1> DEFINE S == Cleared(ty)
<1>1. S \in SUBSET CodecID /\ \A i \in S : Borrowers(ids, i) # {}
  <2>1. ToClear(ty) \subseteq CodecID
    BY HandlerAssumption DEF ToClear, OfClearType, CodecID
  <2> QED
    BY <2>1 DEF Cleared, Met, Orphan
<1>2. TablesInv(ids')
  BY <1>1, GiveBackKeepsTables DEF ClearAborted, IInv
<1>3. RecordsOK'
  BY ClosedInBatchIsTyped DEF ClearAborted, AllHidden, IInv, RecordsOK
<1>4. Stacked' /\ MapsOK'
  BY DEF ClearAborted, IInv, Stacked, MapsOK, windowVars
<1>5. ClearOK'
  BY DEF ClearAborted, IInv, ClearOK, ClearBarrier
<1>6. reply' \in Replies
  <2>1. reply' = Reply("clear", ty, FALSE)
    BY DEF ClearAborted
  <2>2. ty \in Nat /\ "clear" \in Command
    BY HandlerAssumption DEF Command
  <2> QED
    BY <2>1, <2>2, RepliesAreTyped
<1> QED
  BY <1>2, <1>3, <1>4, <1>5, <1>6 DEF IInv

(* openAudio: a task is lent, or handed over from the stream that had the  *)
(* device.                                                                 *)
LEMMA OpenAudioKeeps ==
  ASSUME IInv, NEW th \in AudioID, NEW ao \in AOChn, OpenAudio(th, ao)
  PROVE  IInv'
<1> DEFINE id == FindNewID(ids, th, "audio")
<1>1. id \in CodecID /\ th \in ThirdID /\ th \in Nat
  BY FoundIsFree, PoolsAreFinite, ClientIDs DEF OpenAudio, TaskType
<1>2. TablesInv(ids')
  BY <1>1, LendKeepsTables DEF OpenAudio, IInv, TaskType
<1>3. RecordsOK'
  BY <1>1, RecordsStayTyped, CodecStaysTyped DEF OpenAudio, RecordsOK
<1>4. MapsOK'
  BY <1>1, MapsStayMaps DEF OpenAudio, IInv, MapsOK, windowVars
<1>5. Stacked' /\ ClearOK'
  BY DEF OpenAudio, IInv, Stacked, ClearOK, windowVars, clearVars, ClearBarrier
<1>6. reply' \in Replies
  <2>1. reply' = Reply("openAudio", th, TRUE) /\ "openAudio" \in Command
    BY DEF OpenAudio, Command
  <2> QED
    BY <2>1, <1>1, RepliesAreTyped
<1> QED
  BY <1>2, <1>3, <1>4, <1>5, <1>6 DEF IInv

LEMMA OpenAudioFailsKeeps ==
  ASSUME IInv, NEW th \in AudioID, NEW ao \in AOChn, NEW o, OpenAudioFails(th, ao, o)
  PROVE  IInv'
<1> DEFINE id == FindNewID(ids, th, "audio")
<1>1. id \in CodecID /\ th \in ThirdID /\ th \in Nat
  BY FoundIsFree, PoolsAreFinite, ClientIDs
     DEF OpenAudioFails, TaskType
<1>2. TablesInv(ids')
  BY <1>1, LendKeepsTables DEF OpenAudioFails, IInv, TaskType
<1>3. RecordsOK'
  BY <1>1, RecordsStayTyped, CodecStaysTyped DEF OpenAudioFails, RecordsOK
<1>4. MapsOK' /\ Stacked' /\ ClearOK'
  BY DEF OpenAudioFails, IInv, MapsOK, Stacked, ClearOK, windowVars, clearVars, ClearBarrier
<1>5. reply' \in Replies
  <2>1. reply' = Reply("openAudio", th, FALSE) /\ "openAudio" \in Command
    BY DEF OpenAudioFails, Command
  <2> QED
    BY <2>1, <1>1, RepliesAreTyped
<1> QED
  BY <1>2, <1>3, <1>4, <1>5 DEF IInv

LEMMA ShiftAudioKeeps ==
  ASSUME IInv, NEW th \in AudioID, NEW ao \in AOChn, ShiftAudio(th, ao)
  PROVE  IInv'
<1> DEFINE id == aoCodec[ao]
<1>1. id \in CodecID /\ th \in ThirdID /\ th \in Nat /\ th \notin DOMAIN ids.third
  <2>1. id \in CodecID /\ th \notin DOMAIN ids.third
    BY DEF ShiftAudio, HasTask
  <2> QED
    BY <2>1, ClientIDs
<1>2. TablesInv(ids')
  BY <1>1, UpdateKeepsTables DEF ShiftAudio, IInv
<1>3. RecordsOK'
  BY <1>1, RecordsStayTyped, CodecStaysTyped DEF ShiftAudio, RecordsOK
<1>4. MapsOK' /\ Stacked' /\ ClearOK'
  BY DEF ShiftAudio, IInv, MapsOK, Stacked, ClearOK, windowVars, clearVars, ClearBarrier
<1>5. reply' \in Replies
  <2>1. reply' = Reply("openAudio", th, TRUE) /\ "openAudio" \in Command
    BY DEF ShiftAudio, Command
  <2> QED
    BY <2>1, <1>1, RepliesAreTyped
<1> QED
  BY <1>2, <1>3, <1>4, <1>5 DEF IInv

LEMMA ShiftAudioFailsKeeps ==
  ASSUME IInv, NEW th \in AudioID, NEW ao \in AOChn, NEW o, NEW stopped,
         ShiftAudioFails(th, ao, o, stopped)
  PROVE  IInv'
<1> DEFINE id == aoCodec[ao]
           stop == [dec EXCEPT ![id].open = 0]
<1>1. id \in CodecID /\ th \in ThirdID /\ th \in Nat
  BY ClientIDs DEF ShiftAudioFails
<1>2. stop \in [CodecID -> AVDec] /\ dec' \in [CodecID -> AVDec]
  <2>1. stop \in [CodecID -> AVDec] /\ Restarted(id, ao) \in [CodecID -> AVDec]
    <3>1. 0 \in 0..2
      OBVIOUS
    <3> QED
      BY <3>1, <1>1, RecordsStayTyped
  <2> QED
    BY <2>1 DEF ShiftAudioFails
<1>3. RecordsOK'
  BY <1>1, <1>2, CodecStaysTyped DEF ShiftAudioFails, RecordsOK
<1>4. TablesInv(ids') /\ MapsOK' /\ Stacked' /\ ClearOK'
  BY DEF ShiftAudioFails, IInv, MapsOK, Stacked, ClearOK, windowVars, clearVars, ClearBarrier
<1>5. reply' \in Replies
  <2>1. reply' = Reply("openAudio", th, FALSE) /\ "openAudio" \in Command
    BY DEF ShiftAudioFails, Command
  <2> QED
    BY <2>1, <1>1, RepliesAreTyped
<1> QED
  BY <1>3, <1>4, <1>5 DEF IInv

(* closeAudio: an audio task is given back, a window's task keeps running. *)
LEMMA CloseAudioKeeps ==
  ASSUME IInv, NEW th \in AudioID, NEW ao, CloseAudio(th, ao)
  PROVE  IInv'
<1> DEFINE id == ids.third[th]
<1>1. id \in CodecID /\ th \in Nat
  BY ClientIDs DEF CloseAudio, Known
<1>2. TablesInv(ids')
  BY RemoveKeepsTables DEF CloseAudio, IInv
<1>3. RecordsOK'
  BY <1>1, RecordsStayTyped, CodecStaysTyped DEF CloseAudio, RecordsOK
<1>4. MapsOK'
  BY MapsStayMaps DEF CloseAudio, IInv, MapsOK, windowVars
<1>5. Stacked' /\ ClearOK'
  BY DEF CloseAudio, IInv, Stacked, ClearOK, windowVars, clearVars, ClearBarrier
<1>6. reply' \in Replies
  <2>1. reply' = Reply("closeAudio", th, TRUE) /\ "closeAudio" \in Command
    BY DEF CloseAudio, Command
  <2> QED
    BY <2>1, <1>1, RepliesAreTyped
<1> QED
  BY <1>2, <1>3, <1>4, <1>5, <1>6 DEF IInv

LEMMA CloseAudioFailsKeeps ==
  ASSUME IInv, NEW th \in AudioID, NEW o, CloseAudioFails(th, o)
  PROVE  IInv'
<1> DEFINE id == ids.third[th]
<1>1. id \in CodecID /\ th \in Nat
  <2>1. id \in CodecID
    BY DEF CloseAudioFails, Known
  <2> QED
    BY <2>1, ClientIDs
<1>2. RecordsOK'
  BY <1>1, RecordsStayTyped, CodecStaysTyped DEF CloseAudioFails, RecordsOK
<1>3. TablesInv(ids') /\ MapsOK' /\ Stacked' /\ ClearOK'
  BY DEF CloseAudioFails, IInv, MapsOK, Stacked, ClearOK, windowVars, clearVars, ClearBarrier
<1>4. reply' \in Replies
  <2>1. reply' = Reply("closeAudio", th, FALSE) /\ "closeAudio" \in Command
    BY DEF CloseAudioFails, Command
  <2> QED
    BY <2>1, <1>1, RepliesAreTyped
<1> QED
  BY <1>2, <1>3, <1>4 DEF IInv

(* The handlers that leave the records and the lists alone: an error, or a *)
(* success without work; some give the id of their task back.              *)
LEMMA QuietKeeps ==
  ASSUME IInv, TablesInv(ids'), RecordsOK', UNCHANGED <<windowVars, aoCodec>>, ClearOK',
         reply' \in Replies
  PROVE  IInv'
BY DEF IInv, Stacked, MapsOK, windowVars

-----------------------------------------------------------------------------
LEMMA InitHolds == Init => IInv
<1> SUFFICES ASSUME Init PROVE IInv
  OBVIOUS
<1>1. TablesInv(ids)
  <2>1. \A y \in TaskType : {} \cap Pool[y] = {} /\ Cardinality({}) = 0
    BY FS_EmptySet
  <2>2. ids.used = {} /\ ids.beUsed = [y \in TaskType |-> 0]
    BY DEF Init, NoTables
  <2>3. AreTables(ids)
    BY DEF Init, NoTables, AreTables, IsMap, EmptyMap
  <2>4. CountsAgree(ids)
    BY <2>1, <2>2 DEF CountsAgree
  <2> QED
    BY <2>2, <2>3, <2>4 DEF TablesInv
<1>2. RecordsOK
  <2>1. \A o \in 0..2, p \in 0..(U32 - 1) :
          [open |-> o, swms |-> FALSE, prio |-> p, crop |-> NoCrop, dev |-> "HDMI0"] \in AVDec
    BY DEF AVDec, AOChn
  <2>2. 0 \in 0..(U32 - 1)
    BY HandlerAssumption
  <2>3. Closed \in AVDec
    BY <2>1, <2>2 DEF Closed
  <2> QED
    BY <2>3 DEF Init, RecordsOK
<1>3. Stacked
  <2>1. 0 \in 0..MaxPriorities /\ StackOf(0) = <<>>
    BY HandlerAssumption DEF StackOf
  <2> QED
    BY <2>1 DEF Init, Stacked
<1>4. MapsOK
  BY DEF Init, MapsOK, IsMap, EmptyMap
<1>5. ClearOK
  <2>1. isClearTasking \in BOOLEAN
    BY DEF Init
  <2>2. latch \in 0..1 /\ worker \in {"idle", "waiting"}
    BY DEF Init
  <2>3. ClearBarrier
    BY DEF Init, ClearBarrier
  <2> QED
    BY <2>1, <2>2, <2>3 DEF ClearOK
<1>6. reply \in Replies
  BY RepliesAreTyped DEF Init
<1> QED
  BY <1>1, <1>2, <1>3, <1>4, <1>5, <1>6 DEF IInv

(* The commands for windows.                                               *)
LEMMA WindowStep ==
  ASSUME IInv, NEW th \in WindowID, OpenOrCreate(th) \/ RaiseOrMove(th) \/ Close(th)
  PROVE  IInv'
<1>1. th \in ThirdID /\ th \in Nat
  BY ClientIDs
<1>2. \A cmd \in Command, ok \in BOOLEAN : Reply(cmd, th, ok) \in Replies
  BY <1>1, RepliesAreTyped
<1>3. NoReply \in Replies /\ {"open", "create", "move", "close"} \subseteq Command
  BY RepliesAreTyped DEF Command
<1>4. TRUE \in BOOLEAN /\ FALSE \in BOOLEAN
  OBVIOUS
<1>5. ASSUME OpenOrCreate(th)
      PROVE  IInv'
  <2>1. ASSUME NEW src \in SrcVideo, OpenWindow(th, src) \/ CreateWindow(th, src)
        PROVE  IInv'
    BY <2>1, <1>2, <1>3, <1>4, OpenKeeps DEF OpenWindow, CreateWindow
  <2>2. ASSUME NEW src \in SrcVideo, NEW o,
               OpenWindowFails(th, src, o) \/ CreateWindowFails(th, src, o)
        PROVE  IInv'
    BY <2>2, <1>2, <1>3, <1>4, OpenFailsKeeps DEF OpenWindowFails, CreateWindowFails
  <2>3. ASSUME OpenWindowRejected(th) \/ CreateWindowRejected(th)
        PROVE  IInv'
    <3>1. OpenRejected(th) /\ reply' \in Replies
      BY <2>3, <1>2, <1>3, <1>4 DEF OpenWindowRejected, CreateWindowRejected
    <3>2. TablesInv(ids')
      BY <3>1, <1>1, LendKeepsTables, RemoveKeepsTables DEF OpenRejected, IInv, TaskType
    <3>3. RecordsOK' /\ ClearOK' /\ UNCHANGED <<windowVars, aoCodec>>
      BY <3>1 DEF OpenRejected, IInv, RecordsOK, ClearOK, clearVars, ClearBarrier
    <3> QED
      BY <3>1, <3>2, <3>3, QuietKeeps
  <2>4. ASSUME CreateWindowAgain(th)
        PROVE  IInv'
    <3>1. reply' \in Replies
      BY <2>4, <1>2, <1>3, <1>4 DEF CreateWindowAgain
    <3>2. TablesInv(ids') /\ RecordsOK' /\ ClearOK' /\ UNCHANGED <<windowVars, aoCodec>>
      BY <2>4 DEF CreateWindowAgain, taskVars, IInv, RecordsOK, ClearOK, clearVars, ClearBarrier
    <3> QED
      BY <3>1, <3>2, QuietKeeps
  <2> QED
    BY <1>5, <2>1, <2>2, <2>3, <2>4 DEF OpenOrCreate
<1>6. ASSUME RaiseOrMove(th)
      PROVE  IInv'
  <2>1. ASSUME NEW src \in SrcVideo, RaiseWindow(th, src) \/ MoveWindow(th, src)
        PROVE  IInv'
    BY <2>1, <1>2, <1>3, <1>4, RaiseKeeps DEF RaiseWindow, MoveWindow
  <2>2. ASSUME NEW src \in SrcVideo, NEW o,
               RaiseWindowFails(th, src, o) \/ MoveWindowFails(th, src, o)
        PROVE  IInv'
    BY <2>2, <1>2, <1>3, <1>4, RaiseFailsKeeps DEF RaiseWindowFails, MoveWindowFails
  <2>3. ASSUME RaiseRejected(th)
        PROVE  IInv'
    <3>1. TablesInv(ids')
      BY <2>3, RemoveKeepsTables DEF RaiseRejected, IInv
    <3>2. RecordsOK' /\ ClearOK' /\ UNCHANGED <<windowVars, aoCodec>> /\ reply' = NoReply
      BY <2>3 DEF RaiseRejected, IInv, RecordsOK, ClearOK, clearVars, ClearBarrier
    <3> QED
      BY <3>1, <3>2, <1>3, QuietKeeps
  <2>4. ASSUME RaiseWithoutStack(th)
        PROVE  IInv'
    <3>1. RecordsOK'
      BY <2>4, RecordsStayTyped DEF RaiseWithoutStack, Known, IInv, RecordsOK
    <3>2. TablesInv(ids') /\ ClearOK' /\ UNCHANGED <<windowVars, aoCodec>> /\ reply' = NoReply
      BY <2>4 DEF RaiseWithoutStack, IInv, ClearOK, clearVars, ClearBarrier
    <3> QED
      BY <3>1, <3>2, <1>3, QuietKeeps
  <2>5. ASSUME NEW src \in SrcVideo, MoveWindowRejected(th, src)
        PROVE  IInv'
    <3>1. RecordsOK'
      BY <2>5, WindowRecordsStayTyped DEF MoveWindowRejected, Known, IInv, RecordsOK
    <3>2. TablesInv(ids') /\ ClearOK' /\ UNCHANGED <<windowVars, aoCodec>>
      BY <2>5 DEF MoveWindowRejected, IInv, ClearOK, clearVars, ClearBarrier
    <3>3. reply' \in Replies
      BY <2>5, <1>2, <1>3, <1>4 DEF MoveWindowRejected
    <3> QED
      BY <3>1, <3>2, <3>3, QuietKeeps
  <2> QED
    BY <1>6, <2>1, <2>2, <2>3, <2>4, <2>5 DEF RaiseOrMove
<1>7. ASSUME Close(th)
      PROVE  IInv'
  <2>1. ASSUME CloseWindowUnknown(th)
        PROVE  IInv'
    <3>1. TablesInv(ids') /\ RecordsOK' /\ ClearOK' /\ UNCHANGED <<windowVars, aoCodec>>
          /\ reply' = NoReply
      BY <2>1 DEF CloseWindowUnknown, taskVars, IInv, RecordsOK, ClearOK, clearVars, ClearBarrier
    <3> QED
      BY <3>1, <1>3, QuietKeeps
  <2> QED
    BY <1>7, <2>1, CloseKeeps, CloseFailsKeeps DEF Close
<1> QED
  BY <1>5, <1>6, <1>7

(* The commands for audio.                                                 *)
LEMMA AudioStep ==
  ASSUME IInv, NEW th \in AudioID, Audio(th)
  PROVE  IInv'
<1>1. th \in Nat
  BY ClientIDs
<1>2. /\ \A ok \in BOOLEAN : Reply("openAudio", th, ok) \in Replies
      /\ \A ok \in BOOLEAN : Reply("closeAudio", th, ok) \in Replies
  BY <1>1, RepliesAreTyped DEF Command
<1>3. TRUE \in BOOLEAN /\ FALSE \in BOOLEAN /\ HasTask(th) \in BOOLEAN
  BY DEF HasTask
<1>4. ASSUME \/ OpenAudioAgain(th)
             \/ CloseAudioUnknown(th)
             \/ \E ao \in AOChn : OpenAudioRejected(th, ao)
      PROVE  IInv'
  <2>1. reply' \in Replies
    BY <1>2, <1>3, <1>4 DEF OpenAudioAgain, CloseAudioUnknown, OpenAudioRejected
  <2>2. UNCHANGED <<taskVars, windowVars, aoCodec, clearVars>>
    BY <1>4 DEF OpenAudioAgain, CloseAudioUnknown, OpenAudioRejected
  <2>3. TablesInv(ids') /\ RecordsOK' /\ ClearOK' /\ UNCHANGED <<windowVars, aoCodec>>
    BY <2>2 DEF taskVars, IInv, RecordsOK, ClearOK, clearVars, ClearBarrier
  <2> QED
    BY <2>1, <2>3, QuietKeeps
<1> QED
  BY <1>4, OpenAudioKeeps, OpenAudioFailsKeeps, ShiftAudioKeeps, ShiftAudioFailsKeeps,
     CloseAudioKeeps, CloseAudioFailsKeeps DEF Audio

LEMMA NextKeeps == IInv /\ [Next]_vars => IInv'
<1> SUFFICES ASSUME IInv, [Next]_vars
             PROVE  IInv'
  OBVIOUS
<1>1. ASSUME NEW ty \in ClearTypes, Clear(ty)
      PROVE  IInv'
  BY <1>1, ClearKeeps, ClearAbortedKeeps DEF Clear
<1>2. ASSUME WaitForClear
      PROVE  IInv'
  <2>1. /\ worker' = "waiting"
        /\ UNCHANGED <<taskVars, windowVars, aoCodec, isClearTasking, latch, reply>>
    BY <1>2 DEF WaitForClear
  <2>2. TablesInv(ids') /\ RecordsOK' /\ ClearOK' /\ UNCHANGED <<windowVars, aoCodec>>
        /\ reply' \in Replies
    BY <2>1 DEF taskVars, IInv, RecordsOK, ClearOK, ClearBarrier
  <2> QED
    BY <2>2, QuietKeeps
<1>3. ASSUME UNCHANGED vars
      PROVE  IInv'
  <2>1. UNCHANGED <<taskVars, windowVars, aoCodec, clearVars, reply>>
    BY <1>3 DEF vars
  <2>2. TablesInv(ids') /\ RecordsOK' /\ ClearOK' /\ UNCHANGED <<windowVars, aoCodec>>
        /\ reply' \in Replies
    BY <2>1 DEF taskVars, clearVars, IInv, RecordsOK, ClearOK, ClearBarrier
  <2> QED
    BY <2>2, QuietKeeps
<1> QED
  BY <1>1, <1>2, <1>3, WindowStep, AudioStep DEF Next

THEOREM InvariantHolds == Spec => []IInv
<1> QED
  BY InitHolds, NextKeeps, PTL DEF Spec

-----------------------------------------------------------------------------
(* Every variable of the handlers keeps its type.                          *)
THEOREM TypesHold == Spec => []TypeOK
<1>1. IInv => TypeOK
  <2> SUFFICES ASSUME IInv PROVE TypeOK
    OBVIOUS
  <2>1. winPriority \in Seq(0..(U32 - 1))
    BY StackIsSorted DEF IInv, Stacked
  <2> QED
    BY <2>1 DEF IInv, TablesInv, RecordsOK, MapsOK, Copies, ClearOK, TypeOK
<1> QED
  BY <1>1, InvariantHolds, PTL

(* The counter findNewID trusts counts the ids of its pool that are lent,  *)
(* whatever the codec and the client do.                                   *)
THEOREM CountersAlwaysMatch == Spec => []CountersMatch
<1>1. IInv => CountersMatch
  BY DEF IInv, TablesInv, CountersMatch
<1> QED
  BY <1>1, InvariantHolds, PTL

(* No codec task is lost: every id lent out still has a third id through   *)
(* which it can be given back, after any failure and any clear.            *)
THEOREM NoTaskIsLeaked == Spec => []NoTaskLeaked
<1>1. IInv => NoTaskLeaked
  BY DEF IInv, TablesInv, NoTaskLeaked
<1> QED
  BY <1>1, InvariantHolds, PTL

(* The clear flag and the latch agree between any two handlers.            *)
THEOREM ClearBarrierHolds == Spec => []ClearBarrier
<1>1. IInv => ClearBarrier
  BY DEF IInv, ClearOK
<1> QED
  BY <1>1, InvariantHolds, PTL

-----------------------------------------------------------------------------
(* Who owns which task.                                                    *)

(* The operations on the tables keep one owner for each id lent.           *)
LEMMA LendKeepsLentOnce ==
  ASSUME NEW t, TablesInv(t), LentOnce(t), NEW th, NEW ty \in TaskType
  PROVE  LentOnce(Lend(t, th, ty))
<1>1. CASE ~IsTaskID(FindNewID(t, th, ty))
  BY <1>1 DEF Lend
<1>2. CASE IsTaskID(FindNewID(t, th, ty))
  <2> DEFINE id == FindNewID(t, th, ty)
             u == Lend(t, th, ty)
  <2>1. th \notin DOMAIN t.third /\ id \notin t.used
    BY <1>2, FoundIsFree
  <2>2. u.third = Put(t.third, th, id) /\ u.used = t.used \cup {id}
    BY <1>2 DEF Lend
  <2> HIDE DEF id, u
  <2>3. LentOnce(u)
    BY <2>1, <2>2 DEF LentOnce, Put
  <2> QED
    BY <2>3 DEF u
<1> QED
  BY <1>1, <1>2

LEMMA RemoveKeepsLentOnce ==
  ASSUME NEW t, TablesInv(t), LentOnce(t), NEW th
  PROVE  LentOnce(RemoveCodecTaskID(t, th))
<1> DEFINE id == t.third[th]
           u == RemoveCodecTaskID(t, th)
<1>1. CASE th \notin DOMAIN t.third
  BY <1>1 DEF RemoveCodecTaskID
<1>2. CASE th \in DOMAIN t.third
  <2>1. id \in t.used /\ id \in CodecID
    BY <1>2 DEF LentOnce, TablesInv, AreTables
  <2>2. TypeOfID(id) # "none"
    BY <2>1, TypeOfCodecID DEF TaskType
  <2>3. u.third = Erase(t.third, th) /\ u.used = t.used \ {id}
    BY <1>2, <2>1, <2>2 DEF RemoveCodecTaskID
  <2>4. LentOnce(u)
    BY <1>2, <2>3 DEF LentOnce, Erase
  <2> QED
    BY <2>4
<1> QED
  BY <1>1, <1>2

LEMMA GiveBackKeepsLentOnce ==
  ASSUME TablesInv(ids), LentOnce(ids), NEW S, \A i \in S : Borrowers(ids, i) # {}
  PROVE  LentOnce(GiveBack(S))
<1>1. ASSUME NEW i \in S
      PROVE  FirstBorrower(i) \in DOMAIN ids.third /\ ids.third[FirstBorrower(i)] = i
  <2>1. Borrowers(ids, i) \in SUBSET Nat
    BY TaskIDAssumption DEF TablesInv, AreTables, IsMap, Borrowers
  <2> QED
    BY <2>1, LeastInSet DEF FirstBorrower, Borrowers
<1>2. \A th \in DOMAIN ids.third :
        th \in {FirstBorrower(i) : i \in S} <=> ids.third[th] \in S
  BY <1>1 DEF LentOnce
<1> QED
  BY <1>2 DEF GiveBack, LentOnce

(* Handing over an id that is lent.                                        *)
LEMMA UpdateKeepsLentOnce ==
  ASSUME NEW t, TablesInv(t), LentOnce(t), NEW th, th \notin DOMAIN t.third, NEW id \in t.used
  PROVE  /\ LentOnce(UpdateThirdTaskID(t, th, id))
         /\ \E had \in DOMAIN t.third :
              /\ t.third[had] = id
              /\ UpdateThirdTaskID(t, th, id).third = Put(Erase(t.third, had), th, id)
<1> DEFINE had == Least(Borrowers(t, id))
           u == UpdateThirdTaskID(t, th, id)
<1>1. Borrowers(t, id) \in SUBSET Nat /\ Borrowers(t, id) # {}
  BY TaskIDAssumption DEF TablesInv, AreTables, IsMap, Borrowers
<1>2. had \in Borrowers(t, id)
  BY <1>1, LeastInSet
<1> HIDE DEF had
<1>3. had \in DOMAIN t.third /\ t.third[had] = id
  BY <1>2 DEF Borrowers
<1>4. u.third = Put(Erase(t.third, had), th, id) /\ u.used = t.used
  BY <1>1 DEF UpdateThirdTaskID, Insert, Erase, TablesInv, AreTables, had
<1>5. LentOnce(u)
  <2> HIDE DEF u
  <2> QED
    BY <1>3, <1>4 DEF LentOnce, Put, Erase
<1> QED
  BY <1>3, <1>4, <1>5

(* An id that is lent and given back at once leaves no trace.              *)
LEMMA LendThenRemove ==
  ASSUME NEW t, AreTables(t), NEW th, th \notin DOMAIN t.third, NEW ty \in TaskType
  PROVE  RemoveCodecTaskID(Lend(t, th, ty), th) = t
<1>1. CASE ~IsTaskID(FindNewID(t, th, ty))
  BY <1>1 DEF Lend, RemoveCodecTaskID
<1>2. CASE IsTaskID(FindNewID(t, th, ty))
  <2> DEFINE id == FindNewID(t, th, ty)
             u == Lend(t, th, ty)
  <2>1. id \in Pool[ty] /\ id \notin t.used /\ TypeOfID(id) = ty
    BY <1>2, FoundIsFree, PoolsAreFinite
  <2>2. u = [third  |-> Put(t.third, th, id),
             used   |-> t.used \cup {id},
             beUsed |-> [t.beUsed EXCEPT ![ty] = @ + 1]]
    BY <1>2 DEF Lend
  <2> HIDE DEF id, u
  <2>3. th \in DOMAIN u.third /\ u.third[th] = id /\ id \in u.used /\ ty # "none"
    BY <2>2 DEF Put, TaskType
  <2>4. RemoveCodecTaskID(u, th) =
          [third  |-> Erase(u.third, th),
           used   |-> u.used \ {id},
           beUsed |-> [u.beUsed EXCEPT ![ty] = IF @ > 0 THEN @ - 1 ELSE @]]
    BY <2>1, <2>3 DEF RemoveCodecTaskID
  <2>5. t = [third |-> t.third, used |-> t.used, beUsed |-> t.beUsed]
    BY DEF AreTables
  <2>6. Erase(u.third, th) = t.third
    BY <2>2 DEF AreTables, IsMap, Erase, Put
  <2>7. u.used \ {id} = t.used
    BY <2>1, <2>2
  <2>8. [u.beUsed EXCEPT ![ty] = IF @ > 0 THEN @ - 1 ELSE @] = t.beUsed
    <3>1. t.beUsed \in [TaskType -> Nat]
      BY DEF AreTables
    <3> QED
      BY <2>2, <3>1
  <2> QED
    BY <2>4, <2>5, <2>6, <2>7, <2>8 DEF u
<1> QED
  BY <1>1, <1>2

(* What the commands do to the tables: an id is lent to the third id that  *)
(* asks, given back by the one that had it, or handed over.                *)
LEMMA WindowTables ==
  ASSUME IInv, NEW th \in WindowID, OpenOrCreate(th) \/ RaiseOrMove(th) \/ Close(th)
  PROVE  \/ ids' = ids
         \/ ids' = RemoveCodecTaskID(ids, th)
         \/ /\ ids' = Lend(ids, th, "auvi")
            /\ reply'.ok /\ reply'.third = th
<1>1. ASSUME OpenRejected(th) \/ \E src \in SrcVideo, o \in Outcome : OpenFails(th, src, o)
      PROVE  ids' = ids
  <2>1. TablesInv(ids) /\ th \notin DOMAIN ids.third /\ "auvi" \in TaskType
    BY <1>1 DEF IInv, OpenRejected, OpenFails, HasTask, TaskType
  <2>2. ids' = RemoveCodecTaskID(Lend(ids, th, "auvi"), th)
    BY <1>1 DEF OpenRejected, OpenFails
  <2> QED
    BY <2>1, <2>2, LendThenRemove DEF TablesInv
<1>2. ASSUME NEW src \in SrcVideo, OpenWindow(th, src) \/ CreateWindow(th, src)
      PROVE  /\ ids' = Lend(ids, th, "auvi")
             /\ reply'.ok /\ reply'.third = th
  BY <1>2 DEF OpenWindow, CreateWindow, OpenDone, Reply
<1>3. CASE OpenOrCreate(th)
  BY <1>1, <1>2, <1>3 DEF OpenOrCreate, OpenWindowRejected, CreateWindowRejected,
     OpenWindowFails, CreateWindowFails, CreateWindowAgain, taskVars
<1>4. CASE RaiseOrMove(th)
  BY <1>4 DEF RaiseOrMove, RaiseRejected, RaiseWithoutStack, RaiseWindow, MoveWindow, RaiseDone,
     MoveWindowRejected, RaiseWindowFails, MoveWindowFails, RaiseFails
<1>5. CASE Close(th)
  BY <1>5 DEF Close, CloseWindow, CloseWindowUnknown, CloseWindowFails, taskVars
<1> QED
  BY <1>3, <1>4, <1>5

(* A device's task changes hands only through the device table.            *)
LEMMA AudioTables ==
  ASSUME IInv, NEW th \in AudioID, Audio(th)
  PROVE  \/ ids' = ids
         \/ ids' = RemoveCodecTaskID(ids, th)
         \/ /\ ids' = Lend(ids, th, "audio")
            /\ reply'.cmd = "openAudio" /\ reply'.third = th
         \/ \E ao \in AOChn \cap DOMAIN aoCodec :
              /\ th \notin DOMAIN ids.third
              /\ ids' = UpdateThirdTaskID(ids, th, aoCodec[ao])
              /\ reply'.cmd = "openAudio" /\ reply'.third = th
<1>1. ASSUME NEW ao \in AOChn, OpenAudio(th, ao) \/ \E o \in Outcome : OpenAudioFails(th, ao, o)
      PROVE  /\ ids' = Lend(ids, th, "audio")
             /\ reply'.cmd = "openAudio" /\ reply'.third = th
  BY <1>1 DEF OpenAudio, OpenAudioFails, Reply
<1>2. ASSUME NEW ao \in AOChn, ShiftAudio(th, ao)
      PROVE  /\ ao \in AOChn \cap DOMAIN aoCodec
             /\ th \notin DOMAIN ids.third
             /\ ids' = UpdateThirdTaskID(ids, th, aoCodec[ao])
             /\ reply'.cmd = "openAudio" /\ reply'.third = th
  BY <1>2 DEF ShiftAudio, HasTask, Reply
<1>3. ASSUME \/ OpenAudioAgain(th)
             \/ CloseAudioUnknown(th)
             \/ \E o \in Outcome : CloseAudioFails(th, o)
             \/ \E ao \in AOChn : \/ OpenAudioRejected(th, ao)
                                  \/ \E o \in Outcome, stopped \in BOOLEAN :
                                       ShiftAudioFails(th, ao, o, stopped)
      PROVE  ids' = ids
  BY <1>3 DEF OpenAudioAgain, CloseAudioUnknown, CloseAudioFails, OpenAudioRejected,
     ShiftAudioFails, taskVars
<1>4. ASSUME NEW ao, CloseAudio(th, ao)
      PROVE  ids' = ids \/ ids' = RemoveCodecTaskID(ids, th)
  BY <1>4 DEF CloseAudio
<1> QED
  BY <1>1, <1>2, <1>3, <1>4 DEF Audio

LEMMA ClearTables ==
  ASSUME IInv, NEW ty \in ClearTypes, Clear(ty)
  PROVE  \E S \in SUBSET OfClearType(ty) :
           /\ ids' = GiveBack(S)
           /\ \A i \in S : Borrowers(ids, i) # {}
<1>1. ASSUME ClearAborted(ty)
      PROVE  /\ Cleared(ty) \in SUBSET OfClearType(ty)
             /\ ids' = GiveBack(Cleared(ty))
             /\ \A i \in Cleared(ty) : Borrowers(ids, i) # {}
  BY <1>1 DEF ClearAborted, Cleared, Met, ToClear, Orphan
<1>2. ASSUME NEW o \in Outcome, ClearAllTask(ty, o)
      PROVE  /\ ToClear(ty) \in SUBSET OfClearType(ty)
             /\ ids' = GiveBack(ToClear(ty))
             /\ \A i \in ToClear(ty) : Borrowers(ids, i) # {}
  BY <1>2 DEF ClearAllTask, Cleared, Met, ToClear, Orphan
<1> QED
  BY <1>1, <1>2 DEF Clear

(* Windows and audio streams draw on pools of their own, so a third id     *)
(* that the client uses for one kind has a task of that kind.              *)
OwnerTypes ==
  \A th \in DOMAIN ids.third :
     \/ th \in WindowID /\ ids.third[th] \in AuViTaskID
     \/ th \in AudioID /\ ids.third[th] \in AudioTaskID

(* The device table names tasks that are lent and bound to the device.     *)
DevicesHeld ==
  \A ao \in DOMAIN aoCodec :
     /\ aoCodec[ao] \in AudioTaskID \cap ids.used
     /\ dec[aoCodec[ao]].dev = ao

Owned ==
  /\ LentOnce(ids)
  /\ OwnerTypes
  /\ AudioID # {} => DevicesHeld

(* What the client must leave alone for that: it does not clear audio      *)
(* tasks, and sends no audio command for a window's third id.              *)
AudioLeftAlone == AudioID = {} \/ (~ClientMistakes /\ ClearTypes \subseteq {0})

LEMMA PoolsApart ==
  /\ AuViTaskID \subseteq CodecID /\ AudioTaskID \subseteq CodecID
  /\ AuViTaskID \cap AudioTaskID = {} /\ VideoTaskID \cap AudioTaskID = {}
  /\ \A i \in CodecID : /\ TypeOfID(i) = "audio" <=> i \in AudioTaskID
                        /\ TypeOfID(i) = "auvi" <=> i \in AuViTaskID
<1>1. \A i \in CodecID : /\ TypeOfID(i) = "audio" <=> i \in AudioTaskID
                         /\ TypeOfID(i) = "auvi" <=> i \in AuViTaskID
  BY TypeOfCodecID DEF TaskType, Pool
<1>2. AuViTaskID \cap AudioTaskID = {} /\ VideoTaskID \cap AudioTaskID = {}
  BY TaskIDAssumption
<1> QED
  BY <1>1, <1>2 DEF CodecID

LEMMA KindsApart ==
  ASSUME AudioLeftAlone
  PROVE  AudioID \cap WindowID = {}
BY HandlerAssumption DEF AudioLeftAlone

(* What that means for the owner of a task.                                *)
LEMMA OwnersStay ==
  ASSUME IInv, Owned
  PROVE  /\ ids' = ids => LentOnce(ids') /\ OwnerTypes'
         /\ \A th : ids' = RemoveCodecTaskID(ids, th) =>
              /\ LentOnce(ids') /\ OwnerTypes'
              /\ th \in DOMAIN ids.third => ids'.used = ids.used \ {ids.third[th]}
         /\ \A th \in WindowID : ids' = Lend(ids, th, "auvi") =>
              LentOnce(ids') /\ OwnerTypes' /\ ids.used \subseteq ids'.used
         /\ \A th \in AudioID : ids' = Lend(ids, th, "audio") =>
              LentOnce(ids') /\ OwnerTypes' /\ ids.used \subseteq ids'.used
<1>1. TablesInv(ids) /\ LentOnce(ids) /\ OwnerTypes
  BY DEF IInv, Owned
<1>2. ASSUME NEW th, ids' = RemoveCodecTaskID(ids, th)
      PROVE  /\ LentOnce(ids') /\ OwnerTypes'
             /\ th \in DOMAIN ids.third => ids'.used = ids.used \ {ids.third[th]}
  <2>1. LentOnce(ids')
    BY <1>1, <1>2, RemoveKeepsLentOnce
  <2>2. ids' = ids \/ (th \in DOMAIN ids.third /\ ids'.third = Erase(ids.third, th))
    BY <1>2 DEF RemoveCodecTaskID
  <2>3. OwnerTypes'
    BY <1>1, <2>2 DEF OwnerTypes, Erase
  <2>4. ASSUME th \in DOMAIN ids.third
        PROVE  ids'.used = ids.used \ {ids.third[th]}
    <3>1. ids.third[th] \in CodecID /\ ids.third[th] \in ids.used
      BY <1>1, <2>4 DEF LentOnce, TablesInv, AreTables
    <3>2. TypeOfID(ids.third[th]) # "none"
      BY <3>1, TypeOfCodecID DEF TaskType
    <3> QED
      BY <1>2, <2>4, <3>1, <3>2 DEF RemoveCodecTaskID
  <2> QED
    BY <2>1, <2>3, <2>4
<1>3. ASSUME NEW th, NEW ty \in TaskType, ids' = Lend(ids, th, ty),
             \/ th \in WindowID /\ ty = "auvi"
             \/ th \in AudioID /\ ty = "audio"
      PROVE  LentOnce(ids') /\ OwnerTypes' /\ ids.used \subseteq ids'.used
  <2>1. LentOnce(ids')
    BY <1>1, <1>3, LendKeepsLentOnce
  <2>2. CASE ~IsTaskID(FindNewID(ids, th, ty))
    BY <1>1, <1>3, <2>1, <2>2 DEF Lend, OwnerTypes
  <2>3. CASE IsTaskID(FindNewID(ids, th, ty))
    <3> DEFINE id == FindNewID(ids, th, ty)
    <3>1. id \in Pool[ty]
      BY <2>3, FoundIsFree
    <3>2. ids'.third = Put(ids.third, th, id) /\ ids'.used = ids.used \cup {id}
      BY <1>3, <2>3 DEF Lend
    <3> HIDE DEF id
    <3>3. OwnerTypes'
      BY <1>1, <1>3, <3>1, <3>2 DEF OwnerTypes, Put, Pool
    <3> QED
      BY <2>1, <3>2, <3>3
  <2> QED
    BY <2>2, <2>3
<1> QED
  BY <1>1, <1>2, <1>3 DEF TaskType, OwnerTypes

(* A window command leaves every task on its audio device.                 *)
LEMMA LoweredKeepsDevices ==
  ASSUME NEW d \in [CodecID -> AVDec], NEW S, NEW i \in CodecID
  PROVE  Lowered(d, S)[i].dev = d[i].dev
BY DEF Lowered, AVDec

LEMMA WindowDevices ==
  ASSUME IInv, NEW th \in WindowID, OpenOrCreate(th) \/ RaiseOrMove(th) \/ Close(th)
  PROVE  aoCodec' = aoCodec /\ \A i \in CodecID : dec'[i].dev = dec[i].dev
<1> DEFINE Kept(d) == \A i \in CodecID : d[i].dev = dec[i].dev
<1>1. dec \in [CodecID -> AVDec]
  BY DEF IInv, RecordsOK
<1>2. ASSUME NEW id \in CodecID, NEW src
      PROVE  /\ Kept(Opened(id, src)) /\ Kept(Raised(id, src)) /\ Kept(Hidden(id))
             /\ Kept([dec EXCEPT ![id].crop = src]) /\ Kept([dec EXCEPT ![id].swms = TRUE])
             /\ \A show \in BOOLEAN : Kept([Raised(id, src) EXCEPT ![id].swms = @ \/ show])
  <2>1. dec[id] \in AVDec
    BY <1>1
  <2>2. Kept(Opened(id, src)) /\ Kept(Raised(id, src)) /\ Kept(Hidden(id))
    BY <1>1, <2>1 DEF Opened, Raised, Hidden, AVDec
  <2>3. Kept([dec EXCEPT ![id].crop = src]) /\ Kept([dec EXCEPT ![id].swms = TRUE])
    BY <1>1, <2>1 DEF AVDec
  <2>4. ASSUME NEW show \in BOOLEAN
        PROVE  Kept([Raised(id, src) EXCEPT ![id].swms = @ \/ show])
    BY <1>1, <2>1 DEF Raised, AVDec
  <2> QED
    BY <2>2, <2>3, <2>4
<1>3. ASSUME NEW src \in SrcVideo,
             OpenDone(th, src) \/ \E o \in Outcome : OpenFails(th, src, o)
      PROVE  aoCodec' = aoCodec /\ Kept(dec')
  <2>1. FindNewID(ids, th, "auvi") \in CodecID
    BY <1>3, FoundIsFree, PoolsAreFinite DEF OpenDone, OpenFails, TaskType
  <2> QED
    BY <1>2, <1>3, <2>1 DEF OpenDone, OpenFails
<1>4. CASE OpenOrCreate(th)
  BY <1>3, <1>4 DEF OpenOrCreate, OpenWindowRejected, CreateWindowRejected, OpenRejected,
     OpenWindowFails, CreateWindowFails, OpenWindow, CreateWindow, CreateWindowAgain, taskVars
<1>5. ASSUME NEW src \in SrcVideo, NEW show \in BOOLEAN,
             RaiseDone(th, src, show) \/ \E o \in Outcome : RaiseFails(th, src, o, show)
      PROVE  aoCodec' = aoCodec /\ Kept(dec')
  <2> DEFINE id == ids.third[th]
             d == [Raised(id, src) EXCEPT ![id].swms = @ \/ show]
  <2>1. id \in CodecID /\ winPriority # <<>>
    BY <1>5 DEF RaiseDone, RaiseFails, Known
  <2>2. d \in [CodecID -> AVDec]
    <3>1. Raised(id, src) \in [CodecID -> AVDec]
      BY <2>1, WindowRecordsStayTyped
    <3>2. [Raised(id, src)[id] EXCEPT !.swms = @ \/ show] \in AVDec
      BY <2>1, <3>1 DEF AVDec
    <3> QED
      BY <3>1, <3>2
  <2>3. Kept(d)
    BY <1>2, <2>1
  <2>4. aoCodec' = aoCodec /\ (dec' = d \/ \E S : dec' = Lowered(d, S))
    BY <1>5 DEF RaiseDone, RaiseFails
  <2> HIDE DEF d
  <2>5. \A S : Kept(Lowered(d, S))
    BY <2>2, <2>3, LoweredKeepsDevices
  <2> QED
    BY <2>3, <2>4, <2>5
<1>6. CASE RaiseOrMove(th)
  <2>1. ASSUME NEW src \in SrcVideo, MoveWindowRejected(th, src)
        PROVE  aoCodec' = aoCodec /\ Kept(dec')
    <3>1. CASE Known(th)
      <4>1. ids.third[th] \in CodecID /\ dec' = [dec EXCEPT ![ids.third[th]].crop = src]
        BY <2>1, <3>1 DEF MoveWindowRejected, Known
      <4> QED
        BY <1>2, <2>1, <4>1 DEF MoveWindowRejected
    <3> QED
      BY <2>1, <3>1 DEF MoveWindowRejected
  <2>2. CASE RaiseRejected(th)
    BY <2>2 DEF RaiseRejected
  <2>5. CASE RaiseWithoutStack(th)
    <3>1. ids.third[th] \in CodecID /\ dec' = [dec EXCEPT ![ids.third[th]].swms = TRUE]
      BY <2>5 DEF RaiseWithoutStack, Known
    <3> QED
      BY <1>2, <2>5, <3>1 DEF RaiseWithoutStack
  <2>3. ASSUME NEW src \in SrcVideo, RaiseWindow(th, src) \/ MoveWindow(th, src)
        PROVE  aoCodec' = aoCodec /\ Kept(dec')
    BY <1>5, <2>3 DEF RaiseWindow, MoveWindow
  <2>4. ASSUME NEW src \in SrcVideo, NEW o \in Outcome,
               RaiseWindowFails(th, src, o) \/ MoveWindowFails(th, src, o)
        PROVE  aoCodec' = aoCodec /\ Kept(dec')
    BY <1>5, <2>4 DEF RaiseWindowFails, MoveWindowFails
  <2> QED
    BY <1>6, <2>1, <2>2, <2>3, <2>4, <2>5 DEF RaiseOrMove
<1>7. CASE Close(th)
  <2> DEFINE id == ids.third[th]
  <2>1. CASE CloseWindowUnknown(th)
    BY <2>1 DEF CloseWindowUnknown, taskVars
  <2>2. CASE \E o \in Outcome : CloseWindowFails(th, o)
    BY <1>2, <2>2 DEF CloseWindowFails, Known
  <2>3. CASE CloseWindow(th)
    <3>1. id \in CodecID /\ Hidden(id) \in [CodecID -> AVDec] /\ Kept(Hidden(id))
      BY <1>2, <2>3, RecordsStayTyped DEF CloseWindow, Known
    <3>2. aoCodec' = aoCodec /\ \E S : dec' = Lowered(Hidden(id), S)
      BY <2>3 DEF CloseWindow
    <3> QED
      BY <3>1, <3>2, LoweredKeepsDevices
  <2> QED
    BY <1>7, <2>1, <2>2, <2>3 DEF Close
<1> QED
  BY <1>4, <1>6, <1>7

(* The tasks lent and their owners, after each kind of command.            *)
LEMMA OwnedWindowStep ==
  ASSUME IInv, Owned, AudioLeftAlone, NEW th \in WindowID,
         OpenOrCreate(th) \/ RaiseOrMove(th) \/ Close(th)
  PROVE  Owned'
<1>1. LentOnce(ids') /\ OwnerTypes'
  BY WindowTables, OwnersStay
<1>2. ASSUME AudioID # {}
      PROVE  DevicesHeld'
  <2>1. DevicesHeld /\ OwnerTypes /\ th \notin AudioID
    BY <1>2, KindsApart DEF Owned
  <2>2. \A i \in AudioTaskID : i \in ids.used => i \in ids'.used
    <3>1. th \in DOMAIN ids.third => ids.third[th] \notin AudioTaskID
      BY <2>1, PoolsApart DEF OwnerTypes
    <3>2. CASE ids' = RemoveCodecTaskID(ids, th) /\ th \in DOMAIN ids.third
      BY <3>1, <3>2, OwnersStay
    <3>3. CASE ids' = RemoveCodecTaskID(ids, th) /\ th \notin DOMAIN ids.third
      BY <3>3 DEF RemoveCodecTaskID
    <3>4. CASE ids' = Lend(ids, th, "auvi")
      BY <3>4, OwnersStay
    <3> QED
      BY <3>2, <3>3, <3>4, WindowTables
  <2> QED
    BY <2>1, <2>2, PoolsApart, WindowDevices DEF DevicesHeld
<1> QED
  BY <1>1, <1>2 DEF Owned

LEMMA OwnedClearStep ==
  ASSUME IInv, Owned, AudioLeftAlone, NEW ty \in ClearTypes, Clear(ty)
  PROVE  Owned'
<1>1. PICK S \in SUBSET OfClearType(ty) :
         /\ ids' = GiveBack(S)
         /\ \A i \in S : Borrowers(ids, i) # {}
  BY ClearTables
<1>2. LentOnce(ids')
  BY <1>1, GiveBackKeepsLentOnce DEF IInv, Owned
<1>3. OwnerTypes'
  BY <1>1 DEF Owned, OwnerTypes, GiveBack
<1>4. ASSUME AudioID # {}
      PROVE  DevicesHeld'
  <2>1. DevicesHeld /\ ty = 0
    BY <1>4 DEF Owned, AudioLeftAlone
  <2>2. S \cap AudioTaskID = {}
    BY <1>1, <2>1, PoolsApart DEF OfClearType
  <2>3. \A i \in AudioTaskID : i \in ids.used => i \in ids'.used
    BY <1>1, <2>2 DEF GiveBack
  <2>4. aoCodec' = aoCodec /\ \E T : dec' = AllHidden(T)
    BY DEF Clear, ClearAborted, ClearAllTask
  <2>5. \A i \in CodecID : dec'[i].dev = dec[i].dev
    <3>1. \A i \in CodecID : dec[i] \in AVDec
      BY DEF IInv, RecordsOK
    <3> QED
      BY <2>4, <3>1 DEF AllHidden, AVDec
  <2> QED
    BY <2>1, <2>3, <2>4, <2>5, PoolsApart DEF DevicesHeld
<1> QED
  BY <1>2, <1>3, <1>4 DEF Owned

LEMMA AudioRecords ==
  ASSUME IInv, NEW id \in CodecID
  PROVE  /\ \A i \in CodecID : Muted(id)[i].dev = dec[i].dev
         /\ \A i \in CodecID : [dec EXCEPT ![id].open = 0][i].dev = dec[i].dev
         /\ \A ao \in AOChn, i \in CodecID :
              /\ Streaming(id, ao)[i].dev = IF i = id THEN ao ELSE dec[i].dev
              /\ Restarted(id, ao)[i].dev = IF i = id THEN ao ELSE dec[i].dev
<1>1. dec \in [CodecID -> AVDec] /\ dec[id] \in AVDec
  BY DEF IInv, RecordsOK
<1>2. \A i \in CodecID : Muted(id)[i].dev = dec[i].dev
  BY <1>1 DEF Muted, AVDec
<1>3. \A i \in CodecID : [dec EXCEPT ![id].open = 0][i].dev = dec[i].dev
  BY <1>1 DEF AVDec
<1>4. ASSUME NEW ao \in AOChn, NEW i \in CodecID
      PROVE  /\ Streaming(id, ao)[i].dev = IF i = id THEN ao ELSE dec[i].dev
             /\ Restarted(id, ao)[i].dev = IF i = id THEN ao ELSE dec[i].dev
  BY <1>1 DEF Streaming, Restarted, AVDec
<1> QED
  BY <1>2, <1>3, <1>4

(* openAudio takes a task that is free and enters it in the device table,  *)
(* or the task that has the device; closeAudio erases the device its task  *)
(* is bound to.                                                            *)
LEMMA OwnedAudioStep ==
  ASSUME IInv, Owned, AudioLeftAlone, NEW th \in AudioID, Audio(th)
  PROVE  Owned'
<1>1. /\ TablesInv(ids) /\ LentOnce(ids) /\ OwnerTypes /\ DevicesHeld
      /\ ~ClientMistakes /\ th \notin WindowID
  BY KindsApart DEF Owned, AudioLeftAlone, IInv
<1>2. DevicesHeld => \A ao \in DOMAIN aoCodec : aoCodec[ao] \in CodecID
  BY PoolsApart DEF DevicesHeld
<1>3. ASSUME NEW ao \in AOChn, OpenAudio(th, ao) \/ \E o \in Outcome : OpenAudioFails(th, ao, o)
      PROVE  Owned'
  <2> DEFINE id == FindNewID(ids, th, "audio")
  <2>1. /\ id \in AudioTaskID /\ id \notin ids.used
        /\ ids' = Lend(ids, th, "audio") /\ IsTaskID(id)
        /\ dec' = Streaming(id, ao)
        /\ aoCodec' = Put(aoCodec, ao, id) \/ aoCodec' = aoCodec
    BY <1>3, FoundIsFree DEF OpenAudio, OpenAudioFails, TaskType, Pool
  <2>2. LentOnce(ids') /\ OwnerTypes'
    BY <1>1, <2>1, OwnersStay
  <2>3. ids'.used = ids.used \cup {id}
    BY <2>1 DEF Lend
  <2> HIDE DEF id
  <2>4. \A i \in CodecID : dec'[i].dev = IF i = id THEN ao ELSE dec[i].dev
    BY <2>1, PoolsApart, AudioRecords
  <2>5. ASSUME NEW x \in DOMAIN aoCodec
        PROVE  aoCodec[x] \in AudioTaskID /\ aoCodec[x] \in ids'.used /\ dec'[aoCodec[x]].dev = x
    BY <1>1, <2>1, <2>3, <2>4, PoolsApart DEF DevicesHeld
  <2>6. id \in ids'.used /\ dec'[id].dev = ao
    BY <2>1, <2>3, <2>4, PoolsApart
  <2>7. DevicesHeld'
    BY <2>1, <2>5, <2>6 DEF DevicesHeld, Put
  <2> QED
    BY <2>2, <2>7 DEF Owned
<1>4. ASSUME NEW ao \in AOChn, ShiftAudio(th, ao)
      PROVE  Owned'
  <2> DEFINE id == aoCodec[ao]
  <2>1. /\ th \notin DOMAIN ids.third
        /\ id \in AudioTaskID /\ id \in ids.used
        /\ dec' = Restarted(id, ao) /\ aoCodec' = aoCodec
        /\ ids' = UpdateThirdTaskID(ids, th, id)
        /\ dec[id].dev = ao
    BY <1>1, <1>4 DEF ShiftAudio, HasTask, DevicesHeld
  <2> HIDE DEF id
  <2>2. PICK had \in DOMAIN ids.third : /\ ids.third[had] = id
                                        /\ ids'.third = Put(Erase(ids.third, had), th, id)
    BY <1>1, <2>1, UpdateKeepsLentOnce
  <2>3. LentOnce(ids') /\ ids'.used = ids.used
    BY <1>1, <2>1, UpdateKeepsLentOnce DEF UpdateThirdTaskID, TablesInv, AreTables
  <2>4. OwnerTypes'
    BY <1>1, <2>1, <2>2 DEF OwnerTypes, Put, Erase
  <2>5. \A i \in CodecID : dec'[i].dev = dec[i].dev
    BY <2>1, PoolsApart, AudioRecords
  <2>6. DevicesHeld'
    BY <1>1, <1>2, <2>1, <2>3, <2>5 DEF DevicesHeld
  <2> QED
    BY <2>3, <2>4, <2>6 DEF Owned
<1>5. ASSUME \/ OpenAudioAgain(th)
             \/ CloseAudioUnknown(th)
             \/ \E o \in Outcome : CloseAudioFails(th, o)
             \/ \E ao \in AOChn : \/ OpenAudioRejected(th, ao)
                                  \/ \E o \in Outcome, stopped \in BOOLEAN :
                                       ShiftAudioFails(th, ao, o, stopped)
      PROVE  Owned'
  <2>1. ids' = ids /\ aoCodec' = aoCodec
    BY <1>5 DEF OpenAudioAgain, CloseAudioUnknown, CloseAudioFails, OpenAudioRejected,
       ShiftAudioFails, taskVars
  <2>2. \A i \in CodecID : dec'[i].dev = dec[i].dev
    <3>1. CASE OpenAudioAgain(th) \/ CloseAudioUnknown(th) \/ \E ao \in AOChn : OpenAudioRejected(th, ao)
      BY <3>1 DEF OpenAudioAgain, CloseAudioUnknown, OpenAudioRejected, taskVars
    <3>2. CASE \E o \in Outcome : CloseAudioFails(th, o)
      BY <3>2, AudioRecords DEF CloseAudioFails, Known
    <3>3. ASSUME NEW ao \in AOChn, NEW o \in Outcome, NEW stopped \in BOOLEAN,
                 ShiftAudioFails(th, ao, o, stopped)
          PROVE  \A i \in CodecID : dec'[i].dev = dec[i].dev
      <4>1. /\ aoCodec[ao] \in CodecID /\ dec[aoCodec[ao]].dev = ao
            /\ \/ dec' = Restarted(aoCodec[ao], ao)
               \/ dec' = [dec EXCEPT ![aoCodec[ao]].open = 0]
        BY <1>1, <3>3 DEF ShiftAudioFails, DevicesHeld
      <4>2. /\ Restarted(aoCodec[ao], ao)[aoCodec[ao]].dev = ao
            /\ \A i \in CodecID : [dec EXCEPT ![aoCodec[ao]].open = 0][i].dev = dec[i].dev
        BY <4>1, AudioRecords
      <4>3. \A i \in CodecID : i # aoCodec[ao] => Restarted(aoCodec[ao], ao)[i].dev = dec[i].dev
        BY <4>1, AudioRecords
      <4> QED
        BY <4>1, <4>2, <4>3
    <3> QED
      BY <1>5, <3>1, <3>2, <3>3
  <2>3. DevicesHeld'
    BY <1>1, <1>2, <2>1, <2>2 DEF DevicesHeld
  <2> QED
    BY <1>1, <2>1, <2>3 DEF Owned, OwnerTypes
<1>6. ASSUME NEW ao, CloseAudio(th, ao)
      PROVE  Owned'
  <2> DEFINE id == ids.third[th]
  <2>1. th \in DOMAIN ids.third /\ id \in AudioTaskID /\ id \in CodecID
    BY <1>1, <1>6, PoolsApart DEF CloseAudio, Known, HasTask, OwnerTypes
  <2>2. /\ dec' = Muted(id) /\ ao = dec[id].dev
        /\ ids' = RemoveCodecTaskID(ids, th)
        /\ aoCodec' = Erase(aoCodec, ao)
    BY <1>1, <1>6, <2>1, PoolsApart DEF CloseAudio
  <2>3. LentOnce(ids') /\ OwnerTypes' /\ ids'.used = ids.used \ {id}
    BY <2>1, <2>2, OwnersStay
  <2>4. \A i \in CodecID : dec'[i].dev = dec[i].dev
    BY <2>1, <2>2, AudioRecords
  <2> HIDE DEF id
  <2>5. DevicesHeld'
    BY <1>1, <1>2, <2>2, <2>3, <2>4 DEF DevicesHeld, Erase
  <2> QED
    BY <2>3, <2>5 DEF Owned
<1> QED
  BY <1>3, <1>4, <1>5, <1>6 DEF Audio

LEMMA OwnedNext ==
  ASSUME AudioLeftAlone
  PROVE  /\ Init => Owned
         /\ IInv /\ Owned /\ [Next]_vars => Owned'
<1>1. ASSUME Init
      PROVE  Owned
  BY <1>1 DEF Init, NoTables, EmptyMap, Owned, LentOnce, OwnerTypes, DevicesHeld
<1>2. ASSUME IInv, Owned, WaitForClear \/ UNCHANGED vars
      PROVE  Owned'
  <2>1. UNCHANGED <<taskVars, aoCodec>>
    BY <1>2 DEF WaitForClear, vars
  <2> QED
    BY <1>2, <2>1 DEF taskVars, Owned, OwnerTypes, DevicesHeld
<1> QED
  BY <1>1, <1>2, OwnedWindowStep, OwnedAudioStep, OwnedClearStep DEF Next

(* Under every fault of the codec link: a task marked as lent has one      *)
(* owner, and no two third ids share a decoder.                            *)
THEOREM EveryTaskIsLentOnce == AudioLeftAlone => (Spec => []EveryTaskLentOnce)
<1> SUFFICES ASSUME AudioLeftAlone
             PROVE  Spec => []EveryTaskLentOnce
  OBVIOUS
<1>1. Owned => EveryTaskLentOnce
  BY DEF Owned, EveryTaskLentOnce
<1>2. Init => Owned
  BY OwnedNext
<1>3. IInv /\ Owned /\ [Next]_vars => Owned'
  BY OwnedNext
<1> QED
  BY <1>1, <1>2, <1>3, InvariantHolds, PTL DEF Spec

(* A third id gets a task only in the step that answers it.                *)
LEMMA TablesAnswered ==
  ASSUME IInv, [Next]_vars, NEW th \in DOMAIN ids'.third, th \notin DOMAIN ids.third
  PROVE  reply'.third = th /\ (reply'.ok \/ reply'.cmd = "openAudio")
<1>1. \A x : DOMAIN RemoveCodecTaskID(ids, x).third \subseteq DOMAIN ids.third
  BY DEF RemoveCodecTaskID, Erase
<1>2. \A x, ty : DOMAIN Lend(ids, x, ty).third \subseteq DOMAIN ids.third \cup {x}
  BY DEF Lend, Put
<1>3. \A x, id : DOMAIN UpdateThirdTaskID(ids, x, id).third \subseteq DOMAIN ids.third \cup {x}
  BY DEF UpdateThirdTaskID, Insert, Put, Erase, IInv, TablesInv, AreTables
<1>4. ASSUME NEW x \in WindowID, OpenOrCreate(x) \/ RaiseOrMove(x) \/ Close(x)
      PROVE  reply'.third = th /\ reply'.ok
  BY <1>1, <1>2, <1>4, WindowTables
<1>5. ASSUME NEW x \in AudioID, Audio(x)
      PROVE  reply'.third = th /\ reply'.cmd = "openAudio"
  BY <1>1, <1>2, <1>3, <1>5, AudioTables
<1>6. ASSUME NEW ty \in ClearTypes, Clear(ty)
      PROVE  FALSE
  <2>1. \E S : ids' = GiveBack(S)
    BY <1>6, ClearTables
  <2>2. \A S : DOMAIN GiveBack(S).third \subseteq DOMAIN ids.third
    BY DEF GiveBack
  <2> QED
    BY <2>1, <2>2
<1>7. ASSUME WaitForClear \/ UNCHANGED vars
      PROVE  FALSE
  BY <1>7 DEF WaitForClear, vars, taskVars
<1> QED
  BY <1>4, <1>5, <1>6, <1>7 DEF Next

THEOREM TaskComesWithAnswer == Spec => TaskOnlyWithSuccess
<1>1. IInv /\ [Next]_vars =>
        [\A th \in DOMAIN ids'.third \ DOMAIN ids.third :
           /\ reply'.third = th
           /\ reply'.ok \/ reply'.cmd = "openAudio"]_vars
  BY TablesAnswered
<1> QED
  BY <1>1, InvariantHolds, PTL DEF Spec, TaskOnlyWithSuccess
=============================================================================
