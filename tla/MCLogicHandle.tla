--------------------------- MODULE MCLogicHandle ---------------------------
(***************************************************************************)
(* Small instances of LogicHandle for TLC.  Third ids and codec ids are    *)
(* numbers of the code's own ranges, because their order decides which id  *)
(* is lent next and which borrower a search meets first.                   *)
(***************************************************************************)
EXTENDS LogicHandle

(* setOutputTaskIDInMap numbers the channels of the video tasks from 0 on; *)
(* an audio task keeps the 0 of initAVDec.                                 *)
MCSwmsChn ==
  [i \in CodecID |->
     IF i \in AudioTaskID THEN 0 ELSE Cardinality({j \in AuViTaskID : j < i})]

(* Source areas are only stored and compared.                              *)
SrcSymmetry == Permutations(SrcVideo)

(* The state without what no handler reads again: the codec's own records, *)
(* the last reply and the last jobs.  Two states that agree on the rest    *)
(* have the same successors as far as the rest goes.                       *)
NodeView == <<ids, dec, windowVars, aoCodec, clearVars>>

(* ... and that keeps of the last reply what MovedOnTop says of it.        *)
MoveView == <<NodeView, MovedOnTop>>
=============================================================================
