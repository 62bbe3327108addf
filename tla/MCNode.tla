------------------------------- MODULE MCNode -------------------------------
(***************************************************************************)
(* Small instances of Node for TLC; channels as in MCLogicHandle.          *)
(***************************************************************************)
EXTENDS Node

MCSwmsChn ==
  [i \in CodecID |->
     IF i \in AudioTaskID THEN 0 ELSE Cardinality({j \in AuViTaskID : j < i})]

(* The threads of the pool differ in nothing; for runs without liveness.    *)
Threads == Permutations(Worker)
=============================================================================
