----------------------------- MODULE CodecLink ------------------------------
(***************************************************************************)
(* What a command handler may rely on when it sends a request to the codec:*)
(* the codec performs a request at most once, a success is reported only   *)
(* for a request that was performed, a refusal only for one that never is; *)
(* any other error leaves open whether it was, or will be, performed.      *)
(* LogicHandle's outcomes are these: "ok" is a success, "fail" is an error *)
(* of a request that is not performed, "late" one of a request that is.    *)
(***************************************************************************)
EXTENDS Naturals

CONSTANT Request

VARIABLES answer,    \* request -> what its sender was told
          performed  \* request -> how many times the codec performed it

vars == <<answer, performed>>

Init ==
  /\ answer = [r \in Request |-> "none"]
  /\ performed = [r \in Request |-> 0]

Ask(r) ==
  /\ answer[r] = "none"
  /\ answer' = [answer EXCEPT ![r] = "asked"]
  /\ UNCHANGED performed

Perform(r) ==
  /\ answer[r] \in {"asked", "unknown"}
  /\ performed[r] = 0
  /\ performed' = [performed EXCEPT ![r] = 1]
  /\ UNCHANGED answer

Answer(r) ==
  /\ answer[r] = "asked"
  /\ \E a \in {"success", "refused", "unknown"} :
       /\ a = "success" => performed[r] = 1
       /\ a = "refused" => performed[r] = 0
       /\ answer' = [answer EXCEPT ![r] = a]
  /\ UNCHANGED performed

Next == \E r \in Request : Ask(r) \/ Perform(r) \/ Answer(r)

Spec == Init /\ [][Next]_vars
=============================================================================
