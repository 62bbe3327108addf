--------------------------- MODULE MCServerHandle ---------------------------
(* Small instances of ServerHandle, and of its Framing, for TLC. *)
EXTENDS ServerHandle, Framing, TLC

CONSTANTS io1, io2

OneLoop == <<io1>>
TwoLoops == <<io1, io2>>
MCLoop == {Base} \cup {IOLoops[i] : i \in 1..Len(IOLoops)}
MCFunctor == [fn : Fn, conn : Conn]
MCChannel == [kind : {"acceptor", "onTimer", "socket", "forceClose"}, conn : Conn \cup {None}]

(* A bound on the clients: one that sends or leaves is alone; it leaves    *)
(* after at most one packet; and those that may not send come after it,    *)
(* which is no loss, as they would only take its place.                    *)
FewClients ==
  /\ \A c, d \in Conn : c # d /\ peer[c] # "away" /\ peer[d] # "away" =>
       sent[c] = 0 /\ peer[c] # "closed"
  /\ \A c \in Conn : peer[c] = "closed" => sent[c] <= 1
  /\ \A c \in Senders, d \in Conn \ Senders : peer[d] # "away" => state[c] # "none"

FewSpec == Init /\ [][Next /\ FewClients']_vars /\ Fairness

(* Two packets of one kind, one of another command, one of another length, *)
(* one that nobody handles; reads of up to six parts.                      *)
MCPacket == {"open1", "open2", "close", "batch", "search"}
MCCommandOf ==
  [p \in MCPacket |-> CASE p \in {"open1", "open2"} -> "openAndMoveWindow"
                        [] p = "close" -> "closeWindow"
                        [] p = "batch" -> "windowBatchControl"
                        [] p = "search" -> "search"]
MCLengthOf == [p \in MCPacket |-> IF p \in {"batch", "search"} THEN 3 ELSE 2]
MCPart == UNION {{Part(p, i) : i \in 1..lengthOf[p]} : p \in Packet}
MCReadOf[n \in 1..6] ==
  IF n = 1 THEN {<<x>> : x \in MCPart}
  ELSE UNION {{Append(s, y) : y \in {z \in MCPart : Follows(s[n - 1], z)}} : s \in MCReadOf[n - 1]}
MCRead == UNION {MCReadOf[n] : n \in 1..6}

(* Framing has no state: TLC evaluates what it promises before each run.   *)
ASSUME ReadsOfSixParts == ReadAsSent
=============================================================================
