------------------------------ MODULE Framing -------------------------------
(***************************************************************************)
(* How ServerHandle::onMessage cuts what one read of the socket returned   *)
(* into packets, and which handler it gives each to.  A read takes whatever*)
(* has arrived: it may begin in the middle of a packet, hold several, and  *)
(* end in the middle of one.  Nothing is kept from one read to the next.   *)
(*                                                                         *)
(* The bytes of a packet are reduced to parts: the first is the head tag,  *)
(* the second the rest of the header with the command and the length, the  *)
(* others are the body.  No part but the first looks like a head tag.  Of a*)
(* read that is a part of a header only, the model tells whether a handler *)
(* may be started, not how often.                                          *)
(***************************************************************************)
EXTENDS Naturals, Sequences

CONSTANTS Packet,     \* the packets that clients send
          Command,    \* the commands a packet can name
          Handler,    \* those for which onMessage has a case that runs a handler
          commandOf, lengthOf, \* of each packet, as its header gives them
          MaxLength,  \* 65535 in the code, u16PackageLen being 16 bits wide
          Read        \* what reads may return

Part(p, i) == [packet |-> p, at |-> i]

Follows(x, y) ==
  \/ y = Part(x.packet, x.at + 1) /\ x.at < lengthOf[x.packet]
  \/ y.at = 1 /\ x.at = lengthOf[x.packet]

ASSUME FramingAssumption ==
  /\ Handler \subseteq Command
  /\ MaxLength \in Nat
  /\ commandOf \in [Packet -> Command]
  /\ lengthOf \in [Packet -> 2..MaxLength]
  /\ Read \subseteq Seq([packet : Packet, at : 1..MaxLength]) \ {<<>>}
  /\ \A data \in Read : \A j \in 1..(Len(data) - 1) : Follows(data[j], data[j + 1])

-----------------------------------------------------------------------------
(* The header that DataPackageParser reads at the front of data; none when *)
(* the tag differs.  Nobody checks that data holds a whole header: past its*)
(* end there may be any command and any length.                            *)
parserDataHead(data) ==
  IF data[1].at # 1 THEN {}
  ELSE IF Len(data) = 1 THEN [cmd : Command, len : 0..MaxLength]
  ELSE {[cmd |-> commandOf[data[2].packet], len |-> lengthOf[data[2].packet]]}

(* The k-th piece: recvData.substr(count, packLen).                        *)
Piece(data, len, k) == SubSeq(data, (k - 1) * len + 1, k * len)

(* Every iteration parses the front of what was read, never the piece that *)
(* it is about to cut off: one header names and measures all the pieces. A *)
(* piece that is shorter than its packet is dropped.                       *)
Cut(data, head) ==
  IF head.len = 0 \/ head.cmd \notin Handler THEN <<>>
  ELSE [k \in 1..(Len(data) \div head.len) |->
          [handler |-> head.cmd, data |-> Piece(data, head.len, k)]]

(* The tasks that onMessage may hand to the pool for one read.             *)
Tasks(data) ==
  IF parserDataHead(data) = {} THEN {<<>>}
  ELSE {Cut(data, head) : head \in parserDataHead(data)}

-----------------------------------------------------------------------------
(* The task that a packet asks for: its own command with its own bytes.    *)
AsSent(p) ==
  [handler |-> commandOf[p], data |-> [i \in 1..lengthOf[p] |-> Part(p, i)]]

(* Packet p lies in data, behind its first `from` parts.                   *)
Holds(data, p, from) ==
  /\ from + lengthOf[p] <= Len(data)
  /\ \A i \in 1..lengthOf[p] : data[from + i] = Part(p, i)

(* data holds n whole packets, all with the command and length of p.       *)
Alike(data, p, n) ==
  /\ Len(data) = n * lengthOf[p]
  /\ \A k \in 1..n :
       LET q == data[(k - 1) * lengthOf[p] + 1].packet
       IN /\ commandOf[q] = commandOf[p] /\ lengthOf[q] = lengthOf[p]
          /\ Holds(data, q, (k - 1) * lengthOf[p])

(* What a client may rely on, however the network cuts its stream: a read  *)
(* that begins in the middle of a packet starts no handler, nor does one   *)
(* that ends before its first packet does; the first packet, if all of it  *)
(* was read, goes to its own handler as it was sent, whatever follows it;  *)
(* and packets of one kind that were read together go there each by itself *)
(* and in their order.                                                     *)
ReadAsSent ==
  \A data \in Read :
    LET p == data[1].packet
        n == Len(data) \div lengthOf[p]
    IN /\ data[1].at # 1 => Tasks(data) = {<<>>}
       /\ data[1].at = 1 /\ Len(data) \in 2..(lengthOf[p] - 1) => Tasks(data) = {<<>>}
       /\ Holds(data, p, 0) /\ commandOf[p] \in Handler =>
            \A tasks \in Tasks(data) : tasks # <<>> /\ tasks[1] = AsSent(p)
       /\ Alike(data, p, n) /\ commandOf[p] \in Handler =>
            Tasks(data) =
              {[k \in 1..n |-> AsSent(data[(k - 1) * lengthOf[p] + 1].packet)]}
=============================================================================
