--------------------------- MODULE Framing_proofs ---------------------------
(***************************************************************************)
(* What a read may start, for all packets, commands and cuts of a stream.  *)
(* The work is in the arithmetic of the pieces: n packets of one length are*)
(* n pieces, and the k-th piece is the k-th packet.                        *)
(***************************************************************************)
EXTENDS Framing, TLAPS

LEMMA PacketOfRead ==
  ASSUME NEW data \in Read
  PROVE  /\ data \in Seq([packet : Packet, at : 1..MaxLength])
         /\ Len(data) \in Nat \ {0}
         /\ \A j \in 1..Len(data) : data[j].packet \in Packet /\ data[j].at \in Nat \ {0}
         /\ \A p \in Packet : lengthOf[p] \in Nat /\ lengthOf[p] >= 2 /\ commandOf[p] \in Command
<1>1. data \in Seq([packet : Packet, at : 1..MaxLength]) /\ data # <<>>
  BY FramingAssumption
<1>2. Len(data) \in Nat \ {0}
  BY <1>1
<1>3. \A j \in 1..Len(data) : data[j] \in [packet : Packet, at : 1..MaxLength]
  <2>. DEFINE S == [packet : Packet, at : 1..MaxLength]
  <2>1. data \in Seq(S)
    BY <1>1
  <2>. HIDE DEF S
  <2>2. \A j \in 1..Len(data) : data[j] \in S
    BY <2>1
  <2>. QED
    BY <2>2 DEF S
<1>4. MaxLength \in Nat
  BY FramingAssumption
<1>5. \A p \in Packet : lengthOf[p] \in Nat /\ lengthOf[p] >= 2 /\ commandOf[p] \in Command
  BY FramingAssumption
<1>. QED
  BY <1>1, <1>2, <1>3, <1>4, <1>5

(* A read that begins with a packet, and does not end within its header, is*)
(* cut by the header of that packet.                                       *)
LEMMA HeaderOfFirst ==
  ASSUME NEW data \in Read, data[1].at = 1, Len(data) >= 2
  PROVE  LET p == data[1].packet
         IN Tasks(data) = {Cut(data, [cmd |-> commandOf[p], len |-> lengthOf[p]])}
<1>. DEFINE p == data[1].packet
            head == [cmd |-> commandOf[p], len |-> lengthOf[p]]
<1>1. p \in Packet /\ lengthOf[p] >= 2 /\ lengthOf[p] \in Nat /\ Len(data) \in Nat
  BY PacketOfRead
<1>2. Follows(data[1], data[2])
  BY <1>1, FramingAssumption
<1>3. data[2].packet = p
  BY <1>1, <1>2 DEF Follows, Part
<1>4. parserDataHead(data) = {head}
  BY <1>1, <1>3 DEF parserDataHead
<1>. QED
  BY <1>4 DEF Tasks

(* Pieces that end within the read are as long as they should be.          *)
LEMMA PieceIs ==
  ASSUME NEW data \in Read, NEW len \in Nat \ {0}, NEW from \in Nat, from + len <= Len(data)
  PROVE  SubSeq(data, from + 1, from + len) = [i \in 1..len |-> data[from + i]]
<1>1. data \in Seq([packet : Packet, at : 1..MaxLength]) /\ Len(data) \in Nat
  BY PacketOfRead
<1>. DEFINE S == [packet : Packet, at : 1..MaxLength]
            x == SubSeq(data, from + 1, from + len)
<1>2. /\ x \in Seq(S) /\ Len(x) = len
      /\ \A i \in 1..len : x[i] = data[from + i]
  <2>1. data \in Seq(S)
    BY <1>1
  <2>. HIDE DEF S
  <2>. QED
    BY <1>1, <2>1
<1>3. x = [i \in 1..Len(x) |-> x[i]]
  <2>. HIDE DEF S, x
  <2>. QED
    BY <1>2
<1>. QED
  BY <1>2, <1>3

LEMMA Stretch ==
  ASSUME NEW len \in Nat \ {0}, NEW k \in Nat \ {0}
  PROVE  (k - 1) * len \in Nat /\ k * len = (k - 1) * len + len
OBVIOUS

LEMMA PieceIsPacket ==
  ASSUME NEW data \in Read, NEW k \in Nat \ {0}, NEW p \in Packet,
         Holds(data, p, (k - 1) * lengthOf[p])
  PROVE  Piece(data, lengthOf[p], k) = AsSent(p).data
<1>. DEFINE len == lengthOf[p]
            from == (k - 1) * len
<1>1. len \in Nat \ {0}
  BY PacketOfRead
<1>2. from \in Nat /\ k * len = from + len
  <2>. HIDE DEF len
  <2>. QED
    BY <1>1, Stretch
<1>3. from + len <= Len(data) /\ \A i \in 1..len : data[from + i] = Part(p, i)
  BY DEF Holds
<1>4. SubSeq(data, from + 1, from + len) = [i \in 1..len |-> data[from + i]]
  <2>. HIDE DEF from, len
  <2>. QED
    BY <1>1, <1>2, <1>3, PieceIs
<1>5. Piece(data, len, k) = [i \in 1..len |-> Part(p, i)]
  BY <1>2, <1>3, <1>4 DEF Piece
<1>. QED
  BY <1>5 DEF AsSent

LEMMA FirstPart ==
  ASSUME NEW data \in Read, NEW p \in Packet, Holds(data, p, 0)
  PROVE  data[1] = Part(p, 1) /\ Len(data) >= lengthOf[p]
<1>1. lengthOf[p] \in Nat /\ lengthOf[p] >= 2 /\ Len(data) \in Nat
  BY PacketOfRead
<1>2. 0 + lengthOf[p] <= Len(data) /\ \A i \in 1..lengthOf[p] : data[0 + i] = Part(p, i)
  BY DEF Holds
<1>3. 1 \in 1..lengthOf[p] /\ 0 + 1 = 1
  BY <1>1
<1>4. data[1] = Part(p, 1)
  BY <1>2, <1>3
<1>. QED
  BY <1>1, <1>2, <1>4

(* The quotients that count the pieces.                                    *)
LEMMA Quotients ==
  ASSUME NEW len \in Nat \ {0}, NEW size \in Nat
  PROVE  /\ size \div len \in Nat
         /\ size < len => size \div len = 0
         /\ size >= len => size \div len >= 1
OBVIOUS

LEMMA WholeQuotient ==
  ASSUME NEW len \in Nat \ {0}, NEW n \in Nat
  PROVE  (n * len) \div len = n
OBVIOUS

(* A read starts the handlers of what was sent, and no other ones, as far  *)
(* as ReadAsSent says.                                                     *)
THEOREM EveryReadAsSent == ReadAsSent
<1>. SUFFICES ASSUME NEW data \in Read
              PROVE  LET p == data[1].packet
                         n == Len(data) \div lengthOf[p]
                     IN /\ data[1].at # 1 => Tasks(data) = {<<>>}
                        /\ data[1].at = 1 /\ Len(data) \in 2..(lengthOf[p] - 1) => Tasks(data) = {<<>>}
                        /\ Holds(data, p, 0) /\ commandOf[p] \in Handler =>
                             \A tasks \in Tasks(data) : tasks # <<>> /\ tasks[1] = AsSent(p)
                        /\ Alike(data, p, n) /\ commandOf[p] \in Handler =>
                             Tasks(data) =
                               {[k \in 1..n |-> AsSent(data[(k - 1) * lengthOf[p] + 1].packet)]}
  BY DEF ReadAsSent
<1>. DEFINE p == data[1].packet
            len == lengthOf[p]
            n == Len(data) \div len
            head == [cmd |-> commandOf[p], len |-> len]
<1>1. /\ p \in Packet /\ len \in Nat \ {0} /\ len >= 2
      /\ Len(data) \in Nat \ {0} /\ n \in Nat
  <2>1. p \in Packet /\ len \in Nat \ {0} /\ len >= 2 /\ Len(data) \in Nat \ {0}
    BY PacketOfRead
  <2>. HIDE DEF len
  <2>. QED
    BY <2>1, Quotients
<1>2. data[1].at # 1 => Tasks(data) = {<<>>}
  BY DEF Tasks, parserDataHead
<1>3. ASSUME data[1].at = 1, Len(data) >= 2
      PROVE  Tasks(data) = {Cut(data, head)}
  BY <1>3, HeaderOfFirst
<1>4. commandOf[p] \in Handler =>
        Cut(data, head) = [k \in 1..n |-> [handler |-> commandOf[p], data |-> Piece(data, len, k)]]
  BY <1>1 DEF Cut
<1>5. data[1].at = 1 /\ Len(data) \in 2..(len - 1) => Tasks(data) = {<<>>}
  <2>. SUFFICES ASSUME data[1].at = 1, Len(data) \in 2..(len - 1)
                PROVE  Cut(data, head) = <<>>
    BY <1>1, <1>3
  <2>1. n = 0
    <3>. HIDE DEF len
    <3>. QED
      BY <1>1, Quotients
  <2>2. CASE commandOf[p] \notin Handler
    BY <2>2 DEF Cut
  <2>3. CASE commandOf[p] \in Handler
    BY <1>4, <2>1, <2>3
  <2>. QED
    BY <2>2, <2>3
<1>6. Holds(data, p, 0) /\ commandOf[p] \in Handler =>
        \A tasks \in Tasks(data) : tasks # <<>> /\ tasks[1] = AsSent(p)
  <2>. SUFFICES ASSUME Holds(data, p, 0), commandOf[p] \in Handler
                PROVE  \A tasks \in Tasks(data) : tasks # <<>> /\ tasks[1] = AsSent(p)
    OBVIOUS
  <2>1. data[1].at = 1 /\ Len(data) >= len
    <3>1. data[1] = Part(p, 1) /\ Len(data) >= lengthOf[p]
      <4>. HIDE DEF p
      <4>. QED
        BY <1>1, FirstPart
    <3>. QED
      BY <3>1 DEF Part
  <2>2. n >= 1
    <3>. HIDE DEF len
    <3>. QED
      BY <1>1, <2>1, Quotients
  <2>3. Piece(data, len, 1) = AsSent(p).data
    <3>1. (1 - 1) * len = 0
      BY <1>1
    <3>2. Holds(data, p, (1 - 1) * lengthOf[p])
      BY <3>1
    <3>. QED
      BY <1>1, <3>2, PieceIsPacket
  <2>4. Tasks(data) = {Cut(data, head)}
    BY <1>1, <1>3, <2>1
  <2>5. Cut(data, head)[1] = AsSent(p) /\ Cut(data, head) # <<>>
    <3>. DEFINE task(k) == [handler |-> commandOf[p], data |-> Piece(data, len, k)]
    <3>1. task(1) = AsSent(p)
      BY <2>3 DEF AsSent
    <3>2. Cut(data, head) = [k \in 1..n |-> task(k)]
      BY <1>4
    <3>3. 1 \in 1..n
      BY <1>1, <2>2
    <3>. HIDE DEF task, n
    <3>4. Cut(data, head)[1] = task(1) /\ 1 \in DOMAIN Cut(data, head)
      BY <3>2, <3>3
    <3>. QED
      BY <3>1, <3>4
  <2>. QED
    BY <2>4, <2>5
<1>7. Alike(data, p, n) /\ commandOf[p] \in Handler =>
        Tasks(data) = {[k \in 1..n |-> AsSent(data[(k - 1) * len + 1].packet)]}
  <2>. SUFFICES ASSUME Alike(data, p, n), commandOf[p] \in Handler
                PROVE  Tasks(data) = {[k \in 1..n |-> AsSent(data[(k - 1) * len + 1].packet)]}
    OBVIOUS
  <2>1. n >= 1 /\ Len(data) = n * len
    <3>1. Len(data) = n * len
      BY DEF Alike
    <3>. HIDE DEF n, len
    <3>. QED
      BY <1>1, <3>1
  <2>2. ASSUME NEW k \in 1..n
        PROVE  LET q == data[(k - 1) * len + 1].packet
               IN /\ q \in Packet
                  /\ commandOf[q] = commandOf[p] /\ lengthOf[q] = len
                  /\ Holds(data, q, (k - 1) * len)
    <3>. DEFINE from == (k - 1) * len
                q == data[from + 1].packet
    <3>1. commandOf[q] = commandOf[p] /\ lengthOf[q] = len /\ Holds(data, q, from)
      BY DEF Alike
    <3>2. from \in Nat
      BY <1>1, <2>2
    <3>3. from + len <= Len(data)
      BY <3>1 DEF Holds
    <3>4. from + 1 \in 1..Len(data)
      <4>. HIDE DEF from, len
      <4>. QED
        BY <1>1, <3>2, <3>3
    <3>5. q \in Packet
      BY <3>4, PacketOfRead
    <3>. QED
      BY <3>1, <3>5
  <2>3. data[1].at = 1 /\ Len(data) >= 2
    <3>1. (1 - 1) * len = 0
      BY <1>1
    <3>2. Holds(data, p, 0)
      <4>1. 1 \in 1..n
        BY <1>1, <2>1
      <4>2. (1 - 1) * len + 1 = 1
        BY <3>1
      <4>. QED
        BY <2>2, <3>1, <4>1, <4>2
    <3>3. data[1] = Part(p, 1) /\ Len(data) >= lengthOf[p]
      <4>. HIDE DEF p
      <4>. QED
        BY <1>1, <3>2, FirstPart
    <3>. QED
      BY <1>1, <3>3 DEF Part
  <2>4. ASSUME NEW k \in 1..n
        PROVE  [handler |-> commandOf[p], data |-> Piece(data, len, k)] =
                 AsSent(data[(k - 1) * len + 1].packet)
    <3>. DEFINE q == data[(k - 1) * len + 1].packet
    <3>1. q \in Packet /\ commandOf[q] = commandOf[p] /\ lengthOf[q] = len
          /\ Holds(data, q, (k - 1) * lengthOf[q])
      BY <2>2
    <3>2. k \in Nat \ {0}
      BY <1>1
    <3>3. Piece(data, lengthOf[q], k) = AsSent(q).data
      <4>. HIDE DEF q
      <4>. QED
        BY <3>1, <3>2, PieceIsPacket
    <3>4. AsSent(q) = [handler |-> commandOf[q], data |-> AsSent(q).data]
      BY DEF AsSent
    <3>. QED
      BY <3>1, <3>3, <3>4
  <2>5. Cut(data, head) = [k \in 1..n |-> AsSent(data[(k - 1) * len + 1].packet)]
    <3>. HIDE DEF n, len, head
    <3>. QED
      BY <1>4, <2>4
  <2>. QED
    BY <1>3, <2>3, <2>5
<1>. QED
  BY <1>2, <1>5, <1>6, <1>7
=============================================================================
