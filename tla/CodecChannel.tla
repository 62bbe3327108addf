---------------------------- MODULE CodecChannel ----------------------------
(***************************************************************************)
(* One exchange with the codec process (UnixSockClientData::doSendCommand):*)
(* open a socket of its own, try to connect a bounded number of times, wait*)
(* for the socket to become writable, send the request, wait up to ten     *)
(* seconds for the reply, close the socket; onlySendMsg closes it once the *)
(* request is sent.  The caller is a single thread, so there is one        *)
(* exchange at a time; but a reply may come, or a request be performed,    *)
(* after its exchange is over.                                             *)
(*                                                                         *)
(* A socket is named by the request it was opened for.  The codec is not   *)
(* part of this program: it may refuse a request, close a socket without a *)
(* reply, stop listening, and take any time over all of it; it reads each  *)
(* request it was sent at most once, and performs nothing on a part of one.*)
(***************************************************************************)
EXTENDS Naturals, FiniteSets

CONSTANTS Request,  \* the requests the node sends, each in an exchange
          OneWay,   \* those sent by onlySendMsg
          MaxTries, \* 59 in the code: while ((--retrycount) > 0) from 60, and
                    \* 29 in onlySendMsg
          NoSocket

ASSUME ChannelAssumption ==
  /\ OneWay \subseteq Request
  /\ MaxTries \in Nat \ {0}
  /\ NoSocket \notin Request

VARIABLES call,      \* the exchange under way
          fds,       \* the sockets the node has open
          result,    \* request -> what doSendCommand returned, or "none"
          listening, \* the codec accepts connections
          inbox,     \* requests sent that the codec has not read
          replies,   \* acks the codec has sent that were not read
          hungUp,    \* sockets the codec has closed
          performed  \* request -> how many times the codec performed it

channelVars == <<call, fds, result, listening, inbox, replies, hungUp, performed>>
codecVars == <<listening, inbox, replies, hungUp, performed>>

Phase == {"idle", "connect", "write", "read"}

Result == {"none", "success", "ack error", "garbled", "closed", "sent",
           "DP_ERR_COMMUNICATE_CONNECTION", "DP_ERR_COMMUNICATE_SEND",
           "DP_ERR_COMMUNICATE_SELECT", "DP_ERR_COMMUNICATE_ABNORMAL_TIMEOUT"}

NoCall == [phase |-> "idle", req |-> NoSocket, sock |-> NoSocket, tries |-> 0]

Message == [sock : Request, req : Request]

ChannelTypeOK ==
  /\ call \in [phase : Phase, req : Request \cup {NoSocket},
               sock : Request \cup {NoSocket}, tries : 0..(MaxTries - 1)]
  /\ fds \in SUBSET Request
  /\ result \in [Request -> Result]
  /\ listening \in BOOLEAN
  /\ inbox \in SUBSET Message
  /\ replies \in SUBSET [sock : Request, req : Request, ok : BOOLEAN]
  /\ hungUp \in SUBSET Request
  /\ performed \in [Request -> 0..2]

ChannelInit ==
  /\ call = NoCall
  /\ fds = {}
  /\ result = [r \in Request |-> "none"]
  /\ listening \in BOOLEAN
  /\ inbox = {}
  /\ replies = {}
  /\ hungUp = {}
  /\ performed = [r \in Request |-> 0]

-----------------------------------------------------------------------------
OpenOnce(r) ==  \* mutant: the socket of the last exchange is used again
  /\ call.phase = "idle"
  /\ result[r] = "none"
  /\ LET used == {x \in Request : result[x] \notin {"none", "success"}}
         sock == IF used = {} THEN r ELSE CHOOSE x \in used : TRUE
     IN /\ call' = [phase |-> "connect", req |-> r, sock |-> sock, tries |-> 0]
        /\ fds' = fds \cup {sock}
  /\ UNCHANGED <<result, codecVars>>

Open(r) ==
  /\ call.phase = "idle"
  /\ result[r] = "none"
  /\ call' = [phase |-> "connect", req |-> r, sock |-> r, tries |-> 0]
  /\ fds' = fds \cup {r}
  /\ UNCHANGED <<result, codecVars>>

CloseNever(res) ==  \* mutant: the socket stays open after a timeout
  /\ result' = [result EXCEPT ![call.req] = res]
  /\ fds' = IF res = "DP_ERR_COMMUNICATE_ABNORMAL_TIMEOUT" THEN fds
            ELSE fds \ {call.sock}
  /\ call' = NoCall

(* Every return of doSendCommand closes the socket first.                  *)
Return(res) ==
  /\ result' = [result EXCEPT ![call.req] = res]
  /\ fds' = fds \ {call.sock}
  /\ call' = NoCall

(* connect fails at once or is interrupted by a signal, even while the     *)
(* codec listens; either way the try is used up.                           *)
ConnectFails ==
  /\ call.phase = "connect"
  /\ IF call.tries + 1 = MaxTries
     THEN Return("DP_ERR_COMMUNICATE_CONNECTION")
     ELSE call' = [call EXCEPT !.tries = @ + 1] /\ UNCHANGED <<fds, result>>
  /\ UNCHANGED codecVars

Connect ==
  /\ call.phase = "connect"
  /\ listening
  /\ call' = [call EXCEPT !.phase = "write"]
  /\ UNCHANGED <<fds, result, codecVars>>

(* The whole request is sent.                                              *)
Send ==
  /\ call.phase = "write"
  /\ call.req \notin OneWay
  /\ call' = [call EXCEPT !.phase = "read"]
  /\ inbox' = IF call.sock \in hungUp THEN inbox
              ELSE inbox \cup {[sock |-> call.sock, req |-> call.req]}
  /\ UNCHANGED <<fds, result, listening, replies, hungUp, performed>>

(* onlySendMsg returns what send took, without asking whether that was all.*)
SendOnly ==
  /\ call.phase = "write"
  /\ call.req \in OneWay
  /\ Return("sent")
  /\ \/ UNCHANGED inbox
     \/ /\ call.sock \notin hungUp
        /\ inbox' = inbox \cup {[sock |-> call.sock, req |-> call.req]}
  /\ UNCHANGED <<listening, replies, hungUp, performed>>

(* Not writable within a second, select or send fails, or only a part of   *)
(* the request is sent: wbytes differs from len.                           *)
SendFails ==
  /\ call.phase = "write"
  /\ Return("DP_ERR_COMMUNICATE_SEND")
  /\ UNCHANGED codecVars

(* recv returns the reply; recvCB takes it for what it says, or for an     *)
(* error of its own when it did not arrive in one piece.                   *)
Receive(m) ==
  /\ call.phase = "read"
  /\ m.sock = call.sock
  /\ \/ Return(IF m.ok THEN "success" ELSE "ack error")
     \/ Return("garbled")
  /\ replies' = replies \ {m}
  /\ UNCHANGED <<listening, inbox, hungUp, performed>>

(* recv returns 0: the codec has closed the socket and sent nothing.       *)
Closed ==
  /\ call.phase = "read"
  /\ call.sock \in hungUp
  /\ \A m \in replies : m.sock # call.sock
  /\ Return("closed")
  /\ UNCHANGED codecVars

AskAgain ==  \* mutant: a request whose reply is late is sent once more
  /\ call.phase = "read"
  /\ \/ Return("DP_ERR_COMMUNICATE_ABNORMAL_TIMEOUT") /\ UNCHANGED inbox
     \/ /\ inbox' = inbox \cup {[sock |-> call.sock, req |-> call.req]}
        /\ UNCHANGED <<call, fds, result>>
  /\ UNCHANGED <<listening, replies, hungUp, performed>>

WaitForEver ==  \* mutant: the wait for the reply has no timeout
  /\ call.phase = "read"
  /\ \E m \in replies : m.sock = call.sock
  /\ Return("DP_ERR_COMMUNICATE_SELECT")
  /\ UNCHANGED codecVars

(* No reply within ten seconds (Linux's select counts the time left down,  *)
(* so a failed recv does not start them anew), or select fails.            *)
NoReply ==
  /\ call.phase = "read"
  /\ \/ Return("DP_ERR_COMMUNICATE_ABNORMAL_TIMEOUT")
     \/ Return("DP_ERR_COMMUNICATE_SELECT")
  /\ UNCHANGED codecVars

-----------------------------------------------------------------------------
(* The codec reads a request, performs it or refuses it, and replies; the  *)
(* reply goes nowhere when the node has closed the socket.                 *)
CodecHandles(m) ==
  /\ inbox' = inbox \ {m}
  /\ \E ok \in BOOLEAN :
       /\ performed' =
            IF ok THEN [performed EXCEPT ![m.req] = IF @ < 2 THEN @ + 1 ELSE @]
            ELSE performed
       /\ replies' =
            IF m.sock \in fds /\ m.sock \notin hungUp
            THEN replies \cup {[sock |-> m.sock, req |-> m.req, ok |-> ok]}
            ELSE replies
  /\ UNCHANGED <<call, fds, result, listening, hungUp>>

(* The codec closes the connection of a request that it has not read.      *)
CodecHangsUp(m) ==
  /\ inbox' = inbox \ {m}
  /\ hungUp' = hungUp \cup {m.sock}
  /\ UNCHANGED <<call, fds, result, listening, replies, performed>>

(* The codec ends, with every request it has not read, or starts.          *)
CodecStops ==
  /\ listening
  /\ listening' = FALSE
  /\ inbox' = {}
  /\ hungUp' = hungUp \cup fds
  /\ UNCHANGED <<call, fds, result, replies, performed>>

CodecStarts ==
  /\ ~listening
  /\ listening' = TRUE
  /\ UNCHANGED <<call, fds, result, inbox, replies, hungUp, performed>>

CodecNext ==
  \/ \E m \in inbox : CodecHandles(m) \/ CodecHangsUp(m)
  \/ CodecStops
  \/ CodecStarts

ExchangeStep ==
  \/ ConnectFails \/ Connect
  \/ Send \/ SendOnly \/ SendFails
  \/ \E m \in replies : Receive(m)
  \/ Closed
  \/ NoReply

ChannelNext ==
  \/ \E r \in Request : Open(r)
  \/ ExchangeStep
  \/ CodecNext

ChannelSpec == ChannelInit /\ [][ChannelNext]_channelVars

-----------------------------------------------------------------------------
(* What the sender of a request has been told, as CodecLink puts it.       *)
answer ==
  [r \in Request |->
     IF call.req = r THEN "asked"
     ELSE CASE result[r] = "none" -> "none"
            [] result[r] = "success" -> "success"
            [] result[r] \in {"ack error", "DP_ERR_COMMUNICATE_CONNECTION",
                              "DP_ERR_COMMUNICATE_SEND"} -> "refused"
            [] OTHER -> "unknown"]

Link == INSTANCE CodecLink

(* An exchange implements the link: at most one performance of a request,  *)
(* no success of a request that was not performed, and no performance of   *)
(* one whose sender was told that it was refused or not sent, whichever    *)
(* tries, timeouts and restarts of the codec happened in between.          *)
ImplementsLink == Link!Spec

(* The node holds no socket but that of the exchange under way: thousands  *)
(* of failed exchanges leave no descriptor open.                           *)
NoSocketLeft == fds = IF call.phase = "idle" THEN {} ELSE {call.sock}

(* A reply that waits to be read is the reply to the request of its socket:*)
(* a late reply is never taken for that of a later request.                *)
RepliesMatch == \A m \in replies : m.sock = call.sock => m.req = call.req
=============================================================================
