-------------------------- MODULE CommandPath_proofs --------------------------
(***************************************************************************)
(* An exchange with the codec implements the link that the handlers rely   *)
(* on, for every set of requests and every number of tries, whatever the   *)
(* codec does; and coupling the pool with the channel takes nothing from   *)
(* either: every behaviour of the command path is one of the pool and one  *)
(* of the channel, so what is proved of them holds of it.                  *)
(***************************************************************************)
EXTENDS CommandPath, ThreadPool_proofs

InInbox(r) == \E m \in inbox : m.req = r
Replied(r) == \E m \in replies : m.req = r

(* A request is somewhere on its way from the caller to the codec and back,*)
(* at one place at a time.                                                 *)
NotSentYet(r) == ~InInbox(r) /\ ~Replied(r) /\ performed[r] = 0

CallOK ==
  /\ call.phase = "idle" => call.req = NoSocket /\ call.sock = NoSocket
  /\ call.phase # "idle" => /\ call.req \in Request
                            /\ call.sock = call.req
                            /\ result[call.req] = "none"

MessagesOK ==
  /\ \A m \in inbox : /\ m.sock = m.req
                      /\ ~Replied(m.req)
                      /\ performed[m.req] = 0
  /\ \A m \in replies : m.sock = m.req /\ performed[m.req] = IF m.ok THEN 1 ELSE 0

RequestsOK ==
  \A r \in Request :
    /\ performed[r] \in {0, 1}
    /\ call.req = r /\ call.phase \in {"connect", "write"} => NotSentYet(r)
    /\ answer[r] = "none" => NotSentYet(r)
    /\ answer[r] = "refused" => performed[r] = 0 /\ ~InInbox(r)
    /\ answer[r] = "success" => ~InInbox(r)

ChannelInv ==
  /\ ChannelTypeOK
  /\ CallOK
  /\ MessagesOK
  /\ RequestsOK
  /\ NoSocketLeft

-----------------------------------------------------------------------------
(* The sender's view of a request: it is asked while its exchange lasts,   *)
(* and then what the exchange returned.                                    *)
LEMMA AnswerOf ==
  ASSUME NEW r \in Request, ChannelTypeOK
  PROVE  /\ call.req = r => answer[r] = "asked"
         /\ call.req # r /\ result[r] = "none" => answer[r] = "none"
         /\ call.req # r /\ result[r] = "success" => answer[r] = "success"
         /\ call.req # r /\ result[r] \in {"ack error", "DP_ERR_COMMUNICATE_CONNECTION",
                                           "DP_ERR_COMMUNICATE_SEND"}
              => answer[r] = "refused"
         /\ call.req # r /\ result[r] \in {"garbled", "closed", "sent",
                                           "DP_ERR_COMMUNICATE_SELECT",
                                           "DP_ERR_COMMUNICATE_ABNORMAL_TIMEOUT"}
              => answer[r] = "unknown"
BY DEF answer, ChannelTypeOK, Result

(* A function that differs from another at one point.                      *)
LEMMA ExceptOf ==
  ASSUME NEW S, NEW f, NEW g, NEW r \in S, NEW v,
         f = [x \in S |-> f[x]], g = [x \in S |-> g[x]],
         g[r] = v, \A x \in S \ {r} : g[x] = f[x]
  PROVE  g = [f EXCEPT ![r] = v]
<1>1. g = [x \in S |-> IF x = r THEN v ELSE f[x]]
  OBVIOUS
<1>2. [f EXCEPT ![r] = v] = [x \in S |-> IF x = r THEN v ELSE f[x]]
  OBVIOUS
<1>. QED
  BY <1>1, <1>2

LEMMA InitChannel == ChannelInit => ChannelInv /\ Link!Init
<1>. SUFFICES ASSUME ChannelInit
              PROVE  ChannelInv /\ Link!Init
  OBVIOUS
<1>. USE DEF ChannelInit, NoCall
<1>1. ChannelTypeOK
  BY ChannelAssumption DEF ChannelTypeOK, Phase, Result, Message
<1>2. CallOK /\ MessagesOK /\ NoSocketLeft
  BY DEF CallOK, MessagesOK, NoSocketLeft
<1>3. \A r \in Request : answer[r] = "none"
  BY <1>1, AnswerOf, ChannelAssumption
<1>4. RequestsOK
  BY <1>3, ChannelAssumption DEF RequestsOK, NotSentYet, InInbox, Replied
<1>5. Link!Init
  BY ChannelAssumption DEF Link!Init, answer
<1>. QED
  BY <1>1, <1>2, <1>4, <1>5 DEF ChannelInv

(* How a return of doSendCommand changes the sender's view.                *)
LEMMA ReturnStep ==
  ASSUME ChannelInv, call.phase # "idle", NEW res \in Result \ {"none"}, Return(res)
  PROVE  /\ call' \in [phase : Phase, req : Request \cup {NoSocket},
                       sock : Request \cup {NoSocket}, tries : 0..(MaxTries - 1)]
         /\ call'.req = NoSocket /\ call'.sock = NoSocket /\ call'.phase = "idle"
         /\ result' \in [Request -> Result]
         /\ result'[call.req] = res
         /\ \A r \in Request \ {call.req} : result'[r] = result[r]
         /\ fds' = {}
<1>. USE DEF ChannelInv, Return, ChannelTypeOK, CallOK, NoSocketLeft, NoCall
<1>1. 0 \in 0..(MaxTries - 1) /\ "idle" \in Phase
  BY ChannelAssumption DEF Phase
<1>2. result' \in [Request -> Result] /\ fds' = {}
  OBVIOUS
<1>. QED
  BY <1>1, <1>2

(* What each result of doSendCommand tells the sender.                     *)
Meaning(res) ==
  CASE res = "success" -> "success"
    [] res \in {"ack error", "DP_ERR_COMMUNICATE_CONNECTION", "DP_ERR_COMMUNICATE_SEND"} -> "refused"
    [] OTHER -> "unknown"

LEMMA ReturnAnswers ==
  ASSUME ChannelInv, call.phase # "idle", NEW res \in Result \ {"none"}, Return(res)
  PROVE  answer' = [answer EXCEPT ![call.req] = Meaning(res)]
<1>1. /\ call'.req = NoSocket /\ call.req \in Request
      /\ result'[call.req] = res
      /\ \A r \in Request \ {call.req} : result'[r] = result[r]
  BY ReturnStep DEF ChannelInv, CallOK
<1>2. answer'[call.req] = Meaning(res)
  BY <1>1, ChannelAssumption DEF answer, Meaning, Result
<1>3. \A r \in Request \ {call.req} : answer'[r] = answer[r]
  BY <1>1, ChannelAssumption DEF answer
<1>4. answer = [x \in Request |-> answer[x]] /\ answer' = [x \in Request |-> answer'[x]]
  BY DEF answer
<1>. QED
  BY <1>1, <1>2, <1>3, <1>4, ExceptOf

(* A return that leaves the codec alone answers its request, and nothing   *)
(* is told that does not hold.                                             *)
LEMMA ReturnKeeps ==
  ASSUME ChannelInv, call.phase # "idle", NEW res \in Result \ {"none"}, Return(res),
         UNCHANGED <<listening, inbox, hungUp, performed>>,
         replies' \subseteq replies,
         Meaning(res) = "success" => performed[call.req] = 1 /\ ~InInbox(call.req),
         Meaning(res) = "refused" => performed[call.req] = 0 /\ ~InInbox(call.req)
  PROVE  ChannelInv' /\ Link!Next
<1>. USE DEF ChannelInv
<1>1. /\ call'.req = NoSocket /\ call'.sock = NoSocket /\ call'.phase = "idle"
      /\ result'[call.req] = res
      /\ \A r \in Request \ {call.req} : result'[r] = result[r]
      /\ fds' = {}
  BY ReturnStep
<1>2. call.req \in Request
  BY DEF CallOK
<1>3. answer' = [answer EXCEPT ![call.req] = Meaning(res)]
  BY ReturnAnswers
<1>4. ChannelTypeOK'
  BY ReturnStep DEF ChannelTypeOK
<1>5. CallOK' /\ NoSocketLeft'
  BY <1>1 DEF CallOK, NoSocketLeft
<1>6. MessagesOK'
  BY DEF MessagesOK, Replied
<1>7. RequestsOK'
  <2>. SUFFICES ASSUME NEW r \in Request
                PROVE  /\ performed'[r] \in {0, 1}
                       /\ call'.req # r
                       /\ answer'[r] = "none" => NotSentYet(r)'
                       /\ answer'[r] = "refused" => performed'[r] = 0 /\ ~InInbox(r)'
                       /\ answer'[r] = "success" => ~InInbox(r)'
    BY DEF RequestsOK
  <2>1. InInbox(r)' = InInbox(r) /\ (NotSentYet(r) => NotSentYet(r)')
    BY DEF InInbox, NotSentYet, Replied
  <2>2. CASE r = call.req
    <3>1. answer'[r] = Meaning(res)
      BY <1>2, <1>3, <2>2 DEF answer
    <3>2. Meaning(res) # "none"
      BY DEF Meaning, Result
    <3>. QED
      BY <1>1, <2>1, <2>2, <3>1, <3>2, ChannelAssumption DEF RequestsOK
  <2>3. CASE r # call.req
    <3>1. answer'[r] = answer[r]
      BY <1>3, <2>3 DEF answer
    <3>. QED
      BY <1>1, <2>1, <2>3, <3>1, ChannelAssumption DEF RequestsOK
  <2>. QED
    BY <2>2, <2>3
<1>8. Link!Answer(call.req)
  <2>1. answer[call.req] = "asked"
    BY <1>2, AnswerOf
  <2>2. Meaning(res) \in {"success", "refused", "unknown"}
    BY DEF Meaning
  <2>. QED
    BY <1>3, <2>1, <2>2 DEF Link!Answer
<1>. QED
  BY <1>2, <1>4, <1>5, <1>6, <1>7, <1>8 DEF Link!Next

-----------------------------------------------------------------------------
LEMMA OpenStep ==
  ASSUME ChannelInv, NEW r \in Request, Open(r)
  PROVE  ChannelInv' /\ Link!Next
<1>. USE DEF ChannelInv, Open, codecVars
<1>1. /\ call' = [phase |-> "connect", req |-> r, sock |-> r, tries |-> 0]
      /\ call.req = NoSocket /\ fds = {} /\ fds' = {r}
  BY DEF CallOK, NoSocketLeft
<1>2. 0 \in 0..(MaxTries - 1)
  BY ChannelAssumption
<1>3. ChannelTypeOK'
  BY <1>1, <1>2 DEF ChannelTypeOK, Phase
<1>4. CallOK' /\ NoSocketLeft' /\ MessagesOK'
  BY <1>1 DEF CallOK, NoSocketLeft, MessagesOK, Replied
<1>5. answer[r] = "none"
  BY <1>1, AnswerOf, ChannelAssumption
<1>6. answer' = [answer EXCEPT ![r] = "asked"]
  <2>1. answer'[r] = "asked" /\ \A x \in Request \ {r} : answer'[x] = answer[x]
    <3>1. call'.req = r /\ result' = result
      BY <1>1
    <3>2. answer'[r] = "asked"
      BY <3>1 DEF answer
    <3>3. ASSUME NEW x \in Request \ {r}
          PROVE  answer'[x] = answer[x]
      BY <1>1, <3>1, ChannelAssumption DEF answer
    <3>. QED
      BY <3>2, <3>3
  <2>2. answer = [x \in Request |-> answer[x]] /\ answer' = [x \in Request |-> answer'[x]]
    BY DEF answer
  <2>. QED
    BY <2>1, <2>2, ExceptOf
<1>7. RequestsOK'
  <2>. SUFFICES ASSUME NEW x \in Request
                PROVE  /\ performed'[x] \in {0, 1}
                       /\ call'.req = x => NotSentYet(x)'
                       /\ answer'[x] = "none" => NotSentYet(x)'
                       /\ answer'[x] = "refused" => performed'[x] = 0 /\ ~InInbox(x)'
                       /\ answer'[x] = "success" => ~InInbox(x)'
    BY DEF RequestsOK
  <2>1. InInbox(x)' = InInbox(x) /\ NotSentYet(x)' = NotSentYet(x)
    BY DEF InInbox, NotSentYet, Replied
  <2>2. x # r => answer'[x] = answer[x]
    BY <1>6 DEF answer
  <2>3. answer'[r] = "asked"
    BY <1>6 DEF answer
  <2>. QED
    BY <1>1, <1>5, <2>1, <2>2, <2>3 DEF RequestsOK
<1>8. Link!Ask(r)
  BY <1>5, <1>6 DEF Link!Ask
<1>. QED
  BY <1>3, <1>4, <1>7, <1>8 DEF Link!Next

(* A step that only moves the exchange on, and tells its sender nothing.   *)
LEMMA MovesOn ==
  ASSUME ChannelInv, call.phase # "idle",
         NEW c, call' = c, ChannelTypeOK', c.phase # "idle",
         c.req = call.req, c.sock = call.sock,
         c.phase \in {"connect", "write"} => call.phase \in {"connect", "write"},
         UNCHANGED <<fds, result, codecVars>>
  PROVE  ChannelInv' /\ UNCHANGED Link!vars
<1>. USE DEF ChannelInv, codecVars
<1>1. answer' = answer
  BY DEF answer
<1>2. CallOK' /\ NoSocketLeft' /\ MessagesOK'
  BY DEF CallOK, NoSocketLeft, MessagesOK, Replied
<1>3. RequestsOK'
  BY <1>1 DEF RequestsOK, NotSentYet, InInbox, Replied
<1>. QED
  BY <1>1, <1>2, <1>3 DEF Link!vars

LEMMA ConnectFailsStep ==
  ASSUME ChannelInv, ConnectFails
  PROVE  ChannelInv' /\ (Link!Next \/ UNCHANGED Link!vars)
<1>. USE DEF ConnectFails
<1>1. call.phase # "idle" /\ call.req \in Request /\ NotSentYet(call.req)
  BY DEF ChannelInv, CallOK, RequestsOK
<1>2. CASE call.tries + 1 = MaxTries
  BY <1>1, <1>2, ReturnKeeps DEF Meaning, Result, NotSentYet, codecVars
<1>3. CASE call.tries + 1 # MaxTries
  <2>1. call' = [call EXCEPT !.tries = @ + 1] /\ UNCHANGED <<fds, result, codecVars>>
    BY <1>3
  <2>2. call.tries \in 0..(MaxTries - 1) /\ call.tries + 1 \in 0..(MaxTries - 1)
    BY <1>3, ChannelAssumption DEF ChannelInv, ChannelTypeOK
  <2>3. ChannelTypeOK' /\ call'.phase = call.phase /\ call'.req = call.req /\ call'.sock = call.sock
    BY <2>1, <2>2 DEF ChannelInv, ChannelTypeOK, codecVars
  <2>. QED
    BY <1>1, <2>1, <2>3, MovesOn
<1>. QED
  BY <1>2, <1>3

LEMMA ConnectStep ==
  ASSUME ChannelInv, Connect
  PROVE  ChannelInv' /\ UNCHANGED Link!vars
<1>1. /\ call.phase = "connect"
      /\ call' = [call EXCEPT !.phase = "write"] /\ UNCHANGED <<fds, result, codecVars>>
  BY DEF Connect
<1>2. ChannelTypeOK' /\ call'.phase = "write" /\ call'.req = call.req /\ call'.sock = call.sock
  BY <1>1 DEF ChannelInv, ChannelTypeOK, codecVars, Phase
<1>. QED
  BY <1>1, <1>2, MovesOn

LEMMA SendStep ==
  ASSUME ChannelInv, Send
  PROVE  ChannelInv' /\ UNCHANGED Link!vars
<1>. USE DEF ChannelInv
<1>1. /\ call.phase = "write" /\ call.sock = call.req /\ call.req \in Request
      /\ call' = [call EXCEPT !.phase = "read"]
      /\ UNCHANGED <<fds, result, listening, replies, hungUp, performed>>
  BY DEF Send, CallOK
<1>2. /\ call'.phase = "read" /\ call'.req = call.req /\ call'.sock = call.sock
  BY <1>1 DEF ChannelTypeOK
<1>3. /\ inbox \subseteq inbox'
      /\ inbox' \subseteq inbox \cup {[sock |-> call.req, req |-> call.req]}
  BY <1>1 DEF Send
<1>4. ChannelTypeOK'
  BY <1>1, <1>3 DEF ChannelTypeOK, Phase, Message
<1>5. answer' = answer
  BY <1>1, <1>2 DEF answer
<1>6. NotSentYet(call.req) /\ answer[call.req] = "asked"
  BY <1>1, AnswerOf DEF RequestsOK
<1>7. CallOK' /\ NoSocketLeft'
  BY <1>1, <1>2 DEF CallOK, NoSocketLeft
<1>8. MessagesOK'
  BY <1>1, <1>3, <1>6 DEF MessagesOK, NotSentYet, Replied
<1>9. RequestsOK'
  <2>. SUFFICES ASSUME NEW r \in Request
                PROVE  /\ performed'[r] \in {0, 1}
                       /\ answer'[r] = "none" => NotSentYet(r)'
                       /\ answer'[r] = "refused" => performed'[r] = 0 /\ ~InInbox(r)'
                       /\ answer'[r] = "success" => ~InInbox(r)'
    BY <1>2 DEF RequestsOK
  <2>1. CASE r = call.req
    BY <1>1, <1>5, <1>6, <2>1 DEF RequestsOK
  <2>2. CASE r # call.req
    <3>1. InInbox(r)' => InInbox(r)
      BY <1>3, <2>2 DEF InInbox
    <3>2. NotSentYet(r) => NotSentYet(r)'
      BY <1>1, <3>1 DEF NotSentYet, Replied
    <3>. QED
      BY <1>1, <1>5, <3>1, <3>2 DEF RequestsOK
  <2>. QED
    BY <2>1, <2>2
<1>. QED
  BY <1>1, <1>4, <1>5, <1>7, <1>8, <1>9 DEF Link!vars

(* A request of onlySendMsg may still be performed when its sender has gone*)
(* on.                                                                     *)
LEMMA SendOnlyStep ==
  ASSUME ChannelInv, SendOnly
  PROVE  ChannelInv' /\ Link!Next
<1>. USE DEF ChannelInv
<1>1. /\ call.phase = "write" /\ call.sock = call.req /\ call.req \in Request
      /\ Return("sent") /\ UNCHANGED <<listening, replies, hungUp, performed>>
  BY DEF SendOnly, CallOK
<1>2. NotSentYet(call.req) /\ answer[call.req] = "asked"
  BY <1>1, AnswerOf DEF RequestsOK
<1>3. "sent" \in Result \ {"none"} /\ Meaning("sent") = "unknown"
  BY DEF Result, Meaning
<1>4. CASE UNCHANGED inbox
  BY <1>1, <1>3, <1>4, ReturnKeeps
<1>5. CASE inbox' = inbox \cup {[sock |-> call.sock, req |-> call.req]}
  <2>1. /\ call'.req = NoSocket /\ call'.sock = NoSocket /\ call'.phase = "idle"
        /\ result'[call.req] = "sent"
        /\ \A r \in Request \ {call.req} : result'[r] = result[r]
        /\ fds' = {}
    BY <1>1, <1>3, ReturnStep
  <2>2. answer' = [answer EXCEPT ![call.req] = "unknown"]
    BY <1>1, <1>3, ReturnAnswers
  <2>3. ChannelTypeOK'
    BY <1>1, <1>3, <1>5, ReturnStep DEF ChannelTypeOK, Message
  <2>4. CallOK' /\ NoSocketLeft'
    BY <2>1 DEF CallOK, NoSocketLeft
  <2>5. MessagesOK'
    BY <1>1, <1>2, <1>5 DEF MessagesOK, NotSentYet, Replied
  <2>6. RequestsOK'
    <3>. SUFFICES ASSUME NEW r \in Request
                  PROVE  /\ performed'[r] \in {0, 1}
                         /\ call'.req # r
                         /\ answer'[r] = "none" => NotSentYet(r)'
                         /\ answer'[r] = "refused" => performed'[r] = 0 /\ ~InInbox(r)'
                         /\ answer'[r] = "success" => ~InInbox(r)'
      BY DEF RequestsOK
    <3>1. CASE r = call.req
      <4>1. answer'[r] = "unknown"
        BY <1>1, <2>2, <3>1 DEF answer
      <4>. QED
        BY <1>1, <2>1, <3>1, <4>1, ChannelAssumption DEF RequestsOK
    <3>2. CASE r # call.req
      <4>1. answer'[r] = answer[r]
        BY <2>2, <3>2 DEF answer
      <4>2. InInbox(r)' => InInbox(r)
        BY <1>5, <3>2 DEF InInbox
      <4>3. NotSentYet(r) => NotSentYet(r)'
        BY <1>1, <4>2 DEF NotSentYet, Replied
      <4>. QED
        BY <1>1, <2>1, <4>1, <4>2, <4>3, ChannelAssumption DEF RequestsOK
    <3>. QED
      BY <3>1, <3>2
  <2>7. Link!Answer(call.req)
    <3>1. UNCHANGED performed
      BY <1>1
    <3>. QED
      BY <1>2, <2>2, <3>1 DEF Link!Answer
  <2>. QED
    BY <1>1, <2>3, <2>4, <2>5, <2>6, <2>7 DEF Link!Next
<1>. QED
  BY <1>4, <1>5 DEF SendOnly

LEMMA SendFailsStep ==
  ASSUME ChannelInv, SendFails
  PROVE  ChannelInv' /\ Link!Next
<1>1. call.phase # "idle" /\ call.req \in Request /\ NotSentYet(call.req)
  BY DEF SendFails, ChannelInv, CallOK, RequestsOK
<1>. QED
  BY <1>1, ReturnKeeps DEF SendFails, Meaning, Result, NotSentYet, codecVars

LEMMA ReceiveStep ==
  ASSUME ChannelInv, NEW m \in replies, Receive(m)
  PROVE  ChannelInv' /\ Link!Next
<1>1. /\ call.phase # "idle" /\ call.req \in Request /\ m.req = call.req
      /\ UNCHANGED <<listening, inbox, hungUp, performed>> /\ replies' \subseteq replies
  BY DEF Receive, ChannelInv, CallOK, MessagesOK
<1>2. /\ performed[call.req] = IF m.ok THEN 1 ELSE 0
      /\ ~InInbox(call.req)
  BY <1>1 DEF ChannelInv, MessagesOK, InInbox, Replied
<1>3. CASE Return(IF m.ok THEN "success" ELSE "ack error")
  <2>1. CASE m.ok
    BY <1>1, <1>2, <1>3, <2>1, ReturnKeeps DEF Meaning, Result
  <2>2. CASE ~m.ok
    BY <1>1, <1>2, <1>3, <2>2, ReturnKeeps DEF Meaning, Result
  <2>. QED
    BY <2>1, <2>2
<1>4. CASE Return("garbled")
  BY <1>1, <1>4, ReturnKeeps DEF Meaning, Result
<1>. QED
  BY <1>3, <1>4 DEF Receive

LEMMA NoReplyStep ==
  ASSUME ChannelInv, Closed \/ NoReply
  PROVE  ChannelInv' /\ Link!Next
<1>1. call.phase # "idle" /\ UNCHANGED codecVars
  BY DEF Closed, NoReply
<1>2. CASE Return("closed")
  BY <1>1, <1>2, ReturnKeeps DEF Meaning, Result, codecVars
<1>3. CASE Return("DP_ERR_COMMUNICATE_ABNORMAL_TIMEOUT")
  BY <1>1, <1>3, ReturnKeeps DEF Meaning, Result, codecVars
<1>4. CASE Return("DP_ERR_COMMUNICATE_SELECT")
  BY <1>1, <1>4, ReturnKeeps DEF Meaning, Result, codecVars
<1>. QED
  BY <1>2, <1>3, <1>4 DEF Closed, NoReply

-----------------------------------------------------------------------------
(* The codec may lose what it has not read; nothing else comes of that.    *)
LEMMA CodecForgets ==
  ASSUME ChannelInv, UNCHANGED <<call, fds, result, replies, performed>>,
         inbox' \subseteq inbox, listening' \in BOOLEAN, hungUp' \in SUBSET Request
  PROVE  ChannelInv' /\ UNCHANGED Link!vars
<1>. USE DEF ChannelInv
<1>1. answer' = answer
  BY DEF answer
<1>2. ChannelTypeOK' /\ CallOK' /\ NoSocketLeft' /\ MessagesOK'
  BY DEF ChannelTypeOK, CallOK, NoSocketLeft, MessagesOK, Replied
<1>3. RequestsOK'
  BY <1>1 DEF RequestsOK, NotSentYet, InInbox, Replied
<1>. QED
  BY <1>1, <1>2, <1>3 DEF Link!vars

LEMMA CodecHandlesStep ==
  ASSUME ChannelInv, NEW m \in inbox, CodecHandles(m)
  PROVE  ChannelInv' /\ (Link!Next \/ UNCHANGED Link!vars)
<1>. USE DEF ChannelInv
<1>1. /\ m \in Message /\ m.req \in Request /\ m.sock = m.req
      /\ ~Replied(m.req) /\ performed[m.req] = 0 /\ InInbox(m.req)
  BY DEF ChannelTypeOK, Message, MessagesOK, InInbox
<1>2. inbox' = inbox \ {m} /\ UNCHANGED <<call, fds, result, listening, hungUp>>
  BY DEF CodecHandles
<1>3. PICK ok \in BOOLEAN :
        /\ performed' =
             IF ok THEN [performed EXCEPT ![m.req] = IF @ < 2 THEN @ + 1 ELSE @]
             ELSE performed
        /\ replies \subseteq replies'
        /\ replies' \subseteq replies \cup {[sock |-> m.sock, req |-> m.req, ok |-> ok]}
  BY DEF CodecHandles
<1>4. performed' = IF ok THEN [performed EXCEPT ![m.req] = 1] ELSE performed
  BY <1>1, <1>3
<1>5. /\ performed' \in [Request -> 0..2]
      /\ performed'[m.req] = IF ok THEN 1 ELSE 0
      /\ \A r \in Request \ {m.req} : performed'[r] = performed[r]
  BY <1>1, <1>4 DEF ChannelTypeOK
<1>6. answer' = answer
  BY <1>2 DEF answer
<1>7. answer[m.req] \in {"asked", "unknown"}
  <2>1. answer[m.req] \notin {"none", "refused", "success"}
    BY <1>1 DEF RequestsOK, NotSentYet
  <2>. QED
    BY <1>1, <2>1, AnswerOf DEF ChannelTypeOK, Result
<1>8. ChannelTypeOK'
  <2>1. replies' \in SUBSET [sock : Request, req : Request, ok : BOOLEAN]
    BY <1>1, <1>3 DEF ChannelTypeOK
  <2>. QED
    BY <1>2, <1>5, <2>1 DEF ChannelTypeOK
<1>9. CallOK' /\ NoSocketLeft'
  BY <1>2 DEF CallOK, NoSocketLeft
<1>10. \A x \in inbox' : x \in inbox /\ x.req # m.req
  <2>. SUFFICES ASSUME NEW x \in inbox, x # m
                PROVE  x.req # m.req
    BY <1>2
  <2>1. x \in Message /\ x.sock = x.req
    BY DEF ChannelTypeOK, MessagesOK
  <2>. QED
    BY <1>1, <2>1 DEF Message
<1>11. \A r \in Request \ {m.req} : Replied(r)' => Replied(r)
  BY <1>3 DEF Replied
<1>12. MessagesOK'
  <2>1. ASSUME NEW x \in inbox'
        PROVE  x.sock = x.req /\ ~Replied(x.req)' /\ performed'[x.req] = 0
    BY <1>5, <1>10, <1>11 DEF MessagesOK, ChannelTypeOK, Message
  <2>2. ASSUME NEW x \in replies'
        PROVE  x.sock = x.req /\ performed'[x.req] = IF x.ok THEN 1 ELSE 0
    <3>1. CASE x \in replies
      BY <1>1, <1>5, <3>1 DEF MessagesOK, ChannelTypeOK, Replied
    <3>2. CASE x = [sock |-> m.sock, req |-> m.req, ok |-> ok]
      BY <1>1, <1>5, <3>2
    <3>. QED
      BY <1>3, <3>1, <3>2
  <2>. QED
    BY <2>1, <2>2 DEF MessagesOK
<1>13. RequestsOK'
  <2>. SUFFICES ASSUME NEW r \in Request
                PROVE  /\ performed'[r] \in {0, 1}
                       /\ call'.req = r /\ call'.phase \in {"connect", "write"} => NotSentYet(r)'
                       /\ answer'[r] = "none" => NotSentYet(r)'
                       /\ answer'[r] = "refused" => performed'[r] = 0 /\ ~InInbox(r)'
                       /\ answer'[r] = "success" => ~InInbox(r)'
    BY DEF RequestsOK
  <2>1. InInbox(r)' => InInbox(r)
    BY <1>2 DEF InInbox
  <2>2. CASE r = m.req
    <3>1. ~(call'.req = r /\ call'.phase \in {"connect", "write"})
      BY <1>1, <1>2, <2>2 DEF RequestsOK, NotSentYet
    <3>. QED
      BY <1>5, <1>6, <1>7, <2>2, <3>1
  <2>3. CASE r # m.req
    <3>1. performed'[r] = performed[r] /\ (NotSentYet(r) => NotSentYet(r)')
      BY <1>5, <1>11, <2>1, <2>3 DEF NotSentYet
    <3>. QED
      BY <1>2, <1>6, <2>1, <3>1 DEF RequestsOK
  <2>. QED
    BY <2>2, <2>3
<1>14. CASE ok
  <2>1. Link!Perform(m.req)
    BY <1>1, <1>4, <1>6, <1>7, <1>14 DEF Link!Perform
  <2>. QED
    BY <1>1, <1>8, <1>9, <1>12, <1>13, <2>1 DEF Link!Next
<1>15. CASE ~ok
  BY <1>4, <1>6, <1>8, <1>9, <1>12, <1>13, <1>15 DEF Link!vars
<1>. QED
  BY <1>14, <1>15

LEMMA CodecStep ==
  ASSUME ChannelInv, CodecNext
  PROVE  ChannelInv' /\ (Link!Next \/ UNCHANGED Link!vars)
<1>1. ASSUME NEW m \in inbox, CodecHangsUp(m)
      PROVE  ChannelInv' /\ UNCHANGED Link!vars
  <2>1. m.sock \in Request
    BY DEF ChannelInv, ChannelTypeOK, Message
  <2>. QED
    BY <1>1, <2>1, CodecForgets DEF CodecHangsUp, ChannelInv, ChannelTypeOK
<1>2. ASSUME CodecStops
      PROVE  ChannelInv' /\ UNCHANGED Link!vars
  BY <1>2, CodecForgets DEF CodecStops, ChannelInv, ChannelTypeOK
<1>3. ASSUME CodecStarts
      PROVE  ChannelInv' /\ UNCHANGED Link!vars
  BY <1>3, CodecForgets DEF CodecStarts, ChannelInv, ChannelTypeOK
<1>. QED
  BY <1>1, <1>2, <1>3, CodecHandlesStep DEF CodecNext

LEMMA ChannelStep ==
  ASSUME ChannelInv, [ChannelNext]_channelVars
  PROVE  ChannelInv' /\ [Link!Next]_Link!vars
<1>1. CASE \E r \in Request : Open(r)
  BY <1>1, OpenStep
<1>2. CASE ExchangeStep
  BY <1>2, ConnectFailsStep, ConnectStep, SendStep, SendOnlyStep,
     SendFailsStep, ReceiveStep, NoReplyStep
     DEF ExchangeStep
<1>3. CASE CodecNext
  BY <1>3, CodecStep
<1>4. CASE UNCHANGED channelVars
  BY <1>4, CodecForgets DEF channelVars, ChannelInv, ChannelTypeOK
<1>. QED
  BY <1>1, <1>2, <1>3, <1>4 DEF ChannelNext

(* Types, and where a request and its reply can be, hold in every state of *)
(* the channel.                                                            *)
THEOREM ChannelCorrect == ChannelSpec => []ChannelInv
<1>1. ChannelInv /\ [ChannelNext]_channelVars => ChannelInv'
  BY ChannelStep
<1>. QED
  BY InitChannel, <1>1, PTL DEF ChannelSpec

(* doSendCommand is an at-most-once request for every number of requests   *)
(* and tries, whatever the codec refuses, delays, drops or forgets.        *)
THEOREM ChannelImplementsLink == ChannelSpec => ImplementsLink
<1>1. ChannelInit => Link!Init
  BY InitChannel
<1>2. ChannelInv /\ [ChannelNext]_channelVars => [Link!Next]_Link!vars
  BY ChannelStep
<1>. QED
  BY <1>1, <1>2, ChannelCorrect, PTL DEF ChannelSpec, ImplementsLink, Link!Spec

(* However an exchange ends, the node keeps no socket of it.               *)
THEOREM ChannelLeavesNoSocket == ChannelSpec => []NoSocketLeft
<1>1. ChannelInv => NoSocketLeft
  BY DEF ChannelInv
<1>. QED
  BY <1>1, ChannelCorrect, PTL

(* A late reply is never read as the reply of another request.             *)
THEOREM ChannelMatchesReplies == ChannelSpec => []RepliesMatch
<1>1. ChannelInv => RepliesMatch
  <2>. SUFFICES ASSUME ChannelInv, NEW m \in replies, m.sock = call.sock
                PROVE  m.req = call.req
    BY DEF RepliesMatch
  <2>1. m.sock \in Request /\ m.sock = m.req
    BY DEF ChannelInv, ChannelTypeOK, MessagesOK
  <2>2. call.phase # "idle"
    BY <2>1, ChannelAssumption DEF ChannelInv, CallOK
  <2>. QED
    BY <2>1, <2>2 DEF ChannelInv, CallOK
<1>. QED
  BY <1>1, ChannelCorrect, PTL

-----------------------------------------------------------------------------
(* The composition.                                                        *)
LEMMA PathStep ==
  [Next]_vars => [PoolNext]_poolVars /\ [ChannelNext]_channelVars
<1>. SUFFICES ASSUME [Next]_vars
              PROVE  [PoolNext]_poolVars /\ [ChannelNext]_channelVars
  OBVIOUS
<1>1. CASE \E c \in Caller : InPool(CallerStep(c)) \/ \E t \in Task : InPool(Call(c, t))
  BY <1>1 DEF InPool, PoolNext
<1>2. ASSUME NEW w \in Worker, ThreadStep(w)
      PROVE  [PoolNext]_poolVars /\ [ChannelNext]_channelVars
  <2>1. CASE InPool(WorkerStep(w))
    BY <2>1 DEF InPool, PoolNext
  <2>2. CASE sendToCodecAndRecv(w)
    BY <2>2 DEF sendToCodecAndRecv, ChannelNext
  <2>3. CASE InChannel(ExchangeStep)
    BY <2>3 DEF InChannel, ChannelNext
  <2>4. CASE HandlerEnds(w)
    BY <2>4 DEF HandlerEnds, PoolNext
  <2>5. CASE sendToCodecOnly(w)
    BY <2>5, ChannelAssumption DEF sendToCodecOnly, ChannelNext
  <2>. QED
    BY <1>2, <2>1, <2>2, <2>3, <2>4, <2>5 DEF ThreadStep
<1>3. CASE InChannel(CodecNext)
  BY <1>3 DEF InChannel, ChannelNext
<1>4. CASE InPool(Stop) \/ InPool(Join) \/ InPool(SpuriousWakeup)
  BY <1>4 DEF InPool, PoolNext
<1>5. CASE UNCHANGED vars
  BY <1>5 DEF vars
<1>. QED
  BY <1>1, <1>2, <1>3, <1>4, <1>5 DEF Next

(* The command path is a behaviour of the pool and of the channel.         *)
THEOREM PathIsPoolAndChannel == Spec => PoolSpec /\ ChannelSpec
<1>1. Init => PoolInit /\ ChannelInit
  BY DEF Init
<1>. QED
  BY <1>1, PathStep, PTL DEF Spec, PoolSpec, ChannelSpec

(* Commands are started in the order of their packets, the queue keeps its *)
(* bound, and no thread sleeps while there is work or room for it.         *)
THEOREM PathPool ==
  Spec => [](QueueBounded /\ StartedInOrder /\ NoTaskLeftLying /\ NoCallerLeftBlocked)
<1>. QED
  BY PathIsPoolAndChannel, PoolBounded, PoolInOrder, PoolLosesNoWakeup, PTL

(* What the handlers rely on when they send to the codec holds of the whole*)
(* command path: each request is performed at most once and reported       *)
(* truthfully.                                                             *)
THEOREM PathImplementsLink == Spec => ImplementsLink
<1>. QED
  BY PathIsPoolAndChannel, ChannelImplementsLink, PTL
=============================================================================
