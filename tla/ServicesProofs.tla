---------------------------- MODULE ServicesProofs ----------------------------
(***************************************************************************)
(* The WebSocket client and the trade recorder.                            *)
(*                                                                         *)
(* Client: which step of the I/O thread has which connection, and where    *)
(* the message of a channel is on its way to the exchange: with its        *)
(* caller, in the queue, taken from it, or in the list of on_open.         *)
(* Recorder: every order that is through has a row, rows name their order  *)
(* and add up to what the drawdown guard was told.                         *)
(***************************************************************************)
EXTENDS GateWsClient, Engine, Facts, SequenceTheorems

-----------------------------------------------------------------------------
(* The connection                                                          *)

\* A message of a call: only channels that may be removed are unsubscribed from, and only
\* public ones are subscribed to without authentication.
CallMessages == {m \in Messages : /\ m.type = "Unsubscribe" => m.channel \in Removable
                                  /\ m.type = "Subscribe" => m.channel \notin Private}

CallsOK ==
  /\ pending_actions \in Seq(CallMessages)
  /\ caller \in [Callers -> {"idle", "push", "check", "swap", "capture", "requeue", "send"}]
  /\ message \in [Callers -> Messages \cup {NoMessage}]
  /\ \A c \in Callers : caller[c] = "push" => message[c] \in CallMessages
  /\ actions \in [Callers \cup {IO} -> Seq(CallMessages)]
  /\ \A c \in Callers : caller[c] \in {"capture", "send"} => actions[c] # << >>
  /\ cli \in [Callers -> Nat]

\* From on_open's first step on to the end of the connection, and the part of it after the
\* registry was read.
Live == {"list", "resubscribe", "drain", "drainSend", "serving"}
Up == Live \ {"list"}

\* Client and pointers while an attempt is made.
AttemptOK ==
  /\ attempts \in Nat /\ client \in Nat /\ client_ptr \in Nat /\ active_hdl \in 0 .. attempts
  /\ io \in Steps
  /\ io \in {"connect", "run", "opened", "closed", "returned", "leave"} \cup Live
       => client = attempts /\ client # 0
  /\ io \in {"none", "test", "make", "thrown", "backoff", "exit", "done"} => client = 0
  /\ io \in {"run", "opened", "closed", "returned"} \cup Live => client_ptr = client
  /\ io \in {"opened"} \cup Live => active_hdl = client
  /\ io \in {"connect", "run"} => active_hdl < attempts
  /\ io = "closed" => active_hdl = 0
  /\ attempts = 0 => io \in {"none", "test", "make", "exit", "done"}
  /\ io = "none" => attempts = 0

\* A context was stopped by stop alone.  The state reads Connected on a live connection, after
\* its loss until that is stored, and on the way out of a stopped thread, whose connection
\* stays until the client object goes.
StateOK ==
  /\ stopping # "idle" => stop_requested
  /\ context_stopped => stop_requested
  /\ io \in Live => m_state = "Connected"
  /\ m_state = "Connected" => \/ io \in Live \cup {"closed", "thrown"}
                              \/ stop_requested /\ io \in {"returned", "leave", "exit"}
  /\ io \in {"returned", "leave"} => (m_state = "Connected" <=> active_hdl = client)

ConnectionInv == CallsOK /\ AttemptOK /\ StateOK

LEMMA WsStarts == WsInit => ConnectionInv
<1> SUFFICES ASSUME WsInit PROVE ConnectionInv
  OBVIOUS
<1> USE DEF WsInit
<1>1. << >> \in Seq(CallMessages)
  BY EmptySeq
<1>2. CallsOK
  BY <1>1 DEF CallsOK
<1>3. AttemptOK /\ StateOK
  BY DEF AttemptOK, StateOK, Live, Steps
<1> QED
  BY <1>2, <1>3 DEF ConnectionInv

-----------------------------------------------------------------------------

\* A caller's step moves nothing of the connection.
OnlyCalls == UNCHANGED <<m_state, active_hdl, client_ptr, io_ctx_ptr, client, io, resubscribing, attempts,
                         context_stopped, stop_requested, stopping>>

LEMMA BeginType ==
  ASSUME ConnectionInv, NEW c \in Callers, NEW type, NEW ch, NEW registry, begin(c, type, ch, registry),
         [type |-> type, channel |-> ch] \in CallMessages
  PROVE  CallsOK' /\ OnlyCalls
<1> USE DEF begin, pointers, ioVars, stopVars
<1>1. OnlyCalls
  BY DEF OnlyCalls
<1>2. caller' = [caller EXCEPT ![c] = "push"] /\ message' = [message EXCEPT ![c] = [type |-> type, channel |-> ch]]
  OBVIOUS
<1>3. [type |-> type, channel |-> ch] \in Messages
  BY DEF CallMessages
<1>4. CallsOK'
  BY <1>2, <1>3 DEF ConnectionInv, CallsOK
<1> QED
  BY <1>1, <1>4

LEMMA BeginsAre ==
  ASSUME NEW c \in Callers, subscribe(c) \/ subscribePrivate(c) \/ unsubscribe(c)
  PROVE  \E type, ch, registry :
           /\ begin(c, type, ch, registry) /\ [type |-> type, channel |-> ch] \in CallMessages
           /\ registry \ Removable \subseteq channels \cup {ch}
<1>0. Channels[c] \subseteq AllChannels
  BY DEF AllChannels
<1>1. CASE subscribe(c)
  <2>1. PICK ch \in Channels[c] \ Private : begin(c, "Subscribe", ch, channels \cup {ch})
    BY <1>1 DEF subscribe
  <2>2. [type |-> "Subscribe", channel |-> ch] \in CallMessages
    BY <1>0, <2>1 DEF CallMessages, Messages, Types
  <2> QED
    BY <2>1, <2>2
<1>2. CASE subscribePrivate(c)
  <2>1. PICK ch \in Channels[c] \cap Private : begin(c, "SubscribePrivate", ch, channels \cup {ch})
    BY <1>2 DEF subscribePrivate
  <2>2. [type |-> "SubscribePrivate", channel |-> ch] \in CallMessages
    BY <1>0, <2>1 DEF CallMessages, Messages, Types
  <2> QED
    BY <2>1, <2>2
<1>3. CASE unsubscribe(c)
  <2>1. PICK ch \in Channels[c] \cap Removable : begin(c, "Unsubscribe", ch, channels \ {ch})
    BY <1>3 DEF unsubscribe
  <2>2. [type |-> "Unsubscribe", channel |-> ch] \in CallMessages
    BY <1>0, <2>1 DEF CallMessages, Messages, Types
  <2> QED
    BY <2>1, <2>2
<1> QED
  BY <1>1, <1>2, <1>3

LEMMA CallType ==
  ASSUME ConnectionInv, NEW c \in Callers, continueCall(c)
  PROVE  CallsOK' /\ OnlyCalls /\ channels' = channels
<1> USE DEF goesOn, pointers, ioVars, stopVars
<1>1. OnlyCalls /\ channels' = channels
  BY DEF continueCall, push, check, swap, capture, requeue, send, OnlyCalls
<1>2. c # IO /\ c \in Callers \cup {IO}
  BY ClientAssumption
<1>3. CASE push(c)
  <2>1. message[c] \in CallMessages
    BY <1>3 DEF push, ConnectionInv, CallsOK
  <2>2. Append(pending_actions, message[c]) \in Seq(CallMessages)
    BY <2>1, AppendProperties DEF ConnectionInv, CallsOK
  <2> QED
    BY <1>1, <1>3, <2>2 DEF push, ConnectionInv, CallsOK
<1>4. CASE check(c)
  BY <1>1, <1>4 DEF check, ConnectionInv, CallsOK
<1>5. CASE swap(c)
  BY <1>1, <1>2, <1>5, EmptySeq DEF swap, ConnectionInv, CallsOK
<1>6. CASE capture(c)
  BY <1>1, <1>6 DEF capture, ConnectionInv, CallsOK, AttemptOK
<1>7. CASE requeue(c)
  <2>1. pending_actions \o actions[c] \in Seq(CallMessages)
    BY <1>2, ConcatProperties DEF ConnectionInv, CallsOK
  <2> QED
    BY <1>1, <1>2, <1>7, <2>1, EmptySeq DEF requeue, ConnectionInv, CallsOK
<1>8. CASE send(c)
  <2> DEFINE rest == IF Open /\ cli[c] = client THEN Tail(actions[c]) ELSE << >>
  <2>1. rest \in Seq(CallMessages)
    BY <1>2, <1>8, EmptySeq, HeadTailProperties DEF send, ConnectionInv, CallsOK
  <2>2. /\ caller' = [caller EXCEPT ![c] = IF rest = << >> THEN "idle" ELSE "send"]
        /\ actions' = [actions EXCEPT ![c] = rest]
        /\ cli' = [cli EXCEPT ![c] = IF rest = << >> THEN 0 ELSE @]
        /\ UNCHANGED <<pending_actions, message>> /\ caller[c] = "send"
    BY <1>8 DEF send
  <2> HIDE DEF rest
  <2> QED
    BY <1>1, <1>2, <2>1, <2>2 DEF ConnectionInv, CallsOK
<1> QED
  BY <1>1, <1>3, <1>4, <1>5, <1>6, <1>7, <1>8 DEF continueCall

\* What the steps of the I/O thread do to the calls: the queue and what it took from it.
LEMMA IoType ==
  ASSUME ConnectionInv, runIoLoop \/ start
  PROVE  /\ CallsOK' /\ UNCHANGED <<channels, caller, message, cli, stopping, context_stopped, stop_requested>>
         /\ \A c \in Callers : actions'[c] = actions[c]
<1> USE DEF ioGoes, pointers, ioVars, stopVars, callVars, registryVars
<1>1. UNCHANGED <<channels, caller, message, cli, stopping, context_stopped, stop_requested>>
  BY DEF runIoLoop, ioGoesOn, start, test, make, connect, onOpen, setConnected, activeChannels, resubscribe,
         drainQueue, drainSend, setDisconnected, runIsStopped, clearPointers, leave, backoff, ioExits,
         getConnectionFails, onCloseOrFail, handlerThrows
<1>2. IO \in Callers \cup {IO} /\ \A c \in Callers : c # IO
  BY ClientAssumption
<1>3. CASE drainQueue
  BY <1>1, <1>2, <1>3, EmptySeq DEF drainQueue, ConnectionInv, CallsOK
<1>4. CASE drainSend
  <2>1. CASE actions[IO] = << >>
    BY <1>1, <1>4, <2>1 DEF drainSend, ConnectionInv, CallsOK
  <2>2. CASE actions[IO] # << >>
    <3>1. Tail(actions[IO]) \in Seq(CallMessages)
      BY <1>2, <2>2, HeadTailProperties DEF ConnectionInv, CallsOK
    <3>2. actions' = [actions EXCEPT ![IO] = Tail(actions[IO])] /\ pending_actions' = pending_actions
      BY <1>4, <2>2 DEF drainSend
    <3> QED
      BY <1>1, <1>2, <3>1, <3>2 DEF ConnectionInv, CallsOK
  <2> QED
    BY <2>1, <2>2
<1>5. CASE ~ (drainQueue \/ drainSend)
  <2>1. UNCHANGED <<pending_actions, actions>>
    BY <1>5 DEF runIoLoop, ioGoesOn, start, test, make, connect, onOpen, setConnected, activeChannels, resubscribe,
         setDisconnected, runIsStopped, clearPointers, leave, backoff, ioExits, getConnectionFails, onCloseOrFail,
         handlerThrows
  <2> QED
    BY <1>1, <2>1 DEF ConnectionInv, CallsOK
<1> QED
  BY <1>1, <1>3, <1>4, <1>5

LEMMA IoMoves ==
  ASSUME ConnectionInv, runIoLoop \/ start
  PROVE  AttemptOK' /\ StateOK'
<1> USE DEF ioGoes, pointers, ioVars, stopVars, ConnectionInv, AttemptOK, StateOK, Live, Steps
<1>1. CASE start
  BY <1>1 DEF start
<1>2. CASE test
  BY <1>2 DEF test
<1>3. CASE make
  BY <1>3 DEF make
<1>4. CASE connect
  BY <1>4 DEF connect
<1>5. CASE onOpen
  BY <1>5 DEF onOpen
<1>6. CASE setConnected
  BY <1>6 DEF setConnected
<1>7. CASE activeChannels
  BY <1>7 DEF activeChannels
<1>8. CASE resubscribe
  <2>1. io = "resubscribe" /\ io' \in {"resubscribe", "drain"}
    BY <1>8 DEF resubscribe
  <2>2. UNCHANGED <<m_state, active_hdl, client_ptr, client, attempts, context_stopped, stop_requested, stopping>>
    BY <1>8 DEF resubscribe
  <2> QED
    BY <2>1, <2>2
<1>9. CASE drainQueue
  BY <1>9 DEF drainQueue
<1>10. CASE drainSend
  <2>1. io = "drainSend" /\ io' \in {"drainSend", "serving"}
    BY <1>10 DEF drainSend
  <2>2. UNCHANGED <<m_state, active_hdl, client_ptr, client, attempts, context_stopped, stop_requested, stopping>>
    BY <1>10 DEF drainSend
  <2> QED
    BY <2>1, <2>2
<1>11. CASE runIsStopped
  <2>1. io \in {"serving", "run"} /\ io' = "returned" /\ context_stopped
    BY <1>11 DEF runIsStopped
  <2>2. UNCHANGED <<m_state, active_hdl, client_ptr, client, attempts, context_stopped, stop_requested, stopping>>
    BY <1>11 DEF runIsStopped
  <2> QED
    BY <2>1, <2>2
<1>12. CASE clearPointers
  BY <1>12 DEF clearPointers
<1>13. CASE leave
  BY <1>13 DEF leave
<1>14. CASE backoff
  BY <1>14 DEF backoff
<1>15. CASE ioExits
  BY <1>15 DEF ioExits
<1>16. CASE getConnectionFails
  BY <1>16 DEF getConnectionFails
<1>17. CASE onCloseOrFail
  BY <1>17 DEF onCloseOrFail
<1>18. CASE handlerThrows
  BY <1>18 DEF handlerThrows
<1>19. CASE setDisconnected
  BY <1>19 DEF setDisconnected
<1> QED
  BY <1>1, <1>2, <1>3, <1>4, <1>5, <1>6, <1>7, <1>8, <1>9, <1>10, <1>11, <1>12, <1>13, <1>14, <1>15, <1>16,
     <1>17, <1>18, <1>19 DEF runIoLoop, ioGoesOn

LEMMA ConnectionStep == ConnectionInv /\ [WsNext]_wsVars => ConnectionInv'
<1> SUFFICES ASSUME ConnectionInv, [WsNext]_wsVars PROVE ConnectionInv'
  OBVIOUS
<1>1. ASSUME OnlyCalls PROVE AttemptOK' /\ StateOK'
  BY <1>1 DEF OnlyCalls, ConnectionInv, AttemptOK, StateOK
<1>2. ASSUME NEW c \in Callers, continueCall(c)
      PROVE  ConnectionInv'
  BY <1>1, <1>2, CallType DEF ConnectionInv
<1>3. ASSUME NEW c \in Callers, subscribe(c) \/ subscribePrivate(c) \/ unsubscribe(c)
      PROVE  ConnectionInv'
  BY <1>1, <1>3, BeginsAre, BeginType DEF ConnectionInv
<1>4. CASE runIoLoop \/ start
  BY <1>4, IoType, IoMoves DEF ConnectionInv
<1>5. CASE stop
  <2> USE DEF stopGoes, pointers, ioVars, callVars, registryVars
  <2>1. CallsOK' /\ AttemptOK'
    BY <1>5 DEF stop, requestStop, stopContext, join, ConnectionInv, CallsOK, AttemptOK
  <2>2. StateOK'
    BY <1>5 DEF stop, requestStop, stopContext, join, ConnectionInv, StateOK, Live
  <2> QED
    BY <2>1, <2>2 DEF ConnectionInv
<1>6. CASE UNCHANGED wsVars
  BY <1>6 DEF wsVars, registryVars, pointers, ioVars, stopVars, callVars, ConnectionInv, CallsOK, AttemptOK, StateOK
<1> QED
  BY <1>2, <1>3, <1>4, <1>5, <1>6 DEF WsNext

LEMMA ConnectionInvariant == WsSpec => []ConnectionInv
  BY WsStarts, ConnectionStep, PTL DEF WsSpec

\* What the state reads is the connection, but for the three places where the I/O thread has
\* changed the one and not yet the other: every handler of GateWsClient's I/O thread, in any
\* order with stop, whatever the number of attempts and callers.
THEOREM StateIsCorrected == WsSpec => []StateFollowsConnection
<1>1. ConnectionInv => StateFollowsConnection
  <2> SUFFICES ASSUME ConnectionInv PROVE StateFollowsConnection
    OBVIOUS
  <2> USE DEF ConnectionInv, AttemptOK, StateOK, Open, Live
  <2>1. m_state = "Connected" /\ ~ Open => io \in {"closed", "thrown", "exit"}
    OBVIOUS
  <2>2. m_state # "Connected" /\ Open => io = "opened"
    BY DEF Steps
  <2> QED
    BY <2>1, <2>2 DEF StateFollowsConnection
<1> QED
  BY <1>1, ConnectionInvariant, PTL

-----------------------------------------------------------------------------
(* The channels                                                            *)

\* A message about a channel is in a queue.
Has(queue, ch) == \E i \in DOMAIN queue : queue[i].channel = ch

LEMMA HasNothing == ASSUME NEW ch PROVE ~ Has(<< >>, ch)
  BY DEF Has

LEMMA HasAppended ==
  ASSUME NEW q \in Seq(CallMessages), NEW m \in CallMessages, NEW ch
  PROVE  /\ Has(q, ch) => Has(Append(q, m), ch)
         /\ m.channel = ch => Has(Append(q, m), ch)
<1>1. /\ Len(q) + 1 \in DOMAIN Append(q, m) /\ Append(q, m)[Len(q) + 1] = m
      /\ \A i \in DOMAIN q : i \in DOMAIN Append(q, m) /\ Append(q, m)[i] = q[i]
  OBVIOUS
<1> QED
  BY <1>1 DEF Has

LEMMA HasJoined ==
  ASSUME NEW q \in Seq(CallMessages), NEW r \in Seq(CallMessages), NEW ch, Has(q, ch)
  PROVE  Has(q \o r, ch)
<1>1. \A i \in DOMAIN q : i \in DOMAIN (q \o r) /\ (q \o r)[i] = q[i]
  OBVIOUS
<1> QED
  BY <1>1 DEF Has

LEMMA HasHeadOrTail ==
  ASSUME NEW q \in Seq(CallMessages), NEW ch, Has(q, ch)
  PROVE  Head(q).channel = ch \/ Has(Tail(q), ch)
<1>1. PICK i \in DOMAIN q : q[i].channel = ch
  BY DEF Has
<1>2. CASE i = 1
  BY <1>1, <1>2
<1>3. CASE i # 1
  <2>1. i - 1 \in DOMAIN Tail(q) /\ Tail(q)[i - 1] = q[i]
    BY <1>3
  <2> QED
    BY <1>1, <2>1 DEF Has
<1> QED
  BY <1>2, <1>3

\* The exchange keeps a channel nobody removes, and a message about it subscribes it.
LEMMA AnswerKeeps ==
  ASSUME NEW sent, NEW m \in CallMessages, NEW ch, ch \notin Removable
  PROVE  /\ ch \in sent => ch \in Answer(sent, m)
         /\ m.channel = ch => ch \in Answer(sent, m)
<1>1. m.type \in {"Subscribe", "SubscribePrivate", "Unsubscribe"}
  BY DEF CallMessages, Messages, Types
<1> QED
  BY <1>1 DEF Answer, CallMessages

\* The first connection, before its state reads Connected and from then on.
Early ==
  \/ attempts = 0 /\ io \in {"none", "test", "make"}
  \/ attempts = 1 /\ io \in {"connect", "run", "opened"}
First == Early \/ (attempts = 1 /\ io \in Live)

\* The queue is going to be emptied by on_open, or by a call.
Drained ==
  \/ io \in {"none", "test", "make", "connect", "run", "opened", "list", "resubscribe", "drain"}
  \/ \E c \in Callers : caller[c] \in {"check", "swap"}

\* A thread holds messages it is going to send on the connection there is.
Sends(c) == caller[c] = "capture" \/ (caller[c] = "send" /\ cli[c] = client)

\* Where a channel is on its way to the exchange, or that it is there.
OnItsWay(ch) ==
  \/ \E c \in Callers : caller[c] = "push" /\ message[c].channel = ch
  \/ Drained /\ Has(pending_actions, ch)
  \/ \E c \in Callers : Sends(c) /\ Has(actions[c], ch)
  \/ io = "drainSend" /\ Has(actions[IO], ch)
  \/ io = "resubscribe" /\ ch \in resubscribing \ Private
  \/ ch \in server

\* A public channel once the registry was read on a connection, a private one on the first.
Due(ch) ==
  /\ ch \in channels \ Removable
  /\ \/ ch \notin Private /\ io \in Up
     \/ ch \in Private /\ First

NothingSentEarly ==
  Early => /\ server = {} /\ m_state # "Connected"
           /\ \A c \in Callers : caller[c] \in {"idle", "push", "check"}

ChannelInv == NothingSentEarly /\ \A ch \in channels : Due(ch) => OnItsWay(ch)

LEMMA ChannelsStart == WsInit => ChannelInv
  BY DEF WsInit, ChannelInv, NothingSentEarly

\* A call on a live connection is going to send what it took.
LEMMA LiveSends ==
  ASSUME ConnectionInv, NothingSentEarly, NEW ch, Due(ch)
  PROVE  \/ io \in Live /\ Open /\ client_ptr = client /\ client # 0 /\ m_state = "Connected"
         \/ Early
  BY DEF ConnectionInv, AttemptOK, StateOK, NothingSentEarly, Due, First, Open, Live, Up

LEMMA BeginChannels ==
  ASSUME ConnectionInv, ChannelInv, NEW c \in Callers,
         subscribe(c) \/ subscribePrivate(c) \/ unsubscribe(c)
  PROVE  ChannelInv'
<1>1. PICK type, ch, registry :
        /\ begin(c, type, ch, registry) /\ [type |-> type, channel |-> ch] \in CallMessages
        /\ registry \ Removable \subseteq channels \cup {ch}
  BY BeginsAre
<1>2. /\ caller[c] = "idle" /\ caller' = [caller EXCEPT ![c] = "push"] /\ channels' = registry
      /\ message' = [message EXCEPT ![c] = [type |-> type, channel |-> ch]]
      /\ UNCHANGED <<pending_actions, m_state, client, io, attempts, resubscribing, cli, actions, server>>
  BY <1>1 DEF begin, ioVars
<1>3. /\ caller'[c] = "push" /\ message'[c].channel = ch
      /\ \A d \in Callers \ {c} : caller'[d] = caller[d] /\ message'[d] = message[d]
  BY <1>2 DEF ConnectionInv, CallsOK
<1>4. NothingSentEarly'
  BY <1>2, <1>3 DEF ChannelInv, NothingSentEarly, Early
<1>5. ASSUME NEW x \in channels', Due(x)'
      PROVE  OnItsWay(x)'
  <2>1. CASE x = ch
    BY <1>3, <2>1 DEF OnItsWay
  <2>2. CASE x # ch
    <3>1. x \in channels /\ Due(x)
      BY <1>1, <1>2, <1>5, <2>2 DEF Due, First, Early
    <3>2. OnItsWay(x)
      BY <3>1 DEF ChannelInv
    <3>3. Drained => Drained'
      BY <1>2, <1>3 DEF Drained
    <3>4. \A d \in Callers : Sends(d) => Sends(d)'
      BY <1>2, <1>3 DEF Sends
    <3>5. ASSUME NEW d \in Callers, caller[d] = "push" PROVE caller'[d] = "push" /\ message'[d] = message[d]
      BY <1>2, <1>3, <3>5
    <3> QED
      BY <1>2, <3>2, <3>3, <3>4, <3>5 DEF OnItsWay
  <2> QED
    BY <2>1, <2>2
<1> QED
  BY <1>4, <1>5 DEF ChannelInv

\* Where a channel is while a call goes on.
LEMMA CallChannel ==
  ASSUME ConnectionInv, ChannelInv, NEW c \in Callers, continueCall(c), NEW ch \in channels, Due(ch)
  PROVE  OnItsWay(ch)'
<1> USE DEF goesOn, ioVars, pointers
<1>1. UNCHANGED <<io, attempts, client, resubscribing, channels>>
  BY DEF continueCall, push, check, swap, capture, requeue, send
<1>2. c # IO /\ ch \notin Removable /\ OnItsWay(ch)
  BY ClientAssumption DEF Due, ChannelInv
<1>3. /\ \A d \in Callers \ {c} : caller'[d] = caller[d] /\ actions'[d] = actions[d] /\ cli'[d] = cli[d]
      /\ \A d \in Callers \ {c} : message'[d] = message[d]
      /\ actions'[IO] = actions[IO]
  BY <1>2 DEF continueCall, push, check, swap, capture, requeue, send, ConnectionInv, CallsOK
<1>4. /\ actions[c] \in Seq(CallMessages) /\ pending_actions \in Seq(CallMessages)
      /\ caller \in [Callers -> {"idle", "push", "check", "swap", "capture", "requeue", "send"}]
      /\ cli \in [Callers -> Nat] /\ actions \in [Callers \cup {IO} -> Seq(CallMessages)]
  BY DEF ConnectionInv, CallsOK
<1>5. \A d \in Callers \ {c} : Sends(d)' = Sends(d)
  BY <1>1, <1>3 DEF Sends
<1>6. /\ io \in Live => Open /\ client_ptr = client /\ client # 0 /\ m_state = "Connected"
      /\ io \notin Live => caller[c] \in {"idle", "push", "check"} /\ m_state # "Connected" /\ Early
  BY LiveSends DEF ChannelInv, NothingSentEarly, Early, Live
<1>7. CASE push(c)
  <2>1. caller[c] = "push" /\ caller'[c] = "check" /\ pending_actions' = Append(pending_actions, message[c]) /\ UNCHANGED <<actions, cli, server>>
    BY <1>4, <1>7 DEF push
  <2>2. message[c] \in CallMessages
    BY <2>1 DEF ConnectionInv, CallsOK
  <2>3. Drained'
    BY <2>1 DEF Drained
  <2>4. /\ Has(pending_actions, ch) => Has(pending_actions', ch)
        /\ message[c].channel = ch => Has(pending_actions', ch)
    BY <1>4, <2>1, <2>2, HasAppended
  <2>5. \A d \in Callers : Sends(d) => d # c /\ Sends(d)'
    BY <1>5, <2>1 DEF Sends
  <2> QED
    BY <1>1, <1>2, <1>3, <2>1, <2>3, <2>4, <2>5 DEF OnItsWay
<1>8. CASE check(c)
  <2>1. caller[c] = "check" /\ caller'[c] = IF m_state = "Connected" THEN "swap" ELSE "idle"
    BY <1>4, <1>8 DEF check
  <2>2. UNCHANGED <<pending_actions, message, cli, actions, server>>
    BY <1>8 DEF check
  <2>3. Drained => Drained'
    BY <1>1, <1>3, <1>6, <2>1 DEF Drained, Early
  <2>4. \A d \in Callers : Sends(d) => d # c /\ Sends(d)'
    BY <1>5, <2>1 DEF Sends
  <2> QED
    BY <1>1, <1>2, <1>3, <2>1, <2>2, <2>3, <2>4 DEF OnItsWay
<1>9. CASE swap(c)
  <2>1. /\ caller[c] = "swap" /\ caller'[c] = IF pending_actions = << >> THEN "idle" ELSE "capture"
        /\ actions'[c] = pending_actions /\ UNCHANGED <<message, cli, server>>
    BY <1>4, <1>9 DEF swap
  <2>2. Has(pending_actions, ch) => Sends(c)' /\ Has(actions'[c], ch)
    BY <2>1, HasNothing DEF Sends
  <2>3. \A d \in Callers : Sends(d) => d # c /\ Sends(d)'
    BY <1>5, <2>1 DEF Sends
  <2> QED
    BY <1>1, <1>2, <1>3, <2>1, <2>2, <2>3 DEF OnItsWay
<1>10. CASE capture(c)
  <2>1. caller[c] = "capture" /\ Open /\ client_ptr = client /\ client # 0
    BY <1>6, <1>10 DEF capture
  <2>2. caller'[c] = "send" /\ cli'[c] = client /\ UNCHANGED <<pending_actions, message, actions, server>>
    BY <1>4, <1>10, <2>1 DEF capture
  <2>3. Drained => Drained'
    BY <1>1, <1>3, <2>1 DEF Drained
  <2>4. \A d \in Callers : Sends(d) => Sends(d)'
    BY <1>1, <1>5, <2>2 DEF Sends
  <2> QED
    BY <1>1, <1>2, <1>3, <2>1, <2>2, <2>3, <2>4 DEF OnItsWay
<1>11. CASE requeue(c)
  <2>1. /\ caller[c] = "requeue" /\ caller'[c] = "idle" /\ pending_actions' = pending_actions \o actions[c]
        /\ UNCHANGED <<message, cli, server>>
    BY <1>4, <1>11 DEF requeue
  <2>2. Drained => Drained'
    BY <1>1, <1>3, <2>1 DEF Drained
  <2>3. Has(pending_actions, ch) => Has(pending_actions', ch)
    BY <1>4, <2>1, HasJoined
  <2>4. \A d \in Callers : Sends(d) => d # c /\ Sends(d)'
    BY <1>5, <2>1 DEF Sends
  <2> QED
    BY <1>1, <1>2, <1>3, <2>1, <2>2, <2>3, <2>4 DEF OnItsWay
<1>12. CASE send(c)
  <2> DEFINE usable == Open /\ cli[c] = client
             rest == IF usable THEN Tail(actions[c]) ELSE << >>
  <2>1. /\ caller[c] = "send" /\ caller'[c] = IF rest = << >> THEN "idle" ELSE "send"
        /\ actions'[c] = rest /\ UNCHANGED <<pending_actions, message>>
        /\ server' = IF usable THEN Answer(server, Head(actions[c])) ELSE server
        /\ cli'[c] = IF rest = << >> THEN 0 ELSE cli[c]
    BY <1>4, <1>12 DEF send
  <2>2. actions[c] # << >> /\ Head(actions[c]) \in CallMessages
    BY <1>4, <2>1, HeadTailProperties DEF ConnectionInv, CallsOK
  <2>3. ch \in server => ch \in server'
    BY <1>2, <2>1, <2>2, AnswerKeeps
  <2>4. Drained => Drained'
    BY <1>1, <1>3, <2>1 DEF Drained
  <2>5. \A d \in Callers \ {c} : Sends(d) => Sends(d)' /\ actions'[d] = actions[d]
    BY <1>3, <1>5
  <2>6. ASSUME Sends(c), Has(actions[c], ch)
        PROVE  (Sends(c)' /\ Has(actions'[c], ch)) \/ ch \in server'
    <3>1. usable
      BY <1>6, <2>1, <2>6 DEF Sends
    <3>2. CASE Head(actions[c]).channel = ch
      BY <1>2, <2>1, <2>2, <3>1, <3>2, AnswerKeeps
    <3>3. CASE Has(Tail(actions[c]), ch)
      <4>1. rest = Tail(actions[c]) /\ rest # << >>
        BY <3>1, <3>3, HasNothing
      <4> QED
        BY <1>1, <2>1, <3>1, <3>3, <4>1 DEF Sends
    <3> QED
      BY <1>4, <2>6, <3>2, <3>3, HasHeadOrTail
  <2> HIDE DEF usable, rest
  <2>7. \A d \in Callers : caller[d] = "push" => d # c /\ caller'[d] = "push" /\ message'[d] = message[d]
    BY <1>3, <2>1
  <2>8. CASE \E d \in Callers : Sends(d) /\ Has(actions[d], ch)
    BY <2>5, <2>6, <2>8 DEF OnItsWay
  <2>9. CASE ch \in server
    BY <2>3, <2>9 DEF OnItsWay
  <2>10. CASE \E d \in Callers : caller[d] = "push" /\ message[d].channel = ch
    BY <2>7, <2>10 DEF OnItsWay
  <2> QED
    BY <1>1, <1>2, <1>3, <2>1, <2>4, <2>8, <2>9, <2>10 DEF OnItsWay
<1> QED
  BY <1>7, <1>8, <1>9, <1>10, <1>11, <1>12 DEF continueCall

LEMMA CallChannels ==
  ASSUME ConnectionInv, ChannelInv, NEW c \in Callers, continueCall(c)
  PROVE  ChannelInv'
<1> USE DEF goesOn, ioVars, pointers
<1>1. UNCHANGED <<io, attempts, channels, m_state>>
  BY DEF continueCall, push, check, swap, capture, requeue, send
<1>2. \A ch \in channels' : Due(ch)' => ch \in channels /\ Due(ch)
  BY <1>1 DEF Due, First, Early
<1>3. NothingSentEarly'
  <2> SUFFICES ASSUME Early
               PROVE  /\ server' = {} /\ m_state' # "Connected"
                      /\ \A d \in Callers : caller'[d] \in {"idle", "push", "check"}
    BY <1>1 DEF NothingSentEarly, Early
  <2>1. server = {} /\ m_state # "Connected" /\ \A d \in Callers : caller[d] \in {"idle", "push", "check"}
    BY DEF ChannelInv, NothingSentEarly
  <2>2. push(c) \/ check(c)
    BY <2>1 DEF continueCall, swap, capture, requeue, send
  <2>3. server' = server /\ \E to \in {"idle", "check"} : caller' = [caller EXCEPT ![c] = to]
    BY <2>1, <2>2 DEF push, check
  <2> QED
    BY <1>1, <2>1, <2>3 DEF ConnectionInv, CallsOK
<1> QED
  BY <1>2, <1>3, CallChannel DEF ChannelInv

\* The steps outside on_open: what they leave alone, and that only the ones before the first
\* connection can leave a channel due.
Outside == start \/ test \/ make \/ connect \/ onOpen \/ setConnected \/ runIsStopped \/ clearPointers
           \/ leave \/ backoff \/ ioExits \/ getConnectionFails \/ onCloseOrFail \/ handlerThrows
           \/ setDisconnected

LEMMA OutsideEffect ==
  ASSUME ConnectionInv, Outside
  PROVE  /\ UNCHANGED <<channels, pending_actions, caller, message>> /\ server' \in {server, {}}
         /\ io' \notin Up
         /\ First' => Early
         /\ Early' => m_state' = m_state \/ m_state' # "Connected"
<1> USE DEF ioGoes, pointers, ioVars, callVars, registryVars, First, Early, Live, Up, ConnectionInv, AttemptOK
<1>1. CASE start
  BY <1>1 DEF start
<1>2. CASE test
  BY <1>2 DEF test
<1>3. CASE make
  BY <1>3 DEF make
<1>4. CASE connect
  BY <1>4 DEF connect
<1>5. CASE onOpen
  BY <1>5 DEF onOpen
<1>6. CASE setConnected
  BY <1>6 DEF setConnected
<1>7. CASE runIsStopped
  BY <1>7 DEF runIsStopped
<1>8. CASE clearPointers
  BY <1>8 DEF clearPointers
<1>9. CASE leave
  BY <1>9 DEF leave
<1>10. CASE backoff
  BY <1>10 DEF backoff
<1>11. CASE ioExits
  BY <1>11 DEF ioExits
<1>12. CASE getConnectionFails
  BY <1>12 DEF getConnectionFails
<1>13. CASE onCloseOrFail
  BY <1>13 DEF onCloseOrFail
<1>14. CASE handlerThrows
  BY <1>14 DEF handlerThrows
<1>15. CASE setDisconnected
  BY <1>15 DEF setDisconnected
<1> QED
  BY <1>1, <1>2, <1>3, <1>4, <1>5, <1>6, <1>7, <1>8, <1>9, <1>10, <1>11, <1>12, <1>13, <1>14, <1>15 DEF Outside

LEMMA OutsideChannels ==
  ASSUME ConnectionInv, ChannelInv, Outside
  PROVE  ChannelInv'
<1>1. /\ UNCHANGED <<channels, pending_actions, caller, message>> /\ server' \in {server, {}}
      /\ io' \notin Up /\ (First' => Early)
      /\ Early' => m_state' = m_state \/ m_state' # "Connected"
  BY OutsideEffect
<1>2. Early => server = {} /\ m_state # "Connected" /\ \A c \in Callers : caller[c] \in {"idle", "push", "check"}
  BY DEF ChannelInv, NothingSentEarly
<1>3. NothingSentEarly'
  BY <1>1, <1>2 DEF NothingSentEarly, First
<1>4. ASSUME NEW ch \in channels', Due(ch)'
      PROVE  OnItsWay(ch)'
  <2>1. First' /\ Early /\ Due(ch)
    BY <1>1, <1>4 DEF Due, First
  <2>2. OnItsWay(ch)
    BY <1>1, <1>4, <2>1 DEF ChannelInv
  <2>3. \/ \E c \in Callers : caller[c] = "push" /\ message[c].channel = ch
        \/ Has(pending_actions, ch)
    BY <1>2, <2>1, <2>2 DEF OnItsWay, Sends, Early
  <2>4. Drained'
    BY <1>1, <2>1 DEF First, Early, Drained, Live, Up
  <2> QED
    BY <1>1, <2>3, <2>4 DEF OnItsWay
<1> QED
  BY <1>3, <1>4 DEF ChannelInv

\* on_open lists the registry, subscribes what it listed, and sends the queue.
LEMMA OnOpenChannel ==
  ASSUME ConnectionInv, ChannelInv, activeChannels \/ resubscribe \/ drainQueue \/ drainSend,
         NEW ch \in channels, Due(ch)'
  PROVE  OnItsWay(ch)'
<1> USE DEF ioGoes, pointers, ioVars, callVars, registryVars
<1>1. UNCHANGED <<channels, caller, message, cli, client, attempts>>
  BY DEF activeChannels, resubscribe, drainQueue, drainSend
<1>2. IO \in Callers \cup {IO} /\ \A c \in Callers : c # IO
  BY ClientAssumption
<1>3. /\ actions \in [Callers \cup {IO} -> Seq(CallMessages)] /\ pending_actions \in Seq(CallMessages)
      /\ ch \notin Removable
  BY <1>1 DEF ConnectionInv, CallsOK, Due
<1>4. \A c \in Callers : Sends(c)' = Sends(c)
  BY <1>1 DEF Sends
<1>5. \A c \in Callers : actions'[c] = actions[c]
  BY <1>2, <1>3 DEF activeChannels, resubscribe, drainQueue, drainSend
<1>6. CASE activeChannels
  <2>1. /\ io = "list" /\ io' = "resubscribe" /\ resubscribing' = channels
        /\ UNCHANGED <<pending_actions, actions, server>>
    BY <1>6 DEF activeChannels
  <2>2. CASE ch \notin Private
    BY <2>1, <2>2 DEF OnItsWay
  <2>3. CASE ch \in Private
    <3>1. Due(ch)
      BY <1>1, <1>3, <2>1, <2>3 DEF Due, First, Early, Live
    <3>2. OnItsWay(ch) /\ Drained'
      BY <2>1, <3>1 DEF ChannelInv, Drained
    <3> QED
      BY <1>1, <1>4, <1>5, <2>1, <3>2 DEF OnItsWay
  <2> QED
    BY <2>2, <2>3
<1>7. CASE resubscribe \/ drainQueue \/ drainSend
  <2>1. io \in Up /\ io' \in Up
    BY <1>7 DEF resubscribe, drainQueue, drainSend, Up, Live
  <2>2. Due(ch)
    BY <1>1, <2>1 DEF Due, First, Early, Up, Live
  <2>3. OnItsWay(ch)
    BY <2>2 DEF ChannelInv
  <2>4. CASE resubscribe
    <3>1. io = "resubscribe" /\ io' \in {"resubscribe", "drain"} /\ UNCHANGED <<pending_actions, actions>> /\ Drained'
      BY <2>4 DEF resubscribe, Drained
    <3>2. CASE resubscribing = {} /\ server' = server
      BY <1>1, <1>4, <1>5, <2>3, <3>1, <3>2 DEF OnItsWay
    <3>3. CASE \E x \in resubscribing : /\ io' = "resubscribe" /\ resubscribing' = resubscribing \ {x}
                                         /\ server' = Answer(server, [type |-> "Subscribe", channel |-> x])
      <4>1. PICK x \in resubscribing : /\ io' = "resubscribe" /\ resubscribing' = resubscribing \ {x}
                                       /\ server' = Answer(server, [type |-> "Subscribe", channel |-> x])
        BY <3>3
      <4>2. server' = server \cup ({x} \ Private)
        BY <4>1 DEF Answer
      <4> QED
        BY <1>1, <1>4, <1>5, <2>3, <3>1, <4>1, <4>2 DEF OnItsWay
    <3> QED
      BY <2>4, <3>2, <3>3 DEF resubscribe
  <2>5. CASE drainQueue
    <3>1. /\ io = "drain" /\ io' = "drainSend" /\ actions'[IO] = pending_actions
          /\ UNCHANGED <<resubscribing, server>>
      BY <1>2, <1>3, <2>5 DEF drainQueue
    <3> QED
      BY <1>1, <1>4, <1>5, <2>3, <3>1 DEF OnItsWay
  <2>6. CASE drainSend
    <3>1. io = "drainSend" /\ UNCHANGED pending_actions /\ (Drained => Drained')
      BY <1>1, <2>6 DEF drainSend, Drained
    <3>2. CASE actions[IO] = << >>
      <4>1. ~ Has(actions[IO], ch)
        BY <3>2, HasNothing
      <4>2. server' = server
        BY <2>6, <3>2 DEF drainSend
      <4> QED
        BY <1>1, <1>4, <1>5, <2>3, <3>1, <4>1, <4>2 DEF OnItsWay
    <3>3. CASE actions[IO] # << >>
      <4>1. /\ io' = "drainSend" /\ server' = Answer(server, Head(actions[IO])) /\ actions'[IO] = Tail(actions[IO])
        BY <1>2, <1>3, <2>6, <3>3 DEF drainSend
      <4>2. Head(actions[IO]) \in CallMessages
        BY <1>2, <1>3, <3>3, HeadTailProperties
      <4>3. /\ ch \in server => ch \in server'
            /\ Head(actions[IO]).channel = ch => ch \in server'
        BY <1>3, <4>1, <4>2, AnswerKeeps
      <4>4. Has(actions[IO], ch) => Has(actions'[IO], ch) \/ ch \in server'
        BY <1>2, <1>3, <4>1, <4>3, HasHeadOrTail
      <4> QED
        BY <1>1, <1>4, <1>5, <2>3, <3>1, <4>1, <4>3, <4>4 DEF OnItsWay
    <3> QED
      BY <3>2, <3>3
  <2> QED
    BY <1>7, <2>4, <2>5, <2>6
<1> QED
  BY <1>6, <1>7

LEMMA OnOpenChannels ==
  ASSUME ConnectionInv, ChannelInv, activeChannels \/ resubscribe \/ drainQueue \/ drainSend
  PROVE  ChannelInv'
<1>1. channels' = channels /\ io' \in Up
  BY DEF ioGoes, registryVars, activeChannels, resubscribe, drainQueue, drainSend, Up, Live
<1>2. NothingSentEarly'
  BY <1>1 DEF NothingSentEarly, Early, Up, Live
<1> QED
  BY <1>1, <1>2, OnOpenChannel DEF ChannelInv

\* A step of stop moves nothing a channel's way depends on.
LEMMA StopChannels ==
  ASSUME ConnectionInv, ChannelInv, stop \/ UNCHANGED wsVars
  PROVE  ChannelInv'
<1>1. /\ UNCHANGED <<channels, pending_actions, client, io, resubscribing, attempts, caller, message, cli, actions, server>>
      /\ m_state' = m_state \/ m_state' = "Disconnected"
  BY DEF stop, requestStop, stopContext, join, stopGoes, wsVars, pointers, ioVars, stopVars, callVars, registryVars
<1>2. NothingSentEarly'
  BY <1>1 DEF ChannelInv, NothingSentEarly, Early
<1>3. \A ch \in channels : OnItsWay(ch)' = OnItsWay(ch) /\ Due(ch)' = Due(ch)
  BY <1>1 DEF OnItsWay, Due, Drained, Sends, First, Early
<1> QED
  BY <1>1, <1>2, <1>3 DEF ChannelInv

LEMMA ChannelStep == ConnectionInv /\ ChannelInv /\ [WsNext]_wsVars => ChannelInv'
<1> SUFFICES ASSUME ConnectionInv, ChannelInv, [WsNext]_wsVars PROVE ChannelInv'
  OBVIOUS
<1>1. CASE runIoLoop \/ start
  <2>1. Outside \/ activeChannels \/ resubscribe \/ drainQueue \/ drainSend
    BY <1>1 DEF runIoLoop, ioGoesOn, Outside
  <2> QED
    BY <2>1, OutsideChannels, OnOpenChannels
<1> QED
  BY <1>1, BeginChannels, CallChannels, StopChannels DEF WsNext

\* A channel nobody removes is subscribed once the connection is open and nobody is in a call:
\* subscribe and unsubscribe of any threads racing on_open of GateWsClient and each other.
THEOREM KeptChannelsReachExchange == WsSpec => []KeptChannelsAreSent
<1>1. ASSUME ConnectionInv, ChannelInv, Quiet, NEW ch \in channels \ Removable, ch \in Private => attempts = 1
      PROVE  ch \in server
  <2>1. io = "serving" /\ \A c \in Callers : caller[c] = "idle"
    BY <1>1 DEF Quiet
  <2>2. Due(ch)
    BY <1>1, <2>1 DEF Due, First, Up, Live
  <2>3. OnItsWay(ch)
    BY <1>1, <2>2 DEF ChannelInv
  <2> QED
    BY <2>1, <2>3 DEF OnItsWay, Drained, Sends
<1>2. ConnectionInv /\ ChannelInv => KeptChannelsAreSent
  BY <1>1 DEF KeptChannelsAreSent
<1>3. ConnectionInv /\ ChannelInv /\ [WsNext]_wsVars => (ConnectionInv /\ ChannelInv)'
  BY ConnectionStep, ChannelStep
<1> QED
  BY <1>2, <1>3, WsStarts, ChannelsStart, PTL DEF WsSpec

-----------------------------------------------------------------------------
(* Types                                                                   *)

\* No attempt is made after the last: it is not refused or dropped, and what ends it is stop.
AttemptsOK ==
  /\ io = "make" => attempts < MaxAttempts
  /\ io \in {"test", "closed", "thrown", "returned", "leave", "backoff"} => attempts < MaxAttempts \/ stop_requested

LEMMA MessagesAre == CallMessages \subseteq Messages /\ Seq(CallMessages) \subseteq Seq(Messages)
<1>1. CallMessages \subseteq Messages
  BY DEF CallMessages
<1>2. ASSUME NEW q \in Seq(CallMessages) PROVE q \in Seq(Messages)
  <2>1. \A i \in 1 .. Len(q) : q[i] \in Messages
    BY <1>1
  <2> QED
    BY <2>1
<1> QED
  BY <1>1, <1>2

LEMMA AnswersAre ==
  ASSUME NEW sent \in SUBSET AllChannels, NEW m \in Messages
  PROVE  Answer(sent, m) \subseteq AllChannels
<1>1. m.type \in {"Subscribe", "SubscribePrivate", "Unsubscribe"} /\ m.channel \in AllChannels
  BY DEF Messages, Types
<1> QED
  BY <1>1 DEF Answer

\* What the calls and the queue hold, from ConnectionInv.
LEMMA CallTypes ==
  ASSUME ConnectionInv
  PROVE  /\ pending_actions \in Seq(Messages)
         /\ caller \in [Callers -> {"idle", "push", "check", "swap", "capture", "requeue", "send"}]
         /\ message \in [Callers -> Messages \cup {NoMessage}]
         /\ actions \in [Callers \cup {IO} -> Seq(Messages)]
         /\ io \in Steps
<1>1. \A t \in Callers \cup {IO} : actions[t] \in Seq(Messages)
  BY MessagesAre DEF ConnectionInv, CallsOK
<1> QED
  BY <1>1, MessagesAre DEF ConnectionInv, CallsOK, AttemptOK

\* The types that ConnectionInv has not.
OtherTypes ==
  /\ channels \subseteq AllChannels /\ resubscribing \subseteq AllChannels /\ server \subseteq AllChannels
  /\ m_state \in {"Disconnected", "Connecting", "Connected"}
  /\ {active_hdl, client_ptr, io_ctx_ptr, client} \subseteq 0 .. attempts
  /\ attempts \in 0 .. MaxAttempts
  /\ context_stopped \in BOOLEAN /\ stop_requested \in BOOLEAN
  /\ stopping \in {"idle", "context", "join", "stopped"}
  /\ calls \in 0 .. MaxCalls
  /\ cli \in [Callers -> 0 .. attempts]
  /\ AttemptsOK

LEMMA CallsKeepTypes ==
  ASSUME ConnectionInv, OtherTypes, NEW c \in Callers,
         subscribe(c) \/ subscribePrivate(c) \/ unsubscribe(c) \/ continueCall(c)
  PROVE  OtherTypes'
<1>1. CASE subscribe(c) \/ subscribePrivate(c) \/ unsubscribe(c)
  <2>1. PICK type, ch, registry : begin(c, type, ch, registry) /\ [type |-> type, channel |-> ch] \in CallMessages
    BY <1>1, BeginsAre
  <2>2. channels' \subseteq AllChannels
    <3>1. Channels[c] \subseteq AllChannels
      BY DEF AllChannels
    <3> QED
      BY <1>1, <3>1 DEF OtherTypes, subscribe, subscribePrivate, unsubscribe, begin
  <2>3. calls' \in 0 .. MaxCalls
    BY <2>1, ClientAssumption DEF begin, OtherTypes
  <2> QED
    BY <2>1, <2>2, <2>3 DEF begin, pointers, ioVars, stopVars, OtherTypes, AttemptsOK
<1>2. CASE continueCall(c)
  <2>1. /\ UNCHANGED <<channels, m_state, active_hdl, client_ptr, io_ctx_ptr, client, io, resubscribing, attempts>>
        /\ UNCHANGED <<context_stopped, stop_requested, stopping, calls>>
    BY <1>2 DEF continueCall, push, check, swap, capture, requeue, send, goesOn, pointers, ioVars, stopVars
  <2>2. \/ cli' = cli
        \/ \E n \in {0, client_ptr} : cli' = [cli EXCEPT ![c] = n]
        \/ cli' = [cli EXCEPT ![c] = cli[c]]
    BY <1>2 DEF continueCall, push, check, swap, capture, requeue, send
  <2>3. cli' \in [Callers -> 0 .. attempts']
    BY <2>1, <2>2 DEF OtherTypes
  <2>4. server' \subseteq AllChannels
    <3>1. CASE send(c)
      <4>1. c \in Callers \cup {IO} /\ actions[c] # << >>
        BY <3>1 DEF send, goesOn, ConnectionInv, CallsOK
      <4>2. actions[c] \in Seq(Messages)
        BY <4>1, CallTypes
      <4>3. Head(actions[c]) \in Messages
        BY <4>1, <4>2, HeadTailProperties
      <4>4. Answer(server, Head(actions[c])) \subseteq AllChannels
        BY <4>3, AnswersAre DEF OtherTypes
      <4> QED
        BY <3>1, <4>4 DEF send, OtherTypes
    <3>2. CASE ~ send(c)
      BY <1>2, <3>2 DEF continueCall, push, check, swap, capture, requeue, OtherTypes
    <3> QED
      BY <3>1, <3>2
  <2> QED
    BY <2>1, <2>3, <2>4 DEF OtherTypes, AttemptsOK
<1> QED
  BY <1>1, <1>2

LEMMA IoKeepsAttempts ==
  ASSUME ConnectionInv, AttemptsOK, runIoLoop \/ start, ~ make, attempts' = attempts, stop_requested' = stop_requested
  PROVE  AttemptsOK'
<1> USE DEF ioGoes, AttemptsOK
<1>1. CASE start
  BY <1>1, ClientAssumption DEF start, ConnectionInv, AttemptOK
<1>2. CASE test
  BY <1>2 DEF test
<1>3. CASE runIsStopped
  <2>1. io' = "returned" /\ stop_requested
    BY <1>3 DEF runIsStopped, ConnectionInv, StateOK
  <2> QED
    BY <2>1
<1>4. CASE onCloseOrFail
  BY <1>4 DEF onCloseOrFail
<1>5. CASE handlerThrows
  BY <1>5 DEF handlerThrows
<1>6. CASE clearPointers
  BY <1>6 DEF clearPointers
<1>7. CASE leave
  BY <1>7 DEF leave
<1>8. CASE backoff
  BY <1>8 DEF backoff
<1>9. CASE connect \/ onOpen \/ setConnected \/ activeChannels \/ resubscribe \/ drainQueue \/ drainSend
           \/ ioExits \/ getConnectionFails
  <2>1. io' \in {"run", "opened", "list", "resubscribe", "drain", "drainSend", "serving", "done", "exit"}
    BY <1>9 DEF connect, onOpen, setConnected, activeChannels, resubscribe, drainQueue, drainSend, ioExits,
                getConnectionFails
  <2> QED
    BY <2>1
<1>10. CASE setDisconnected
  BY <1>10 DEF setDisconnected
<1> QED
  BY <1>1, <1>2, <1>3, <1>4, <1>5, <1>6, <1>7, <1>8, <1>9, <1>10 DEF runIoLoop, ioGoesOn

LEMMA IoKeepsTypes ==
  ASSUME ConnectionInv, OtherTypes, runIoLoop \/ start
  PROVE  OtherTypes'
<1>1. UNCHANGED <<channels, calls, cli, context_stopped, stop_requested, stopping>>
  BY DEF ioGoes, stopVars, callVars, registryVars, runIoLoop, ioGoesOn, start, test, make, connect, onOpen,
         setConnected, activeChannels, resubscribe, drainQueue, drainSend, setDisconnected, runIsStopped, clearPointers, leave,
         backoff, ioExits, getConnectionFails, onCloseOrFail, handlerThrows
<1>2. resubscribing' \subseteq AllChannels /\ server' \subseteq AllChannels
  <2>1. CASE resubscribe
    <3>1. CASE resubscribing = {} /\ UNCHANGED <<resubscribing, server>>
      BY <3>1 DEF OtherTypes
    <3>2. CASE \E x \in resubscribing : /\ resubscribing' = resubscribing \ {x}
                                         /\ server' = Answer(server, [type |-> "Subscribe", channel |-> x])
      BY <3>2 DEF OtherTypes, Answer
    <3> QED
      BY <2>1, <3>1, <3>2 DEF resubscribe
  <2>2. CASE drainSend
    <3>1. CASE actions[IO] = << >>
      BY <2>2, <3>1 DEF drainSend, OtherTypes
    <3>2. CASE actions[IO] # << >>
      <4>1. actions[IO] \in Seq(Messages)
        BY CallTypes
      <4>2. Head(actions[IO]) \in Messages
        BY <3>2, <4>1, HeadTailProperties
      <4>3. Answer(server, Head(actions[IO])) \subseteq AllChannels
        BY <4>2, AnswersAre DEF OtherTypes
      <4> QED
        BY <2>2, <3>2, <4>3 DEF drainSend, OtherTypes
    <3> QED
      BY <3>1, <3>2
  <2>3. CASE ~ (resubscribe \/ drainSend)
    BY <2>3 DEF OtherTypes, registryVars, runIoLoop, ioGoesOn, start, test, make, connect, onOpen,
         setConnected, activeChannels, drainQueue, setDisconnected, runIsStopped, clearPointers, leave,
         backoff, ioExits, getConnectionFails, onCloseOrFail, handlerThrows
  <2> QED
    BY <2>1, <2>2, <2>3
<1>3. m_state' \in {"Disconnected", "Connecting", "Connected"}
  BY DEF OtherTypes, runIoLoop, ioGoesOn, start, test, make, connect, onOpen,
         setConnected, activeChannels, resubscribe, drainQueue, drainSend, setDisconnected, runIsStopped, clearPointers, leave,
         backoff, ioExits, getConnectionFails, onCloseOrFail, handlerThrows
<1>4. CASE make
  <2>1. /\ attempts \in Nat /\ attempts < MaxAttempts /\ MaxAttempts \in Nat
        /\ io' = "connect" /\ attempts' = attempts + 1 /\ client' = attempts + 1 /\ io_ctx_ptr' = attempts + 1
        /\ UNCHANGED <<active_hdl, client_ptr>>
    BY <1>4, ClientAssumption DEF make, ioGoes, OtherTypes, AttemptsOK
  <2>2. attempts' \in 0 .. MaxAttempts /\ 0 .. attempts \subseteq 0 .. attempts' /\ attempts' \in 0 .. attempts'
    BY <2>1
  <2>3. cli' \in [Callers -> 0 .. attempts']
    BY <1>1, <2>2 DEF OtherTypes
  <2>4. {active_hdl', client_ptr', io_ctx_ptr', client'} \subseteq 0 .. attempts'
    BY <2>1, <2>2 DEF OtherTypes
  <2>5. AttemptsOK'
    BY <2>1 DEF AttemptsOK
  <2> QED
    BY <1>1, <1>2, <1>3, <2>2, <2>3, <2>4, <2>5 DEF OtherTypes
<1>5. CASE ~ make
  <2>1. attempts' = attempts /\ {active_hdl', client_ptr', io_ctx_ptr', client'} \subseteq
          {0, active_hdl, client_ptr, io_ctx_ptr, client}
    BY <1>5 DEF pointers, runIoLoop, ioGoesOn, start, test, connect, onOpen,
         setConnected, activeChannels, resubscribe, drainQueue, drainSend, setDisconnected, runIsStopped, clearPointers, leave,
         backoff, ioExits, getConnectionFails, onCloseOrFail, handlerThrows
  <2>2. 0 \in 0 .. attempts
    BY DEF OtherTypes
  <2>3. AttemptsOK'
    <3>1. AttemptsOK /\ attempts' = attempts /\ stop_requested' = stop_requested
      BY <1>1, <2>1 DEF OtherTypes
    <3> QED
      BY <1>5, <3>1, IoKeepsAttempts
  <2> QED
    BY <1>1, <1>2, <1>3, <2>1, <2>2, <2>3 DEF OtherTypes
<1> QED
  BY <1>4, <1>5

\* Every variable of GateWsClient has its type; the bound on attempts is one of the model.
THEOREM WsTypeCorrect == WsSpec => []WsTypeOK
<1>1. WsInit => OtherTypes
  <2> SUFFICES ASSUME WsInit PROVE OtherTypes
    OBVIOUS
  <2>1. MaxCalls \in Nat /\ MaxAttempts \in Nat \ {0} /\ attempts = 0 /\ calls = 0 /\ io = "none"
    BY ClientAssumption DEF WsInit
  <2>2. 0 \in 0 .. MaxCalls /\ 0 \in 0 .. MaxAttempts /\ 0 \in 0 .. 0
    BY <2>1
  <2>3. cli \in [Callers -> 0 .. attempts]
    BY <2>1, <2>2 DEF WsInit
  <2> QED
    BY <2>1, <2>2, <2>3 DEF WsInit, OtherTypes, AttemptsOK
<1>2. ConnectionInv /\ OtherTypes /\ [WsNext]_wsVars => OtherTypes'
  <2> SUFFICES ASSUME ConnectionInv, OtherTypes, [WsNext]_wsVars PROVE OtherTypes'
    OBVIOUS
  <2>1. CASE stop
    BY <2>1 DEF stop, requestStop, stopContext, join, stopGoes, pointers, ioVars, callVars, registryVars,
                OtherTypes, AttemptsOK
  <2>2. CASE UNCHANGED wsVars
    BY <2>2 DEF wsVars, registryVars, pointers, ioVars, stopVars, callVars, OtherTypes, AttemptsOK
  <2> QED
    BY <2>1, <2>2, CallsKeepTypes, IoKeepsTypes DEF WsNext
<1>3. ConnectionInv /\ OtherTypes => WsTypeOK
  BY CallTypes DEF OtherTypes, WsTypeOK
<1>4. ConnectionInv /\ OtherTypes /\ [WsNext]_wsVars => (ConnectionInv /\ OtherTypes)'
  BY <1>2, ConnectionStep
<1> QED
  BY <1>1, <1>3, <1>4, WsStarts, PTL DEF WsSpec

-----------------------------------------------------------------------------
(* The trade recorder and what the guard is told                           *)

OrderSteps == {"none", "sent", "accepted", "tracked", "booked", "done", "failed"}

Booked == {o \in Orders : order[o] = "booked"}
Unwritten(refused, pnls) == SumFunctionOnSet([u \in refused |-> pnls[u[1]]], refused)

\* A row is that of an order whose handler is through.
RowOf(row, o) ==
  /\ order[o] = "done"
  /\ row.order_id = OrderId[o] /\ row.strategy_name = StrategyOf[o]

EngineOK ==
  /\ order \in [Orders -> OrderSteps]
  /\ booked_pnl \in [Orders -> Int]
  /\ m_pnl \in Int
  /\ now \in 1 .. MaxTime
  /\ io_thread \in [Markets -> {"off", "run", "stop", "joined"}]
  /\ m_db \in BOOLEAN

RowsOK ==
  /\ IsFiniteSet(trades)
  /\ \A row \in trades :
       /\ row.pnl \in Int /\ row.timestamp \in 1 .. MaxTime
       /\ \E o \in Orders : RowOf(row, o)

RefusedOK ==
  /\ IsFiniteSet(unrecorded)
  /\ \A u \in unrecorded : \E o \in Orders : order[o] = "done" /\ u = <<o, "TradeRecorderInsertFailed">>

\* A thread is joined between two handlers, and the database is closed after both threads.
ClosingOK ==
  /\ \A m \in Markets : io_thread[m] = "joined" => ~Booking(m)
  /\ ~m_db => main = "ended" /\ \A m \in Markets : io_thread[m] = "joined"

\* What the guard was told is written, refused, or about to be handed to the recorder.
ToldOK ==
  /\ IsFiniteSet(Booked)
  /\ Total(trades) + Unwritten(unrecorded, booked_pnl) + SumFunctionOnSet(booked_pnl, Booked) = m_pnl

QueryInv == EngineOK /\ RowsOK /\ ClosingOK

LEMMA EngineStarts == EngineInit => QueryInv /\ RefusedOK /\ ToldOK
<1> SUFFICES ASSUME EngineInit PROVE QueryInv /\ RefusedOK /\ ToldOK
  OBVIOUS
<1> USE DEF EngineInit, RecorderInit
<1>1. EngineOK
  BY EngineAssumption DEF EngineOK, OrderSteps
<1>2. RowsOK /\ RefusedOK
  BY FS_EmptySet DEF RowsOK, RefusedOK
<1>3. ClosingOK
  BY DEF ClosingOK
<1>4. trades = {} /\ unrecorded = {} /\ Booked = {} /\ m_pnl = 0
  BY DEF Booked
<1>5. Total(trades) = 0 /\ Unwritten(unrecorded, booked_pnl) = 0 /\ SumFunctionOnSet(booked_pnl, Booked) = 0
  BY <1>4, SumOfNone DEF Total, Unwritten
<1>6. ToldOK
  BY <1>4, <1>5, FS_EmptySet DEF ToldOK
<1> QED
  BY <1>1, <1>2, <1>3, <1>6 DEF QueryInv

\* A step that writes no row and books nothing.
WritesNothing ==
  /\ UNCHANGED <<trades, booked_pnl, m_pnl, unrecorded>>
  /\ \A o \in Orders : \/ order'[o] = order[o]
                       \/ /\ order[o] \notin {"booked", "done"}
                          /\ order'[o] \notin {"booked", "done"}

LEMMA QuietKeeps ==
  ASSUME WritesNothing
  PROVE  /\ Booked' = Booked
         /\ RowsOK => RowsOK'
         /\ RefusedOK => RefusedOK'
         /\ ToldOK => ToldOK'
<1>1. Booked' = Booked
  BY DEF WritesNothing, Booked
<1>2. \A o \in Orders : order[o] = "done" <=> order'[o] = "done"
  BY DEF WritesNothing
<1>3. RowsOK => RowsOK'
  BY <1>2 DEF WritesNothing, RowsOK, RowOf
<1>4. RefusedOK => RefusedOK'
  BY <1>2 DEF WritesNothing, RefusedOK
<1>5. ToldOK => ToldOK'
  BY <1>1 DEF WritesNothing, ToldOK, Total, Unwritten
<1> QED
  BY <1>1, <1>3, <1>4, <1>5

LEMMA OrderMoves ==
  ASSUME EngineOK, NEW o \in Orders, NEW from, NEW to, Becomes(o, from, to)
  PROVE  /\ order' = [order EXCEPT ![o] = to]
         /\ order[o] = from /\ order'[o] = to
         /\ \A other \in Orders \ {o} : order'[other] = order[other]
  BY DEF EngineOK, Becomes

Placing(o) == placeOrder(o) \/ accept(o) \/ orderFails(o) \/ trackOrder(o)

LEMMA PlacingIsQuiet ==
  ASSUME EngineOK, NEW o \in Orders, Placing(o)
  PROVE  /\ WritesNothing
         /\ order' \in [Orders -> OrderSteps]
         /\ UNCHANGED <<now, m_db, main, io_thread>>
<1>1. \E from \in {"none", "sent", "accepted"} :
        \E to \in {"sent", "accepted", "failed", "tracked"} : Becomes(o, from, to)
  BY DEF Placing, placeOrder, accept, orderFails, trackOrder
<1>2. UNCHANGED <<trades, booked_pnl, m_pnl, unrecorded, now, m_db, main, io_thread>>
  BY DEF Placing, placeOrder, accept, orderFails, trackOrder, recorderVars
<1> QED
  BY <1>1, <1>2, OrderMoves DEF WritesNothing, EngineOK, OrderSteps

MainStep == startWs \/ startStrategies \/ signalArrives \/ shutdown \/ tick

LEMMA MainIsQuiet ==
  ASSUME MainStep
  PROVE  WritesNothing /\ order' = order
  BY DEF MainStep, startWs, startStrategies, signalArrives, shutdown, stopDashboard, stopStrategies,
         joinStrategies, closeRecorder, stopWs, joinWs, tick, close, WritesNothing, orderVars, recorderVars

LEMMA MainKeeps ==
  ASSUME QueryInv, MainStep
  PROVE  EngineOK' /\ ClosingOK'
<1>1. WritesNothing /\ order' = order /\ Booked' = Booked /\ \A m \in Markets : Booking(m)' = Booking(m)
  BY MainIsQuiet, QuietKeeps DEF Booking
<1>2. CASE startWs
  BY <1>1, <1>2 DEF startWs, Step, QueryInv, EngineOK, ClosingOK, recorderVars, WritesNothing
<1>3. CASE startStrategies \/ signalArrives \/ stopDashboard \/ stopStrategies \/ joinStrategies
  BY <1>1, <1>3 DEF startStrategies, signalArrives, stopDashboard, stopStrategies, joinStrategies, Step,
     QueryInv, EngineOK, ClosingOK, recorderVars, WritesNothing
<1>4. CASE closeRecorder
  BY <1>1, <1>4 DEF closeRecorder, close, Step, QueryInv, EngineOK, ClosingOK, WritesNothing
<1>5. ASSUME NEW m \in Markets, stopWs(m) \/ joinWs(m)
      PROVE  EngineOK' /\ ClosingOK'
  <2>1. main = "stop_ws" /\ main' = main /\ m_db' = m_db /\ now' = now
    BY <1>5 DEF stopWs, joinWs, recorderVars
  <2>2. \E to \in {"stop", "joined"} : io_thread' = [io_thread EXCEPT ![m] = to] /\ (to = "joined" => ~Booking(m))
    BY <1>5 DEF stopWs, joinWs
  <2>3. m_db
    BY <2>1 DEF QueryInv, ClosingOK, EngineOK
  <2>4. ClosingOK'
    BY <1>1, <2>1, <2>2, <2>3 DEF QueryInv, ClosingOK, EngineOK
  <2> QED
    BY <1>1, <2>1, <2>2, <2>4 DEF QueryInv, EngineOK, WritesNothing
<1>6. CASE tick
  BY <1>1, <1>6, EngineAssumption DEF tick, QueryInv, EngineOK, ClosingOK, recorderVars, WritesNothing
<1> QED
  BY <1>2, <1>3, <1>4, <1>5, <1>6 DEF MainStep, shutdown

LEMMA PlacingKeeps ==
  ASSUME QueryInv, NEW o \in Orders, Placing(o)
  PROVE  EngineOK' /\ ClosingOK'
<1>1. WritesNothing /\ order' \in [Orders -> OrderSteps] /\ UNCHANGED <<now, m_db, main, io_thread>>
  BY PlacingIsQuiet DEF QueryInv
<1>2. \A m \in Markets : Booking(m)' => Booking(m)
  BY <1>1 DEF WritesNothing, Booking
<1> QED
  BY <1>1, <1>2 DEF QueryInv, EngineOK, ClosingOK, WritesNothing

LEMMA CompleteKeeps ==
  ASSUME QueryInv, NEW o \in Orders, completeOrder(o)
  PROVE  EngineOK' /\ RowsOK' /\ ClosingOK'
<1> USE DEF completeOrder, recorderVars
<1>1. order' = [order EXCEPT ![o] = "booked"] /\ order[o] = "tracked"
  BY DEF Becomes
<1>2. PICK pnl \in Pnls : booked_pnl' = [booked_pnl EXCEPT ![o] = pnl] /\ m_pnl' = m_pnl + pnl
  OBVIOUS
<1>3. EngineOK'
  BY <1>1, <1>2, EngineAssumption DEF QueryInv, EngineOK, OrderSteps
<1>4. RowsOK'
  BY <1>1 DEF QueryInv, EngineOK, RowsOK, RowOf
<1>5. MarketOf[o] \in Markets /\ io_thread[MarketOf[o]] # "joined"
  BY EngineAssumption
<1>6. \A m \in Markets \ {MarketOf[o]} : Booking(m)' => Booking(m)
  BY <1>1 DEF QueryInv, EngineOK, Booking
<1>7. ClosingOK'
  BY <1>5, <1>6 DEF QueryInv, EngineOK, ClosingOK
<1> QED
  BY <1>3, <1>4, <1>7

LEMMA EngineSums ==
  ASSUME QueryInv, RefusedOK
  PROVE  Total(trades) \in Int /\ Unwritten(unrecorded, booked_pnl) \in Int
<1>1. IsFiniteSet(trades) /\ \A row \in trades : [r \in trades |-> r.pnl][row] \in Int
  BY DEF QueryInv, RowsOK
<1>2. IsFiniteSet(unrecorded) /\ \A u \in unrecorded : [v \in unrecorded |-> booked_pnl[v[1]]][u] \in Int
  BY DEF RefusedOK, QueryInv, EngineOK
<1> QED
  BY <1>1, <1>2, SumOfMore DEF Total, Unwritten

LEMMA CompleteTells ==
  ASSUME QueryInv, RefusedOK, ToldOK, NEW o \in Orders, completeOrder(o)
  PROVE  RefusedOK' /\ ToldOK'
<1> USE DEF completeOrder, recorderVars
<1>1. order' = [order EXCEPT ![o] = "booked"] /\ order[o] = "tracked" /\ UNCHANGED <<trades, unrecorded>>
  BY DEF Becomes
<1>2. PICK pnl \in Pnls : booked_pnl' = [booked_pnl EXCEPT ![o] = pnl] /\ m_pnl' = m_pnl + pnl
  OBVIOUS
<1>3. RefusedOK'
  BY <1>1 DEF QueryInv, EngineOK, RefusedOK
<1>4. Booked' = Booked \cup {o} /\ o \notin Booked
  BY <1>1 DEF QueryInv, EngineOK, Booked
<1>5. pnl \in Int /\ booked_pnl'[o] = pnl /\ \A x \in Booked : booked_pnl[x] \in Int /\ booked_pnl'[x] = booked_pnl[x]
  BY <1>2, <1>4, EngineAssumption DEF QueryInv, EngineOK, Booked
<1>6. /\ SumFunctionOnSet(booked_pnl, Booked) \in Int
      /\ SumFunctionOnSet(booked_pnl', Booked \cup {o}) = SumFunctionOnSet(booked_pnl, Booked) + pnl
  <2>1. IsFiniteSet(Booked) BY DEF ToldOK
  <2>2. o \notin Booked BY <1>4
  <2>3. booked_pnl'[o] \in Int BY <1>5
  <2>4. \A x \in Booked : booked_pnl[x] \in Int /\ booked_pnl'[x] = booked_pnl[x] BY <1>5
  <2>5. /\ SumFunctionOnSet(booked_pnl, Booked) \in Int
        /\ SumFunctionOnSet(booked_pnl', Booked \cup {o}) = SumFunctionOnSet(booked_pnl, Booked) + booked_pnl'[o]
    BY ONLY <2>1, <2>2, <2>3, <2>4, SumOfAdded
  <2> QED BY <2>5, <1>5
<1>7. Unwritten(unrecorded, booked_pnl') = Unwritten(unrecorded, booked_pnl)
  <2>1. \A u \in unrecorded : u[1] \in Orders /\ u[1] # o
    BY <1>1 DEF RefusedOK
  <2>2. \A u \in unrecorded : booked_pnl'[u[1]] = booked_pnl[u[1]]
    BY <1>2, <2>1 DEF QueryInv, EngineOK
  <2> QED
    BY <2>2, SumOfSame DEF RefusedOK, Unwritten
<1>8. IsFiniteSet(Booked')
  BY <1>4, FS_AddElement DEF ToldOK
<1>9. Total(trades) \in Int /\ Unwritten(unrecorded, booked_pnl) \in Int
  BY EngineSums
<1>10. m_pnl' = m_pnl + pnl /\ m_pnl = Total(trades) + Unwritten(unrecorded, booked_pnl) + SumFunctionOnSet(booked_pnl, Booked)
  BY <1>2 DEF ToldOK
<1>11. Total(trades') + Unwritten(unrecorded', booked_pnl') + SumFunctionOnSet(booked_pnl', Booked') = m_pnl'
  BY ONLY <1>1, <1>4, <1>5, <1>6, <1>7, <1>9, <1>10
<1> QED
  BY <1>3, <1>8, <1>11 DEF ToldOK, Total, Unwritten

LEMMA RecordMoves ==
  ASSUME QueryInv, NEW o \in Orders, recordOrder(o)
  PROVE  /\ order' = [order EXCEPT ![o] = "done"] /\ order[o] = "booked" /\ order'[o] = "done"
         /\ \A other \in Orders \ {o} : order'[other] = order[other]
         /\ UNCHANGED <<now, main, io_thread, booked_pnl, m_pnl, m_db>>
         /\ m_db
         /\ \E row : /\ row.order_id = OrderId[o] /\ row.strategy_name = StrategyOf[o]
                     /\ row.timestamp = now /\ row.pnl = booked_pnl[o]
                     /\ \/ /\ ~Duplicate(row) /\ trades' = trades \cup {row}
                           /\ unrecorded' = unrecorded
                        \/ /\ trades' = trades
                           /\ unrecorded' = unrecorded \cup {<<o, "TradeRecorderInsertFailed">>}
                        \/ /\ trades' = trades /\ Duplicate(row)
<1> DEFINE row == [order_id |-> OrderId[o], timestamp |-> now, symbol |-> "BTC_USDT",
                   strategy_name |-> StrategyOf[o], pnl |-> booked_pnl[o]]
<1>1. /\ order' = [order EXCEPT ![o] = "done"] /\ order[o] = "booked" /\ order'[o] = "done"
      /\ \A other \in Orders \ {o} : order'[other] = order[other]
  BY OrderMoves DEF recordOrder, QueryInv
<1>2. MarketOf[o] \in Markets /\ Booking(MarketOf[o])
  BY <1>1, EngineAssumption DEF Booking
<1>3. m_db
  BY <1>2 DEF QueryInv, ClosingOK
<1>4. UNCHANGED <<now, main, io_thread, booked_pnl, m_pnl, m_db>>
  BY DEF recordOrder, recordTrade
<1>5. PICK outcome \in Outcomes(row) :
        /\ recordTrade(row, outcome)
        /\ unrecorded' = IF outcome = "Ok" THEN unrecorded ELSE unrecorded \cup {<<o, outcome>>}
  BY DEF recordOrder
<1>6. /\ row.order_id = OrderId[o] /\ row.strategy_name = StrategyOf[o]
      /\ row.timestamp = now /\ row.pnl = booked_pnl[o]
  OBVIOUS
<1> HIDE DEF row
<1>7. CASE Duplicate(row)
  BY <1>1, <1>3, <1>4, <1>5, <1>6, <1>7 DEF recordTrade, Outcomes
<1>8. CASE ~Duplicate(row)
  BY <1>1, <1>3, <1>4, <1>5, <1>6, <1>8 DEF recordTrade, Outcomes
<1> QED
  BY <1>7, <1>8

LEMMA RecordKeeps ==
  ASSUME QueryInv, NEW o \in Orders, recordOrder(o)
  PROVE  EngineOK' /\ RowsOK' /\ ClosingOK'
<1>1. /\ order' = [order EXCEPT ![o] = "done"] /\ order[o] = "booked" /\ order'[o] = "done"
      /\ \A other \in Orders \ {o} : order'[other] = order[other]
      /\ UNCHANGED <<now, main, io_thread, booked_pnl, m_pnl, m_db>>
  BY RecordMoves
<1>2. PICK row : /\ row.order_id = OrderId[o] /\ row.strategy_name = StrategyOf[o]
                 /\ row.timestamp = now /\ row.pnl = booked_pnl[o]
                 /\ trades' \in {trades, trades \cup {row}}
  BY RecordMoves
<1>3. EngineOK'
  BY <1>1 DEF QueryInv, EngineOK, OrderSteps
<1>4. IsFiniteSet(trades')
  BY <1>2, FS_AddElement DEF QueryInv, RowsOK
<1>5. \A old \in trades : \E done \in Orders : RowOf(old, done)'
  BY <1>1 DEF QueryInv, RowsOK, RowOf
<1>6. RowOf(row, o)'
  BY <1>1, <1>2 DEF RowOf
<1>7. row.pnl \in Int /\ row.timestamp \in 1 .. MaxTime
  BY <1>2 DEF QueryInv, EngineOK
<1>8. RowsOK'
  BY <1>2, <1>4, <1>5, <1>6, <1>7 DEF QueryInv, RowsOK
<1>9. ClosingOK'
  BY <1>1 DEF QueryInv, ClosingOK, Booking
<1> QED
  BY <1>3, <1>8, <1>9

\* No two orders share an id.
UniqueIds == \A one, other \in Orders : OrderId[one] = OrderId[other] => one = other

LEMMA RecordTells ==
  ASSUME UniqueIds, QueryInv, RefusedOK, ToldOK, NEW o \in Orders, recordOrder(o)
  PROVE  RefusedOK' /\ ToldOK'
<1>1. /\ order' = [order EXCEPT ![o] = "done"] /\ order[o] = "booked" /\ order'[o] = "done"
      /\ \A other \in Orders \ {o} : order'[other] = order[other]
      /\ UNCHANGED <<booked_pnl, m_pnl>>
  BY RecordMoves
<1>2. PICK row : /\ row.order_id = OrderId[o] /\ row.pnl = booked_pnl[o]
                 /\ \/ /\ ~Duplicate(row) /\ trades' = trades \cup {row}
                       /\ unrecorded' = unrecorded
                    \/ /\ trades' = trades
                       /\ unrecorded' = unrecorded \cup {<<o, "TradeRecorderInsertFailed">>}
                    \/ /\ trades' = trades /\ Duplicate(row)
  BY RecordMoves
<1>3. ~Duplicate(row)
  BY <1>1, <1>2 DEF Duplicate, QueryInv, RowsOK, RowOf, UniqueIds
<1>4. RefusedOK'
  <2>1. IsFiniteSet(unrecorded')
    <3>1. IsFiniteSet(unrecorded) /\ IsFiniteSet(unrecorded \cup {<<o, "TradeRecorderInsertFailed">>})
      BY FS_AddElement DEF RefusedOK
    <3>2. \/ unrecorded' = unrecorded
          \/ unrecorded' = unrecorded \cup {<<o, "TradeRecorderInsertFailed">>}
      BY <1>2, <1>3
    <3> QED
      BY ONLY <3>1, <3>2
  <2>2. \A u \in unrecorded' : \E done \in Orders : order'[done] = "done" /\ u = <<done, "TradeRecorderInsertFailed">>
    BY <1>1, <1>2, <1>3 DEF RefusedOK
  <2> QED
    BY <2>1, <2>2 DEF RefusedOK
<1>5. Booked' = Booked \ {o} /\ o \in Booked
  BY <1>1 DEF Booked
<1>6. IsFiniteSet(Booked) /\ IsFiniteSet(Booked') /\ \A x \in Booked : booked_pnl[x] \in Int
  BY <1>5, FS_Subset DEF ToldOK, Booked, QueryInv, EngineOK
<1>7. /\ SumFunctionOnSet(booked_pnl, Booked) = SumFunctionOnSet(booked_pnl, Booked') + booked_pnl[o]
      /\ SumFunctionOnSet(booked_pnl, Booked') \in Int /\ booked_pnl[o] \in Int
  <2>1. \A x \in Booked' : booked_pnl[x] \in Int BY <1>5, <1>6
  <2>2. SumFunctionOnSet(booked_pnl, Booked') \in Int BY <1>6, <2>1, SumOfMore
  <2>3. SumFunctionOnSet(booked_pnl, Booked) = SumFunctionOnSet(booked_pnl, Booked \ {o}) + booked_pnl[o]
    BY <1>5, <1>6, SumOfMore
  <2> QED BY <1>5, <1>6, <2>2, <2>3
<1>8. Total(trades) \in Int /\ Unwritten(unrecorded, booked_pnl) \in Int
  BY EngineSums
<1>9. \/ /\ Total(trades') = Total(trades) + booked_pnl[o]
         /\ Unwritten(unrecorded', booked_pnl) = Unwritten(unrecorded, booked_pnl)
      \/ /\ Total(trades') = Total(trades)
         /\ Unwritten(unrecorded', booked_pnl) = Unwritten(unrecorded, booked_pnl) + booked_pnl[o]
  <2>1. CASE trades' = trades \cup {row} /\ unrecorded' = unrecorded
    <3> DEFINE f == [r \in trades |-> r.pnl]
               e == [r \in trades \cup {row} |-> r.pnl]
    <3>1. IsFiniteSet(trades) BY DEF QueryInv, RowsOK
    <3>2. row \notin trades BY <1>3 DEF Duplicate
    <3>3. \A x \in trades : f[x] \in Int /\ e[x] = f[x] BY DEF QueryInv, RowsOK
    <3>4. e[row] = booked_pnl[o] BY <1>2
    <3>5. e[row] \in Int BY <3>4, <1>7
    <3> HIDE DEF f, e
    <3>6. SumFunctionOnSet(e, trades \cup {row}) = SumFunctionOnSet(f, trades) + e[row]
      BY ONLY <3>1, <3>2, <3>3, <3>5, SumOfAdded
    <3> QED
      BY <2>1, <3>4, <3>6 DEF Total, f, e
  <2>2. CASE trades' = trades /\ unrecorded' = unrecorded \cup {<<o, "TradeRecorderInsertFailed">>}
    <3> DEFINE u0 == <<o, "TradeRecorderInsertFailed">>
               f == [u \in unrecorded |-> booked_pnl[u[1]]]
               e == [u \in unrecorded \cup {u0} |-> booked_pnl[u[1]]]
    <3>1. IsFiniteSet(unrecorded) BY DEF RefusedOK
    <3>2. u0 \notin unrecorded BY <1>1 DEF RefusedOK
    <3>3. \A x \in unrecorded : f[x] \in Int /\ e[x] = f[x] BY DEF RefusedOK, QueryInv, EngineOK
    <3>4. e[u0] = booked_pnl[o] OBVIOUS
    <3>5. e[u0] \in Int BY <3>4, <1>7
    <3> HIDE DEF f, e, u0
    <3>6. SumFunctionOnSet(e, unrecorded \cup {u0}) = SumFunctionOnSet(f, unrecorded) + e[u0]
      BY ONLY <3>1, <3>2, <3>3, <3>5, SumOfAdded
    <3> QED
      BY <2>2, <3>4, <3>6 DEF Unwritten, f, e, u0
  <2> QED
    BY <1>2, <1>3, <2>1, <2>2
<1>10. m_pnl = Total(trades) + Unwritten(unrecorded, booked_pnl) + SumFunctionOnSet(booked_pnl, Booked)
  BY DEF ToldOK
<1>11. Total(trades') + Unwritten(unrecorded', booked_pnl) + SumFunctionOnSet(booked_pnl, Booked') = m_pnl
  BY ONLY <1>7, <1>8, <1>9, <1>10
<1> QED
  BY <1>1, <1>4, <1>6, <1>11 DEF ToldOK, Total, Unwritten

LEMMA EngineKeeps == QueryInv /\ [EngineNext]_engineVars => QueryInv'
<1> SUFFICES ASSUME QueryInv, [EngineNext]_engineVars PROVE QueryInv'
  OBVIOUS
<1>1. ASSUME NEW o \in Orders, Placing(o)
      PROVE  QueryInv'
  BY <1>1, PlacingKeeps, PlacingIsQuiet, QuietKeeps DEF QueryInv
<1>2. ASSUME NEW o \in Orders, completeOrder(o)
      PROVE  QueryInv'
  BY <1>2, CompleteKeeps DEF QueryInv
<1>3. ASSUME NEW o \in Orders, recordOrder(o)
      PROVE  QueryInv'
  BY <1>3, RecordKeeps DEF QueryInv
<1>4. CASE MainStep
  BY <1>4, MainKeeps, MainIsQuiet, QuietKeeps DEF QueryInv
<1>5. CASE UNCHANGED engineVars
  BY <1>5 DEF engineVars, recorderVars, orderVars, QueryInv, EngineOK, RowsOK, RowOf, ClosingOK, Booking
<1> QED
  BY <1>1, <1>2, <1>3, <1>4, <1>5 DEF EngineNext, MainStep, Placing

LEMMA EngineInvariant == EngineSpec => []QueryInv
  BY EngineStarts, EngineKeeps, PTL DEF EngineSpec

LEMMA EngineTells ==
  ASSUME UniqueIds
  PROVE  QueryInv /\ RefusedOK /\ ToldOK /\ [EngineNext]_engineVars => (RefusedOK /\ ToldOK)'
<1> SUFFICES ASSUME QueryInv, RefusedOK, ToldOK, [EngineNext]_engineVars PROVE (RefusedOK /\ ToldOK)'
  OBVIOUS
<1>1. ASSUME NEW o \in Orders, Placing(o)
      PROVE  (RefusedOK /\ ToldOK)'
  BY <1>1, PlacingIsQuiet, QuietKeeps DEF QueryInv
<1>2. ASSUME NEW o \in Orders, completeOrder(o)
      PROVE  (RefusedOK /\ ToldOK)'
  BY <1>2, CompleteTells
<1>3. ASSUME NEW o \in Orders, recordOrder(o)
      PROVE  (RefusedOK /\ ToldOK)'
  BY <1>3, RecordTells
<1>4. CASE MainStep
  BY <1>4, MainIsQuiet, QuietKeeps
<1>5. CASE UNCHANGED engineVars
  BY <1>5 DEF engineVars, recorderVars, orderVars, RefusedOK, ToldOK, Total, Unwritten, Booked
<1> QED
  BY <1>1, <1>2, <1>3, <1>4, <1>5 DEF EngineNext, MainStep, Placing

\* The rows and the refused writes make up what the guard was told, and no write is refused
\* because the database was closed or has the row: the completion handler, recordTrade and the
\* order in which main stops its parts, when orders have ids of their own.
THEOREM RecordsAreComplete ==
  ASSUME UniqueIds
  PROVE  EngineSpec => []RecordsMatchTheGuard
<1>1. QueryInv /\ RefusedOK /\ ToldOK => RecordsMatchTheGuard
  <2> SUFFICES ASSUME QueryInv, RefusedOK, ToldOK PROVE RecordsMatchTheGuard
    OBVIOUS
  <2>1. \A u \in unrecorded : u[2] = "TradeRecorderInsertFailed"
    BY DEF RefusedOK
  <2>2. ASSUME \A o \in Orders : order[o] # "booked"
        PROVE  Total(trades) + Unwritten(unrecorded, booked_pnl) = m_pnl
    <3>1. Booked = {}
      BY <2>2 DEF Booked
    <3>2. SumFunctionOnSet(booked_pnl, Booked) = 0
      BY <3>1, SumOfNone
    <3>3. Total(trades) + Unwritten(unrecorded, booked_pnl) \in Int
      BY EngineSums
    <3> QED
      BY <3>2, <3>3 DEF ToldOK
  <2> QED
    BY <2>1, <2>2 DEF RecordsMatchTheGuard, Unwritten
<1>2. EngineInit => RefusedOK /\ ToldOK
  BY EngineStarts
<1> QED
  BY <1>1, <1>2, EngineInvariant, EngineTells, PTL DEF EngineSpec

-----------------------------------------------------------------------------
(* The questions                                                           *)

\* The sum of some of the rows, as a sum of one function for all of them.
LEMMA TotalOfSome ==
  ASSUME NEW R, IsFiniteSet(R), NEW some \in SUBSET R
  PROVE  Total(some) = SumFunctionOnSet([row \in R |-> row.pnl], some)
<1>1. IsFiniteSet(some) /\ \A row \in some : [r \in some |-> r.pnl][row] = [r \in R |-> r.pnl][row]
  BY FS_Subset
<1> QED
  BY <1>1, SumOfSame DEF Total

\* Rows that are divided into parts, whose totals are given by a function of the part.
LEMMA TotalByParts ==
  ASSUME NEW R, IsFiniteSet(R), \A row \in R : row.pnl \in Int,
         NEW S, IsFiniteSet(S), NEW g \in [R -> S],
         NEW f, f = [c \in S |-> Total({row \in R : g[row] = c})]
  PROVE  SumFunctionOnSet(f, S) = Total(R)
<1> DEFINE pnl == [row \in R |-> row.pnl]
           sums == [c \in S |-> SumFunctionOnSet(pnl, {row \in R : g[row] = c})]
<1>1. f = sums
  BY TotalOfSome
<1>2. Total(R) = SumFunctionOnSet(pnl, R)
  BY TotalOfSome
<1>3. \A row \in R : pnl[row] \in Int
  OBVIOUS
<1> HIDE DEF pnl
<1>4. SumFunctionOnSet(sums, S) = SumFunctionOnSet(pnl, R)
  BY <1>3, SumByParts
<1> QED
  BY <1>1, <1>2, <1>4

\* The day a time is in starts at the multiple of the day before it.
LEMMA DayOfTime ==
  ASSUME NEW t \in 1 .. MaxTime, NEW day \in Nat
  PROVE  /\ t \div kNsPerDay \in 0 .. MaxTime \div kNsPerDay
         /\ ((day * kNsPerDay) \div kNsPerDay) * kNsPerDay = day * kNsPerDay
         /\ (day * kNsPerDay <= t /\ t < day * kNsPerDay + kNsPerDay)
              <=> t \div kNsPerDay = day
<1> DEFINE k == kNsPerDay
           q == t \div k
           last == MaxTime \div k
<1>1. k \in Nat \ {0} /\ MaxTime \in Nat
  BY RecorderAssumption, EngineAssumption
<1> HIDE DEF k
<1>2. q \in Nat /\ last \in Nat /\ q * k <= t /\ t < q * k + k /\ MaxTime < last * k + k
  BY <1>1
<1>3. (day * k) \div k = day
  BY <1>1
<1> HIDE DEF q, last
<1>4. ASSUME NEW a \in Nat, NEW b \in Nat, a * k < b * k + k
      PROVE  a <= b
  <2> SUFFICES ASSUME a >= b + 1 PROVE FALSE
    BY <1>4
  <2> DEFINE x == a - b - 1
  <2>1. x \in Nat /\ a = b + 1 + x
    OBVIOUS
  <2> HIDE DEF x
  <2>2. a * k = b * k + k + x * k /\ x * k \in Nat /\ b * k \in Nat
    BY <1>1, <2>1
  <2> QED
    BY <1>1, <1>4, <2>2
<1>5. q * k \in Nat /\ day * k \in Nat /\ last * k \in Nat
  BY <1>1, <1>2
<1>6. q <= last
  BY <1>1, <1>2, <1>4, <1>5
<1>7. day * k <= t /\ t < day * k + k => q <= day /\ day <= q
  <2> SUFFICES ASSUME day * k <= t, t < day * k + k PROVE q <= day /\ day <= q
    OBVIOUS
  <2>1. q * k < day * k + k /\ day * k < q * k + k
    BY <1>1, <1>2, <1>5
  <2> QED
    BY <1>2, <1>4, <2>1
<1>8. q = day => day * k <= t /\ t < day * k + k
  BY <1>2
<1> QED
  BY <1>2, <1>3, <1>6, <1>7, <1>8 DEF k, q, last

\* The days and the strategies each divide the P&L of the summary among them, and the summary
\* counts the trades of its window: getTrades, getSummary, getDailyPnl and getTradesByStrategy,
\* for every length of a day, any times and any trades recorded.
THEOREM QuestionsAgree == EngineSpec => []QueriesAgree
<1>1. ASSUME QueryInv
      PROVE  QueriesAgree
  <2> DEFINE starts == {day * kNsPerDay : day \in 0 .. MaxTime \div kNsPerDay}
             names == {StrategyOf[o] : o \in Orders}
  <2>1. IsFiniteSet(trades) /\ \A row \in trades : row.pnl \in Int /\ row.timestamp \in 1 .. MaxTime
    BY <1>1 DEF QueryInv, RowsOK
  <2>2. \A from_ns, to_ns \in Limits :
          getSummary(from_ns, to_ns).tradeCount = Cardinality(getTrades("", from_ns, to_ns))
    BY DEF getSummary, getTrades
  <2>3. getSummary(0, 0).total_pnl = Total(trades)
    <3>1. {row \in trades : InWindow(row, 0, 0)} = trades
      BY DEF InWindow
    <3> QED
      BY <3>1 DEF getSummary
  <2>4. SumFunctionOnSet([s \in starts |-> getDailyPnl(s)], starts) = Total(trades)
    <3> DEFINE g == [row \in trades |-> (row.timestamp \div kNsPerDay) * kNsPerDay]
               f == [s \in starts |-> getDailyPnl(s)]
    <3>1. IsFiniteSet(starts)
      <4> DEFINE D == 0 .. MaxTime \div kNsPerDay
                 h == [day \in D |-> day * kNsPerDay]
      <4>1. IsFiniteSet(D)
        BY FS_Interval, RecorderAssumption, EngineAssumption
      <4>2. h \in Surjection(D, starts)
        BY DEF Surjection
      <4> QED
        BY <4>1, <4>2, FS_Surjection
    <3>2. \A row \in trades : row.timestamp \div kNsPerDay \in 0 .. MaxTime \div kNsPerDay
      BY <2>1, DayOfTime
    <3>3. g \in [trades -> starts]
      BY <3>2
    <3>4. \A s \in starts : {row \in trades : InDay(row, s)} = {row \in trades : g[row] = s}
      <4> TAKE s \in starts
      <4>1. PICK day \in 0 .. MaxTime \div kNsPerDay : s = day * kNsPerDay
        OBVIOUS
      <4>2. kNsPerDay \in Nat \ {0} /\ day \in Nat
        BY RecorderAssumption
      <4>3. ASSUME NEW row \in trades
            PROVE  InDay(row, s) <=> row.timestamp \div kNsPerDay = day
        BY <2>1, <4>1, <4>2, DayOfTime DEF InDay
      <4>4. ASSUME NEW row \in trades
            PROVE  g[row] = s <=> row.timestamp \div kNsPerDay = day
        <5> DEFINE q == row.timestamp \div kNsPerDay
        <5>1. q \in Nat
          BY <2>1, <4>2, DayOfTime
        <5> HIDE DEF q
        <5>2. q * kNsPerDay = day * kNsPerDay => q = day
          BY <4>2, <5>1
        <5> QED
          BY <4>1, <5>2 DEF q
      <4> QED
        BY <4>3, <4>4
    <3>5. f = [s \in starts |-> Total({row \in trades : g[row] = s})]
      BY <3>4 DEF getDailyPnl
    <3> HIDE DEF starts, g, f
    <3>6. SumFunctionOnSet(f, starts) = Total(trades)
      BY <2>1, <3>1, <3>3, <3>5, TotalByParts
    <3> QED
      BY <3>6 DEF f
  <2>5. SumFunctionOnSet([s \in names |-> Total(getTradesByStrategy(s))], names) = Total(trades)
    <3> DEFINE g == [row \in trades |-> row.strategy_name]
               f == [s \in names |-> Total(getTradesByStrategy(s))]
    <3>1. IsFiniteSet(names)
      BY EngineAssumption
    <3>2. g \in [trades -> names]
      BY <1>1 DEF QueryInv, RowsOK, RowOf
    <3>3. \A s \in names : getTradesByStrategy(s) = {row \in trades : g[row] = s}
      BY DEF getTradesByStrategy
    <3>4. f = [s \in names |-> Total({row \in trades : g[row] = s})]
      BY <3>3
    <3> HIDE DEF names, g, f
    <3>5. SumFunctionOnSet(f, names) = Total(trades)
      BY <2>1, <3>1, <3>2, <3>4, TotalByParts
    <3> QED
      BY <3>5 DEF f
  <2> QED
    BY <2>2, <2>3, <2>4, <2>5 DEF QueriesAgree
<1> QED
  BY <1>1, EngineInvariant, PTL
===============================================================================
