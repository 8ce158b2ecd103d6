----------------------------- MODULE GateWsClient -----------------------------
(***************************************************************************)
(* The WebSocket client (src/exchange/GateWsClient) with its registry of   *)
(* channels (GateWsChannels): any thread subscribes and unsubscribes, one  *)
(* I/O thread connects, re-subscribes and reconnects, one thread stops it. *)
(*                                                                         *)
(* Each attempt to connect has a client object of its own; attempts, and   *)
(* the objects with them, are numbered from 1, and 0 stands for none.  A   *)
(* channel stands for its payload too, except that an Unsubscribe has an   *)
(* empty one: the registry has forgotten the channel when it is asked.     *)
(***************************************************************************)
EXTENDS Integers, Sequences

CONSTANTS
  Callers,      \* the threads that subscribe
  Channels,     \* caller -> the channels it subscribes to
  Private,      \* the channels that need authentication
  Removable,    \* the channels callers also unsubscribe from
  IO,           \* the I/O thread
  MaxCalls,     \* bound of a run: calls in all
  MaxAttempts   \* bound of a run: the last attempt opens, and stays open

AllChannels == UNION {Channels[c] : c \in Callers}

ASSUME ClientAssumption ==
  /\ IO \notin Callers
  /\ Private \subseteq AllChannels
  /\ Removable \subseteq AllChannels \ Private
  /\ MaxCalls \in Nat
  /\ MaxAttempts \in Nat \ {0}

VARIABLES
  channels,         \* the registry: channels with a callback
  pending_actions,  \* the queue of messages to send
  m_state,
  active_hdl,       \* the attempt whose connection the handle is of
  client_ptr,       \* the client object pointed to
  io_ctx_ptr,       \* the client object whose io_context is pointed to
  client,           \* the client object that exists
  io,               \* the step the I/O thread is at
  resubscribing,    \* channels on_open has yet to re-subscribe
  context_stopped,  \* the io_context was told to stop
  stop_requested,   \* the state of the I/O thread's stop token
  stopping,         \* the step stop is at
  caller,           \* caller -> the step of its call, "idle" outside calls
  calls,            \* the number of calls
  message,          \* caller -> the message of its call
  actions,          \* thread -> the messages it took from the queue
  cli,              \* caller -> the client object it sends with
  attempts,         \* the number of attempts
  server            \* the channels the exchange sends on the connection

registryVars == <<channels, pending_actions>>
pointers == <<active_hdl, client_ptr, io_ctx_ptr>>
ioVars == <<client, io, resubscribing, attempts>>
stopVars == <<context_stopped, stop_requested, stopping>>
callVars == <<caller, calls, message, cli>>
wsVars == <<registryVars, m_state, pointers, ioVars, stopVars, callVars,
            actions, server>>

Types == {"Subscribe", "SubscribePrivate", "Unsubscribe"}
Messages == [type : Types, channel : AllChannels]
NoMessage == [type |-> "None"]

WsInit ==
  /\ channels = {}
  /\ pending_actions = << >>
  /\ m_state = "Disconnected"
  /\ active_hdl = 0 /\ client_ptr = 0 /\ io_ctx_ptr = 0
  /\ client = 0 /\ attempts = 0
  /\ io = "none"
  /\ resubscribing = {}
  /\ context_stopped = FALSE /\ stop_requested = FALSE
  /\ stopping = "idle"
  /\ caller = [c \in Callers |-> "idle"]
  /\ calls = 0
  /\ message = [c \in Callers |-> NoMessage]
  /\ actions = [t \in Callers \cup {IO} |-> << >>]
  /\ cli = [c \in Callers |-> 0]
  /\ server = {}

-----------------------------------------------------------------------------
(* The exchange                                                            *)

\* The connection of the client object exists and is open.
Open == client # 0 /\ active_hdl = client

\* What the exchange sends after a message: nothing of a private channel
\* without authentication.
Answer(sent, msg) ==
  CASE msg.type = "SubscribePrivate" -> sent \cup {msg.channel}
    [] msg.type = "Subscribe" -> sent \cup ({msg.channel} \ Private)
    [] msg.type = "Unsubscribe" -> sent \ {msg.channel}

-----------------------------------------------------------------------------
(* Callers                                                                 *)

\* The registry changes first: subscribe, subscribePrivate, unsubscribe.
begin(c, type, ch, registry) ==
  /\ caller[c] = "idle"
  /\ calls < MaxCalls
  /\ channels' = registry
  /\ message' = [message EXCEPT ![c] = [type |-> type, channel |-> ch]]
  /\ calls' = calls + 1
  /\ caller' = [caller EXCEPT ![c] = "push"]
  /\ UNCHANGED <<pending_actions, m_state, pointers, ioVars, stopVars, cli,
                 actions, server>>

subscribe(c) ==
  \E ch \in Channels[c] \ Private :
    begin(c, "Subscribe", ch, channels \cup {ch})

subscribePrivate(c) ==
  \E ch \in Channels[c] \cap Private :
    begin(c, "SubscribePrivate", ch, channels \cup {ch})

unsubscribe(c) ==
  \E ch \in Channels[c] \cap Removable :
    begin(c, "Unsubscribe", ch, channels \ {ch})

\* A step of a call that moves no pointer and no I/O state.
goesOn(c, from, to) ==
  /\ caller[c] = from
  /\ caller' = [caller EXCEPT ![c] = to]
  /\ UNCHANGED <<channels, m_state, pointers, ioVars, stopVars, calls>>

push(c) ==
  /\ goesOn(c, "push", "check")
  /\ pending_actions' = Append(pending_actions, message[c])
  /\ message' = [message EXCEPT ![c] = NoMessage]
  /\ UNCHANGED <<cli, actions, server>>

\* Fault: the message is left to the I/O thread.
check_LeavesIt(c) ==
  /\ goesOn(c, "check", "idle")
  /\ UNCHANGED <<pending_actions, message, cli, actions, server>>

check(c) ==
  /\ goesOn(c, "check", IF m_state = "Connected" THEN "swap" ELSE "idle")
  /\ UNCHANGED <<pending_actions, message, cli, actions, server>>

\* sendQueued takes the whole queue, the messages of other threads as well,
\* and copies the handle and the client pointer after that.
swap(c) ==
  /\ goesOn(c, "swap", IF pending_actions = << >> THEN "idle" ELSE "capture")
  /\ actions' = [actions EXCEPT ![c] = pending_actions]
  /\ pending_actions' = << >>
  /\ UNCHANGED <<message, cli, server>>

capture(c) ==
  /\ goesOn(c, "capture", IF Open /\ client_ptr # 0 THEN "send" ELSE "requeue")
  /\ cli' = [cli EXCEPT ![c] = IF caller'[c] = "send" THEN client_ptr ELSE 0]
  /\ UNCHANGED <<pending_actions, message, actions, server>>

requeue(c) ==
  /\ goesOn(c, "requeue", "idle")
  /\ pending_actions' = pending_actions \o actions[c]
  /\ actions' = [actions EXCEPT ![c] = << >>]
  /\ UNCHANGED <<message, cli, server>>

\* One message is sent.  On a connection closed since, send throws, out of
\* subscribe, and the messages that are left go with it.
send(c) ==
  LET usable == Open /\ cli[c] = client
      rest == IF usable THEN Tail(actions[c]) ELSE << >>
  IN /\ goesOn(c, "send", IF rest = << >> THEN "idle" ELSE "send")
     /\ actions' = [actions EXCEPT ![c] = rest]
     /\ server' = IF usable THEN Answer(server, Head(actions[c])) ELSE server
     /\ cli' = [cli EXCEPT ![c] = IF rest = << >> THEN 0 ELSE @]
     /\ UNCHANGED <<pending_actions, message>>

continueCall(c) ==
  push(c) \/ check(c) \/ swap(c) \/ capture(c) \/ requeue(c) \/ send(c)

-----------------------------------------------------------------------------
(* The I/O thread                                                          *)

ioGoes(from, to) ==
  /\ io = from
  /\ io' = to
  /\ UNCHANGED <<stopVars, callVars>>

start ==
  /\ ioGoes("none", "test")
  /\ m_state' = "Disconnected"
  /\ UNCHANGED <<registryVars, pointers, client, resubscribing, attempts,
                 actions, server>>

\* The head of the reconnect loop.
test ==
  /\ ioGoes("test", IF stop_requested THEN "exit" ELSE "make")
  /\ UNCHANGED <<registryVars, m_state, pointers, client, resubscribing,
                 attempts, actions, server>>

\* A client object, and its io_context for stop to reach.
make ==
  /\ ioGoes("make", "connect")
  /\ attempts' = attempts + 1
  /\ client' = attempts'
  /\ io_ctx_ptr' = attempts'
  /\ UNCHANGED <<registryVars, m_state, active_hdl, client_ptr, resubscribing,
                 actions, server>>

\* Handlers run once client.run() does.
connect ==
  /\ ioGoes("connect", "run")
  /\ m_state' = "Connecting"
  /\ client_ptr' = client
  /\ UNCHANGED <<registryVars, active_hdl, io_ctx_ptr, client, resubscribing,
                 attempts, actions, server>>

\* get_connection refuses the first attempt: the thread gives up.
getConnectionFails ==
  /\ ioGoes("connect", "exit")
  /\ attempts = 1 /\ attempts < MaxAttempts
  /\ m_state' = "Disconnected"
  /\ client' = 0
  /\ UNCHANGED <<registryVars, pointers, resubscribing, attempts, actions, server>>

onOpen ==
  /\ ioGoes("run", "opened")
  /\ ~ context_stopped
  /\ active_hdl' = client
  /\ server' = {}
  /\ UNCHANGED <<registryVars, m_state, client_ptr, io_ctx_ptr, client,
                 resubscribing, attempts, actions>>

\* on_open goes on: the state, then the registry, then the queue.
setConnected ==
  /\ ioGoes("opened", "list")
  /\ m_state' = "Connected"
  /\ UNCHANGED <<registryVars, pointers, client, resubscribing, attempts,
                 actions, server>>

activeChannels ==
  /\ ioGoes("list", "resubscribe")
  /\ resubscribing' = channels
  /\ UNCHANGED <<registryVars, m_state, pointers, client, attempts, actions, server>>

\* Fault: on_open leaves the registry to the queue.
resubscribe_Skipped ==
  /\ ioGoes("resubscribe", "drain")
  /\ resubscribing' = {}
  /\ UNCHANGED <<registryVars, m_state, pointers, client, attempts, actions, server>>

\* A channel of the list is subscribed, without authentication.
resubscribe ==
  /\ \/ /\ resubscribing = {}
        /\ ioGoes("resubscribe", "drain")
        /\ UNCHANGED <<resubscribing, server>>
     \/ \E ch \in resubscribing :
          /\ ioGoes("resubscribe", "resubscribe")
          /\ resubscribing' = resubscribing \ {ch}
          /\ server' = Answer(server, [type |-> "Subscribe", channel |-> ch])
  /\ UNCHANGED <<registryVars, m_state, pointers, client, attempts, actions>>

drainQueue ==
  /\ ioGoes("drain", "drainSend")
  /\ actions' = [actions EXCEPT ![IO] = pending_actions]
  /\ pending_actions' = << >>
  /\ UNCHANGED <<channels, m_state, pointers, client, resubscribing, attempts, server>>

drainSend ==
  /\ \/ /\ actions[IO] = << >>
        /\ ioGoes("drainSend", "serving")
        /\ UNCHANGED <<actions, server>>
     \/ /\ actions[IO] # << >>
        /\ ioGoes("drainSend", "drainSend")
        /\ server' = Answer(server, Head(actions[IO]))
        /\ actions' = [actions EXCEPT ![IO] = Tail(@)]
  /\ UNCHANGED <<registryVars, m_state, pointers, client, resubscribing, attempts>>

\* on_close after on_open, on_fail instead of it: the handle goes under its lock.
onCloseOrFail ==
  /\ \/ ioGoes("serving", "closed")
     \/ ioGoes("run", "closed")
  /\ ~ context_stopped
  /\ attempts < MaxAttempts
  /\ active_hdl' = 0
  /\ UNCHANGED <<registryVars, m_state, client_ptr, io_ctx_ptr, client,
                 resubscribing, attempts, actions, server>>

\* A handler throws: the client object is destroyed, the pointers to it stay.
handlerThrows ==
  /\ ioGoes("serving", "thrown")
  /\ ~ context_stopped
  /\ attempts < MaxAttempts
  /\ client' = 0
  /\ UNCHANGED <<registryVars, m_state, pointers, resubscribing, attempts,
                 actions, server>>

\* Fault: the handlers end with the handle, the catch with its log line.
setDisconnected_Forgotten ==
  /\ \/ ioGoes("closed", "returned")
     \/ ioGoes("thrown", "backoff")
  /\ UNCHANGED <<registryVars, m_state, pointers, client, resubscribing, attempts,
                 actions, server>>

\* The state follows, outside the lock: client.run() returns after the
\* handler, and the catch goes on to the pause.
setDisconnected ==
  /\ \/ ioGoes("closed", "returned")
     \/ ioGoes("thrown", "backoff")
  /\ m_state' = "Disconnected"
  /\ UNCHANGED <<registryVars, pointers, client, resubscribing, attempts, actions,
                 server>>

runIsStopped ==
  /\ \/ ioGoes("serving", "returned")
     \/ ioGoes("run", "returned")
  /\ context_stopped
  /\ UNCHANGED <<registryVars, m_state, pointers, client, resubscribing,
                 attempts, actions, server>>

\* client.run() has returned.
clearPointers ==
  /\ ioGoes("returned", "leave")
  /\ client_ptr' = 0
  /\ io_ctx_ptr' = 0
  /\ UNCHANGED <<registryVars, m_state, active_hdl, client, resubscribing,
                 attempts, actions, server>>

\* The client object goes out of scope, after a pause when no stop was seen.
leave ==
  /\ ioGoes("leave", IF stop_requested THEN "exit" ELSE "backoff")
  /\ client' = 0
  /\ UNCHANGED <<registryVars, m_state, pointers, resubscribing, attempts,
                 actions, server>>

backoff ==
  /\ ioGoes("backoff", IF stop_requested THEN "exit" ELSE "test")
  /\ UNCHANGED <<registryVars, m_state, pointers, client, resubscribing,
                 attempts, actions, server>>

ioExits ==
  /\ ioGoes("exit", "done")
  /\ m_state' = "Disconnected"
  /\ UNCHANGED <<registryVars, pointers, client, resubscribing, attempts,
                 actions, server>>

\* The steps the thread takes whatever the network does.
ioGoesOn ==
  \/ test \/ make \/ connect \/ onOpen \/ setConnected \/ activeChannels
  \/ resubscribe \/ drainQueue \/ drainSend \/ setDisconnected \/ runIsStopped
  \/ clearPointers \/ leave \/ backoff \/ ioExits

runIoLoop == ioGoesOn \/ getConnectionFails \/ onCloseOrFail \/ handlerThrows

-----------------------------------------------------------------------------
(* stop, called by the thread that called start                            *)

stopGoes(from, to) ==
  /\ stopping = from
  /\ stopping' = to
  /\ UNCHANGED <<registryVars, pointers, ioVars, callVars, actions, server>>

requestStop ==
  /\ io # "none"
  /\ stopGoes("idle", "context")
  /\ stop_requested' = TRUE
  /\ UNCHANGED <<m_state, context_stopped>>

\* Without a pointer, or with one to a destroyed object, nothing is stopped.
stopContext ==
  /\ stopGoes("context", "join")
  /\ context_stopped' = (io_ctx_ptr # 0 /\ io_ctx_ptr = client)
  /\ UNCHANGED <<m_state, stop_requested>>

join ==
  /\ io = "done"
  /\ stopGoes("join", "stopped")
  /\ m_state' = "Disconnected"
  /\ UNCHANGED <<context_stopped, stop_requested>>

stop == requestStop \/ stopContext \/ join

-----------------------------------------------------------------------------

WsNext ==
  \/ start
  \/ runIoLoop
  \/ stop
  \/ \E c \in Callers :
       subscribe(c) \/ subscribePrivate(c) \/ unsubscribe(c) \/ continueCall(c)

WsSpec == WsInit /\ [][WsNext]_wsVars

\* The program starts the client; threads are scheduled; connections that are
\* neither refused nor dropped open.  What the network does has no fairness.
FairWsSpec ==
  /\ WsSpec
  /\ WF_wsVars(start)
  /\ WF_wsVars(ioGoesOn)
  /\ WF_wsVars(stopContext)
  /\ WF_wsVars(join)
  /\ \A c \in Callers : WF_wsVars(continueCall(c))

-----------------------------------------------------------------------------
(* Properties                                                              *)

Steps == {"none", "test", "make", "connect", "run", "opened", "list",
          "resubscribe", "drain", "drainSend", "serving", "closed", "thrown",
          "returned", "leave", "backoff", "exit", "done"}

\* Every variable has its type.
WsTypeOK ==
  /\ channels \subseteq AllChannels
  /\ pending_actions \in Seq(Messages)
  /\ m_state \in {"Disconnected", "Connecting", "Connected"}
  /\ {active_hdl, client_ptr, io_ctx_ptr, client} \subseteq 0..attempts
  /\ attempts \in 0..MaxAttempts
  /\ io \in Steps
  /\ resubscribing \subseteq AllChannels
  /\ context_stopped \in BOOLEAN /\ stop_requested \in BOOLEAN
  /\ stopping \in {"idle", "context", "join", "stopped"}
  /\ caller \in [Callers -> {"idle", "push", "check", "swap", "capture",
                            "requeue", "send"}]
  /\ calls \in 0..MaxCalls
  /\ message \in [Callers -> Messages \cup {NoMessage}]
  /\ actions \in [Callers \cup {IO} -> Seq(Messages)]
  /\ cli \in [Callers -> 0..attempts]
  /\ server \subseteq AllChannels

\* No call is going on, and on_open is through.
Quiet == io = "serving" /\ \A c \in Callers : caller[c] = "idle"

\* A channel nobody removes is subscribed once the connection is open and
\* nobody is in a call, whatever subscription raced on_open and the calls of
\* other threads; a private one on the first connection only.
KeptChannelsAreSent ==
  Quiet => \A ch \in channels \ Removable :
             (ch \in Private => attempts = 1) => ch \in server

\* What the state reads is the connection, except while the I/O thread is between
\* the two: on_open has set the handle and not yet the state; on_close, on_fail or
\* the exception has lost the connection and not yet stored it; a stopped thread is
\* about to exit.  A reader that finds Connected with no connection finds one of
\* these, and the state is corrected by the next step of the thread.
StateFollowsConnection ==
  /\ m_state = "Connected" /\ ~ Open => io \in {"closed", "thrown", "exit"}
  /\ m_state # "Connected" /\ Open => io = "opened"

\* A public channel that is subscribed while the client is connecting, drains
\* its queue or reconnects is in the end subscribed at the exchange.
KeptChannelsArrive ==
  \A ch \in AllChannels \ (Removable \cup Private) :
    ch \in channels ~> \/ Open /\ ch \in server
                      \/ stop_requested \/ io = "done"

\* A private channel is subscribed on every connection (GateWsClient.hpp).
PrivateChannelsAreSent ==
  Quiet => channels \cap Private \subseteq server

\* The exchange sends nothing for a channel that was unsubscribed, once nobody
\* is in a call and nothing waits to be sent.
RemovedChannelsAreSilent ==
  Quiet /\ pending_actions = << >> => server \subseteq channels

\* stop joins the I/O thread and returns.
StopReturns == stopping = "context" ~> stopping = "stopped"

\* A thread that is about to use the client object or its io_context uses one
\* that exists.
UsedObjectsExist ==
  /\ stopping = "context" => io_ctx_ptr \in {0, client}
  /\ \A c \in Callers : caller[c] = "send" => cli[c] = client

=============================================================================
