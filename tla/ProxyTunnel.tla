------------------------------ MODULE ProxyTunnel ------------------------------
(***************************************************************************)
(* The tunnel of the WebSocket client through an HTTP proxy                *)
(* (src/exchange/ProxyTunnel.cpp): a thread accepts local connections, one *)
(* thread at a time asks the proxy for a connection to the exchange, and   *)
(* two more relay the bytes, one for each direction.  stop closes and      *)
(* joins what it finds.                                                    *)
(***************************************************************************)
EXTENDS FiniteSets

CONSTANTS
  Connections,   \* the local connections a client makes, each once
  ProxyAnswers,  \* whether the proxy always answers a CONNECT in the end
  ExchangeEnds   \* whether the exchange always ends a connection in the end

VARIABLES
  m_running,
  acceptor,            \* "open" or "closed"
  accepting,           \* the accept thread: "select", "join" or "ended"
  handler,             \* connection -> "new", "waiting" or "accepted"; the step of
                       \* handleConnection: "started", "resolving", "connecting", "asking",
                       \* "granted", "relaying"; "served" or "failed" when it has returned
  m_connectionThread,  \* the connection whose handler this thread runs, or NoConnection
  m_connectingSock,    \* the connection whose socket to the proxy this is, or NoConnection
  m_relays,            \* the connections in m_relaySockets and m_relayThreads
  local,               \* connection -> whether its socket to the client is open
  remote,              \* connection -> whether its socket to the proxy is open
  up,                  \* connection -> the relay to the exchange: "none", "runs", "ended"
  down,                \* connection -> the relay to the client
  stopping             \* stop: "no", "accept", "close", "unlocked", "join", "connecting",
                       \* "handler", "done"

sockets == <<local, remote>>
relayThreads == <<up, down>>
handlerVars == <<handler, m_connectingSock, m_relays>>
tunnelVars == <<m_running, acceptor, accepting, m_connectionThread, handlerVars, sockets,
                relayThreads, stopping>>

NoConnection == "none"

\* The tunnel after start.
TunnelInit ==
  /\ m_running = TRUE
  /\ acceptor = "open" /\ accepting = "select"
  /\ handler = [c \in Connections |-> "new"]
  /\ m_connectionThread = NoConnection /\ m_connectingSock = NoConnection
  /\ m_relays = {}
  /\ local = [c \in Connections |-> FALSE] /\ remote = local
  /\ up = [c \in Connections |-> "none"] /\ down = up
  /\ stopping = "no"

Handles(c, from, to) == handler[c] = from /\ handler' = [handler EXCEPT ![c] = to]

-----------------------------------------------------------------------------
(* The accept thread                                                       *)

\* The client connects; the connection waits to be accepted.
clientConnects(c) ==
  /\ acceptor = "open"
  /\ Handles(c, "new", "waiting")
  /\ local' = [local EXCEPT ![c] = TRUE]
  /\ UNCHANGED <<m_running, acceptor, accepting, m_connectionThread, m_connectingSock, m_relays,
                 remote, relayThreads, stopping>>

accepts(c) ==
  /\ accepting = "select" /\ m_running /\ acceptor = "open"
  /\ Handles(c, "waiting", "accepted")
  /\ accepting' = "join"
  /\ UNCHANGED <<m_running, acceptor, m_connectionThread, m_connectingSock, m_relays, sockets,
                 relayThreads, stopping>>

HandlerReturned == \A c \in Connections : c = m_connectionThread => handler[c] \in {"served", "failed"}

\* The handler before this one has to end; no accept comes in between.
startsHandler(c) ==
  /\ accepting = "join"
  /\ HandlerReturned
  /\ Handles(c, "accepted", "started")
  /\ m_connectionThread' = c
  /\ accepting' = "select"
  /\ UNCHANGED <<m_running, acceptor, m_connectingSock, m_relays, sockets, relayThreads, stopping>>

\* The loop's condition, or the exception of a closed acceptor.
leavesAccept ==
  /\ accepting = "select" /\ ~m_running
  /\ accepting' = "ended"
  /\ UNCHANGED <<m_running, acceptor, m_connectionThread, handlerVars, sockets, relayThreads, stopping>>

acceptThread == leavesAccept \/ \E c \in Connections : accepts(c) \/ startsHandler(c)

-----------------------------------------------------------------------------
(* handleConnection                                                        *)

\* stop holds m_relayMutex while it joins the relays.
MutexFree == stopping # "join"

\* The socket for stop to find, not open yet; that of a handler that failed goes.
tracksSocket(c) ==
  /\ MutexFree
  /\ Handles(c, "started", "resolving")
  /\ m_connectingSock' = c
  /\ remote' = [d \in Connections |-> remote[d] /\ d # m_connectingSock]
  /\ UNCHANGED <<m_running, acceptor, accepting, m_connectionThread, m_relays, local,
                 relayThreads, stopping>>

\* An exception, or a refusal: handleConnection returns.  Its socket to the proxy is
\* closed with it unless m_connectingSock keeps it.
fails(c, from) ==
  /\ Handles(c, from, "failed")
  /\ local' = [local EXCEPT ![c] = FALSE]
  /\ remote' = [remote EXCEPT ![c] = @ /\ m_connectingSock = c]
  /\ UNCHANGED <<m_running, acceptor, accepting, m_connectionThread, m_connectingSock, m_relays,
                 relayThreads, stopping>>

\* asio::connect opens the socket, whether or not stop has closed it before.
opensSocket(c) ==
  /\ Handles(c, "resolving", "connecting")
  /\ remote' = [remote EXCEPT ![c] = TRUE]
  /\ UNCHANGED <<m_running, acceptor, accepting, m_connectionThread, m_connectingSock, m_relays,
                 local, relayThreads, stopping>>

\* The connection to the proxy is there; the request is written if the socket is still open.
asks(c) ==
  /\ remote[c]
  /\ Handles(c, "connecting", "asking")
  /\ UNCHANGED <<m_running, acceptor, accepting, m_connectionThread, m_connectingSock, m_relays,
                 sockets, relayThreads, stopping>>

\* The proxy connects us to the exchange, or refuses, or goes away.  The read that waits
\* for it gets the answer also on a socket stop has closed meanwhile.
proxyAnswers(c) ==
  \/ fails(c, "asking")
  \/ /\ Handles(c, "asking", "granted")
     /\ UNCHANGED <<m_running, acceptor, accepting, m_connectionThread, m_connectingSock, m_relays,
                    sockets, relayThreads, stopping>>

\* The close of stop may wake the thread that reads from the socket; it need not, there
\* is no shutdown before it.
connectAborts(c) == ~remote[c] /\ fails(c, "asking")

startsRelays(c) ==
  /\ MutexFree
  /\ Handles(c, "granted", "relaying")
  /\ m_connectingSock' = NoConnection
  /\ up' = [up EXCEPT ![c] = "runs"] /\ down' = [down EXCEPT ![c] = "runs"]
  /\ UNCHANGED <<m_running, acceptor, accepting, m_connectionThread, m_relays, sockets, stopping>>

registersRelays(c) ==
  /\ MutexFree
  /\ Handles(c, "relaying", "served")
  /\ m_relays' = m_relays \cup {c}
  /\ UNCHANGED <<m_running, acceptor, accepting, m_connectionThread, m_connectingSock, sockets,
                 relayThreads, stopping>>

\* The name is resolved and the proxy's host connected, or not, in the time these take.
handleConnection ==
  \E c \in Connections :
    \/ tracksSocket(c) \/ opensSocket(c) \/ fails(c, "resolving") \/ asks(c) \/ fails(c, "connecting")
    \/ startsRelays(c) \/ registersRelays(c)

-----------------------------------------------------------------------------
(* The relays, and the ends they connect                                   *)

clientCloses(c) ==
  /\ local[c] /\ local' = [local EXCEPT ![c] = FALSE]
  /\ UNCHANGED <<m_running, acceptor, accepting, m_connectionThread, handlerVars, remote,
                 relayThreads, stopping>>

exchangeCloses(c) ==
  /\ remote[c] /\ handler[c] \in {"granted", "relaying", "served"}
  /\ remote' = [remote EXCEPT ![c] = FALSE]
  /\ UNCHANGED <<m_running, acceptor, accepting, m_connectionThread, handlerVars, local,
                 relayThreads, stopping>>

\* A relay ends when its source is closed.
relaysUp(c) ==
  /\ up[c] = "runs" /\ ~local[c]
  /\ up' = [up EXCEPT ![c] = "ended"]
  /\ UNCHANGED <<m_running, acceptor, accepting, m_connectionThread, handlerVars, sockets, down, stopping>>

\* A fault: the sockets are left to the destructor.
relaysDown_ClosesNothing(c) ==
  /\ down[c] = "runs" /\ ~remote[c]
  /\ down' = [down EXCEPT ![c] = "ended"]
  /\ UNCHANGED <<m_running, acceptor, accepting, m_connectionThread, handlerVars, sockets, up, stopping>>

\* The one to the client closes both sockets, which ends the other.
relaysDown(c) ==
  /\ down[c] = "runs" /\ ~remote[c]
  /\ down' = [down EXCEPT ![c] = "ended"]
  /\ local' = [local EXCEPT ![c] = FALSE]
  /\ UNCHANGED <<m_running, acceptor, accepting, m_connectionThread, handlerVars, remote, up, stopping>>

\* Bytes of the exchange for a client that has gone.
writeFails(c) ==
  /\ down[c] = "runs" /\ remote[c] /\ ~local[c]
  /\ down' = [down EXCEPT ![c] = "ended"]
  /\ remote' = [remote EXCEPT ![c] = FALSE]
  /\ UNCHANGED <<m_running, acceptor, accepting, m_connectionThread, handlerVars, local, up, stopping>>

relayData == \E c \in Connections : relaysUp(c) \/ relaysDown(c)

-----------------------------------------------------------------------------
(* stop                                                                    *)

stopBegins ==
  /\ stopping = "no" /\ stopping' = "accept"
  /\ m_running' = FALSE
  /\ acceptor' = "closed"
  /\ UNCHANGED <<accepting, m_connectionThread, handlerVars, sockets, relayThreads>>

joinsAccept ==
  /\ stopping = "accept" /\ accepting = "ended" /\ stopping' = "close"
  /\ UNCHANGED <<m_running, acceptor, accepting, m_connectionThread, handlerVars, sockets, relayThreads>>

closesRelays ==
  /\ stopping = "close" /\ stopping' = "unlocked"
  /\ local' = [c \in Connections |-> local[c] /\ c \notin m_relays]
  /\ remote' = [c \in Connections |-> remote[c] /\ c \notin m_relays]
  /\ UNCHANGED <<m_running, acceptor, accepting, m_connectionThread, handlerVars, relayThreads>>

\* The mutex again, to join what is registered by now.
locksRelays ==
  /\ stopping = "unlocked" /\ stopping' = "join"
  /\ UNCHANGED <<m_running, acceptor, accepting, m_connectionThread, handlerVars, sockets, relayThreads>>

joinsRelays ==
  /\ stopping = "join" /\ stopping' = "connecting"
  /\ \A c \in m_relays : up[c] = "ended" /\ down[c] = "ended"
  /\ m_relays' = {}
  /\ UNCHANGED <<m_running, acceptor, accepting, m_connectionThread, handler, m_connectingSock,
                 sockets, relayThreads>>

closesConnecting ==
  /\ stopping = "connecting" /\ stopping' = "handler"
  /\ remote' = [c \in Connections |-> remote[c] /\ c # m_connectingSock]
  /\ m_connectingSock' = NoConnection
  /\ UNCHANGED <<m_running, acceptor, accepting, m_connectionThread, handler, m_relays, local, relayThreads>>

joinsHandler ==
  /\ stopping = "handler" /\ stopping' = "done"
  /\ HandlerReturned
  /\ UNCHANGED <<m_running, acceptor, accepting, m_connectionThread, handlerVars, sockets, relayThreads>>

stop == joinsAccept \/ closesRelays \/ locksRelays \/ joinsRelays \/ closesConnecting \/ joinsHandler

TunnelNext ==
  \/ acceptThread \/ handleConnection \/ relayData \/ stopBegins \/ stop
  \/ \E c \in Connections :
       clientConnects(c) \/ proxyAnswers(c) \/ connectAborts(c) \/ clientCloses(c)
         \/ exchangeCloses(c) \/ writeFails(c)

TunnelSpec ==
  /\ TunnelInit /\ [][TunnelNext]_tunnelVars
  /\ WF_tunnelVars(acceptThread) /\ WF_tunnelVars(handleConnection) /\ WF_tunnelVars(relayData)
  /\ WF_tunnelVars(stop)
  /\ ProxyAnswers => WF_tunnelVars(\E c \in Connections : proxyAnswers(c))
  /\ ExchangeEnds => WF_tunnelVars(\E c \in Connections : exchangeCloses(c))

-----------------------------------------------------------------------------
(* Properties                                                              *)

\* stop returns, whatever threads it meets in whatever step: each thread it joins waits on
\* a socket that is closed by then or, if the peers end what they began, on a peer, and
\* never on the mutex stop holds (ProxyTunnel::stop).
TunnelStops == stopping = "accept" ~> stopping = "done"

\* "Internal relay threads are tracked and joined in stop()" (ProxyTunnel.hpp:17).
RelaysAreJoined == stopping = "done" => \A c \in Connections : "runs" \notin {up[c], down[c]}
=============================================================================
