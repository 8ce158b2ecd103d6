--------------------------------- MODULE WebUi ---------------------------------
(***************************************************************************)
(* The dashboard (src/webui): a thread polls the trading state into a      *)
(* snapshot and pushes it; an event loop of its own thread serves clients  *)
(* over web sockets and answers requests; main starts and stops both.      *)
(*                                                                         *)
(* A snapshot is its number, its candle and whether it has an account; the *)
(* other panels are copied from parts that have locks of their own.  Once  *)
(* published, as an object or as JSON, it is its number.                   *)
(***************************************************************************)
EXTENDS Integers, Sequences, FiniteSets

CONSTANTS
  Clients,
  AuthToken,        \* of the configuration, "" is none
  MaxClientChoices, \* values of maxClients
  Closes,           \* prices a candle may close at
  MaxSnapshots,     \* bound of a run: snapshots published
  MaxCandles,       \* bound of a run: changes of the candle
  MaxVisits         \* bound of a run: connections of clients

ASSUME WebUiAssumption ==
  /\ MaxClientChoices \subseteq Nat \ {0}
  /\ {MaxSnapshots, MaxCandles, MaxVisits} \subseteq Nat

VARIABLES
  maxClients,        \* configured
  candle,            \* the latest of the primary symbol: its open_time and close
  changes,           \* history: changes of the candle
  poll,              \* the poll thread: "off", "sleep", "klines", "chart", "account", "publish",
                     \* "cache", "count", "send", "ended"
  due,               \* the tiers of this iteration that are left
  read,              \* the candle pollKlines has read
  m_lastKline,       \* what m_lastKlineOpenTimes and m_lastKlineClose hold, or NoCandle
  snap,              \* the snapshot the thread accumulates
  m_latestSnapshot,  \* its number, or 0
  m_lastJson,        \* the number of the snapshot it was made from, or 0
  m_clientCount,
  stop_requested,    \* of the poll thread
  loop,              \* the event thread: "off", "construct", "listen", "run", "opening", "left", "ended"
  app,               \* the uWS::App: "none", "alive" or "reset"
  m_publishFn,       \* set, with a pointer to the app and its loop
  listen_socket,
  deferred,          \* callbacks the loop will run: a snapshot to publish, or Close
  browsers,          \* the sockets that are open
  opening,           \* the socket whose open handler runs
  received,          \* client -> the number of the last snapshot its socket got
  newest,            \* history: client -> the newest it got
  visits,            \* history: connections
  owner              \* the step of main: "dashboard", "web", "wait", "up", "defer", "join", "cancel",
                     \* "finish", "down"

pollVars == <<poll, due, read, m_lastKline, snap>>
sourceVars == <<candle, changes>>
clientVars == <<browsers, opening, received, newest, visits>>
serverVars == <<loop, app, m_publishFn, listen_socket>>
webVars == <<maxClients, sourceVars, pollVars, m_latestSnapshot, m_lastJson, m_clientCount,
             stop_requested, serverVars, deferred, clientVars, owner>>

NoCandle == [open |-> 0, close |-> 0]
EmptySnapshot == [number |-> 0, chart |-> NoCandle, account |-> FALSE]
Close == 0  \* no snapshot has this number
NoClient == "none"

WebInit ==
  /\ maxClients \in MaxClientChoices
  /\ candle = NoCandle /\ changes = 0
  /\ poll = "off" /\ due = {} /\ read = NoCandle /\ m_lastKline = NoCandle
  /\ snap = EmptySnapshot
  /\ m_latestSnapshot = 0 /\ m_lastJson = 0
  /\ m_clientCount = 0
  /\ stop_requested = FALSE
  /\ loop = "off" /\ app = "none" /\ m_publishFn = FALSE /\ listen_socket = FALSE
  /\ deferred = << >>
  /\ browsers = {} /\ opening = NoClient
  /\ received = [c \in Clients |-> 0] /\ newest = received
  /\ visits = 0
  /\ owner = "dashboard"

-----------------------------------------------------------------------------
(* The poll thread                                                         *)

\* The market feed: the candle changes, or the next one begins.
candleChanges ==
  /\ changes < MaxCandles
  /\ changes' = changes + 1
  /\ \E c \in Closes : candle' \in {[candle EXCEPT !.close = c], [open |-> candle.open + 1, close |-> c]}
  /\ candle' # candle
  /\ UNCHANGED <<maxClients, pollVars, m_latestSnapshot, m_lastJson, m_clientCount,
                 stop_requested, serverVars, deferred, clientVars, owner>>

\* An iteration in which some tier is due: the fast one, which has the chart, the one of
\* the account, or (neither) one that copies the panels left out here.
wakes ==
  /\ poll = "sleep"
  /\ IF stop_requested
     THEN poll' = "ended" /\ UNCHANGED due
     ELSE /\ snap.number < MaxSnapshots
          /\ due' \in SUBSET {"fast", "account"}
          /\ poll' = "klines"
  /\ UNCHANGED <<maxClients, sourceVars, read, m_lastKline, snap, m_latestSnapshot, m_lastJson,
                 m_clientCount, stop_requested, serverVars, deferred, clientVars, owner>>

\* The latest candle is read first; it may have changed when the others are copied.
pollKlines ==
  /\ poll = "klines"
  /\ read' = candle
  /\ poll' = IF "fast" \in due /\ candle # NoCandle /\ candle # m_lastKline THEN "chart" ELSE "account"
  /\ UNCHANGED <<maxClients, sourceVars, due, m_lastKline, snap, m_latestSnapshot, m_lastJson,
                 m_clientCount, stop_requested, serverVars, deferred, clientVars, owner>>

copyKlines ==
  /\ poll = "chart"
  /\ m_lastKline' = read
  /\ snap' = [snap EXCEPT !.chart = candle]
  /\ poll' = "account"
  /\ UNCHANGED <<maxClients, sourceVars, due, read, m_latestSnapshot, m_lastJson,
                 m_clientCount, stop_requested, serverVars, deferred, clientVars, owner>>

\* The request is answered, fails, times out, or is cancelled by stop.
pollAccount ==
  /\ poll = "account"
  /\ IF "account" \in due
     THEN \E answered \in BOOLEAN : snap' = [snap EXCEPT !.account = answered]
     ELSE UNCHANGED snap
  /\ poll' = "publish"
  /\ UNCHANGED <<maxClients, sourceVars, due, read, m_lastKline, m_latestSnapshot, m_lastJson,
                 m_clientCount, stop_requested, serverVars, deferred, clientVars, owner>>

\* Stamped, and stored for those who ask; the callback runs outside of the lock.
publish ==
  /\ poll = "publish"
  /\ snap' = [snap EXCEPT !.number = @ + 1]
  /\ m_latestSnapshot' = snap'.number
  /\ poll' = "cache"
  /\ due' = {} /\ read' = NoCandle
  /\ UNCHANGED <<maxClients, sourceVars, m_lastKline, m_lastJson,
                 m_clientCount, stop_requested, serverVars, deferred, clientVars, owner>>

\* A fault: nothing is cached while there are no clients to send it to.
cachesJson_OnlyForClients ==
  /\ poll = "cache"
  /\ m_lastJson' = IF m_clientCount = 0 THEN m_lastJson ELSE snap.number
  /\ poll' = "count"
  /\ UNCHANGED <<maxClients, sourceVars, due, read, m_lastKline, snap, m_latestSnapshot,
                 m_clientCount, stop_requested, serverVars, deferred, clientVars, owner>>

\* pushSnapshot: the JSON for clients to come, before the clients there are are counted.
cachesJson ==
  /\ poll = "cache"
  /\ m_lastJson' = snap.number
  /\ poll' = "count"
  /\ UNCHANGED <<maxClients, sourceVars, due, read, m_lastKline, snap, m_latestSnapshot,
                 m_clientCount, stop_requested, serverVars, deferred, clientVars, owner>>

countsClients ==
  /\ poll = "count"
  /\ poll' = IF m_clientCount = 0 \/ ~m_publishFn THEN "sleep" ELSE "send"
  /\ UNCHANGED <<maxClients, sourceVars, due, read, m_lastKline, snap, m_latestSnapshot, m_lastJson,
                 m_clientCount, stop_requested, serverVars, deferred, clientVars, owner>>

\* m_publishFn: the loop is to publish.  With the app and its loop gone this is a use of
\* freed objects, see PublishFnIsAlive.
sends ==
  /\ poll = "send"
  /\ deferred' = IF app = "alive" THEN Append(deferred, snap.number) ELSE deferred
  /\ poll' = "sleep"
  /\ UNCHANGED <<maxClients, sourceVars, due, read, m_lastKline, snap, m_latestSnapshot, m_lastJson,
                 m_clientCount, stop_requested, serverVars, clientVars, owner>>

pollLoop == wakes \/ pollKlines \/ copyKlines \/ pollAccount \/ publish \/ cachesJson
              \/ countsClients \/ sends

-----------------------------------------------------------------------------
(* The event loop                                                          *)

\* The app, its routes and m_publishFn; construction may fail.
constructs ==
  /\ loop = "construct"
  /\ \/ app' = "alive" /\ m_publishFn' = TRUE /\ loop' = "listen" /\ UNCHANGED owner
     \/ loop' = "ended" /\ owner' = "up" /\ UNCHANGED <<app, m_publishFn>>
  /\ UNCHANGED <<maxClients, sourceVars, pollVars, m_latestSnapshot, m_lastJson, m_clientCount,
                 stop_requested, listen_socket, deferred, clientVars>>

\* The port may be taken: start returns false and the thread leaves its loop.
listens ==
  /\ loop = "listen"
  /\ \E bound \in BOOLEAN :
       /\ listen_socket' = bound
       /\ loop' = IF bound THEN "run" ELSE "left"
  /\ owner' = "up"
  /\ UNCHANGED <<maxClients, sourceVars, pollVars, m_latestSnapshot, m_lastJson, m_clientCount,
                 stop_requested, app, m_publishFn, deferred, clientVars>>

Requests ==
  [token : {"right", "wrong"}, host : {"none", "bound", "localhost", "loopback", "other"}]

validateAuth(request) == AuthToken = "" \/ request.token = AuthToken
validateHost(request) == request.host \in {"bound", "localhost", "loopback"}

\* The upgrade of a request to a web socket, and the open handler's first steps: the
\* client is counted and subscribed.
upgrade(c) ==
  /\ loop = "run" /\ listen_socket
  /\ c \notin browsers /\ visits < MaxVisits
  /\ \E request \in Requests : validateAuth(request) /\ validateHost(request)
  /\ m_clientCount < maxClients
  /\ m_clientCount' = m_clientCount + 1
  /\ browsers' = browsers \cup {c}
  /\ received' = [received EXCEPT ![c] = 0] /\ newest' = [newest EXCEPT ![c] = 0]
  /\ opening' = c
  /\ loop' = "opening"
  /\ visits' = visits + 1
  /\ UNCHANGED <<maxClients, sourceVars, pollVars, m_latestSnapshot, m_lastJson, stop_requested,
                 app, m_publishFn, listen_socket, deferred, owner>>

Sent(socks, number) ==
  /\ received' = [c \in Clients |-> IF c \in socks THEN number ELSE received[c]]
  /\ newest' = [c \in Clients |-> IF received'[c] > newest[c] THEN received'[c] ELSE newest[c]]

\* The open handler's last step: the cached snapshot, if there is one.
sendsCached ==
  /\ loop = "opening"
  /\ Sent(IF m_lastJson = 0 THEN {} ELSE {opening}, m_lastJson)
  /\ opening' = NoClient
  /\ loop' = "run"
  /\ UNCHANGED <<maxClients, sourceVars, pollVars, m_latestSnapshot, m_lastJson, m_clientCount,
                 stop_requested, app, m_publishFn, listen_socket, deferred, browsers, visits, owner>>

Closed(socks) ==
  /\ browsers' = browsers \ socks
  /\ m_clientCount' = m_clientCount - Cardinality(socks)

\* A client goes, or does not answer the pings.
closes(c) ==
  /\ loop = "run" /\ c \in browsers
  /\ Closed({c})
  /\ UNCHANGED <<maxClients, sourceVars, pollVars, m_latestSnapshot, m_lastJson, stop_requested,
                 serverVars, deferred, opening, received, newest, visits, owner>>

\* A deferred callback: a snapshot goes to every subscriber, or the app is closed.
runsDeferred ==
  /\ loop = "run" /\ deferred # << >>
  /\ deferred' = Tail(deferred)
  /\ IF Head(deferred) = Close
     THEN Closed(browsers) /\ listen_socket' = FALSE /\ UNCHANGED <<received, newest>>
     ELSE /\ Sent(browsers, Head(deferred))
          /\ UNCHANGED <<browsers, m_clientCount, listen_socket>>
  /\ UNCHANGED <<maxClients, sourceVars, pollVars, m_latestSnapshot, m_lastJson, stop_requested,
                 loop, app, m_publishFn, opening, visits, owner>>

\* Nothing is open any more: run returns.
leaves ==
  /\ loop = "run" /\ ~listen_socket /\ browsers = {}
  /\ loop' = "left"
  /\ UNCHANGED <<maxClients, sourceVars, pollVars, m_latestSnapshot, m_lastJson, m_clientCount,
                 stop_requested, app, m_publishFn, listen_socket, deferred, clientVars, owner>>

resetsApp ==
  /\ loop = "left"
  /\ app' = "reset"
  /\ loop' = "ended"
  /\ UNCHANGED <<maxClients, sourceVars, pollVars, m_latestSnapshot, m_lastJson, m_clientCount,
                 stop_requested, m_publishFn, listen_socket, deferred, clientVars, owner>>

eventLoop == constructs \/ listens \/ sendsCached \/ runsDeferred \/ leaves \/ resetsApp

-----------------------------------------------------------------------------
(* The thread that starts and stops both                                   *)

startDashboard ==
  /\ owner = "dashboard" /\ owner' = "web"
  /\ poll' = "sleep"
  /\ UNCHANGED <<maxClients, sourceVars, due, read, m_lastKline, snap, m_latestSnapshot, m_lastJson,
                 m_clientCount, stop_requested, serverVars, deferred, clientVars>>

\* The thread of the loop reports when it listens, or cannot.
startWeb ==
  /\ owner = "web" /\ owner' = "wait"
  /\ loop' = "construct"
  /\ UNCHANGED <<maxClients, sourceVars, pollVars, m_latestSnapshot, m_lastJson, m_clientCount,
                 stop_requested, app, m_publishFn, listen_socket, deferred, clientVars>>

\* WebServer::stop: the listen socket is closed from here, everything else by the loop.
closesListenSocket ==
  /\ owner = "up" /\ owner' = "defer"
  /\ listen_socket' = FALSE
  /\ UNCHANGED <<maxClients, sourceVars, pollVars, m_latestSnapshot, m_lastJson, m_clientCount,
                 stop_requested, loop, app, m_publishFn, deferred, clientVars>>

\* A fault: only the listen socket is closed, and clients stay connected.
defersClose_Never ==
  /\ owner = "defer" /\ owner' = "join"
  /\ UNCHANGED <<maxClients, sourceVars, pollVars, m_latestSnapshot, m_lastJson, m_clientCount,
                 stop_requested, serverVars, deferred, clientVars>>

defersClose ==
  /\ owner = "defer" /\ owner' = "join"
  /\ deferred' = IF app = "alive" THEN Append(deferred, Close) ELSE deferred
  /\ UNCHANGED <<maxClients, sourceVars, pollVars, m_latestSnapshot, m_lastJson, m_clientCount,
                 stop_requested, serverVars, clientVars>>

joinsLoop ==
  /\ owner = "join" /\ loop = "ended" /\ owner' = "cancel"
  /\ UNCHANGED <<maxClients, sourceVars, pollVars, m_latestSnapshot, m_lastJson, m_clientCount,
                 stop_requested, serverVars, deferred, clientVars>>

\* DashboardState::stop
stopsPolling ==
  /\ owner = "cancel" /\ owner' = "finish"
  /\ stop_requested' = TRUE
  /\ UNCHANGED <<maxClients, sourceVars, pollVars, m_latestSnapshot, m_lastJson, m_clientCount,
                 serverVars, deferred, clientVars>>

joinsPoll ==
  /\ owner = "finish" /\ poll = "ended" /\ owner' = "down"
  /\ UNCHANGED <<maxClients, sourceVars, pollVars, m_latestSnapshot, m_lastJson, m_clientCount,
                 stop_requested, serverVars, deferred, clientVars>>

mainThread == startDashboard \/ startWeb \/ defersClose \/ joinsLoop \/ stopsPolling \/ joinsPoll

WebNext ==
  \/ pollLoop \/ eventLoop \/ mainThread
  \/ closesListenSocket \* upon a signal
  \/ candleChanges
  \/ \E c \in Clients : upgrade(c) \/ closes(c)

\* Every thread runs; clients and the market need not do anything.  That a request to the
\* exchange ends is its time limit, which the configuration has above 0.
WebSpec ==
  /\ WebInit /\ [][WebNext]_webVars
  /\ WF_webVars(pollLoop) /\ WF_webVars(eventLoop) /\ WF_webVars(mainThread)

-----------------------------------------------------------------------------
(* Properties                                                              *)

\* No client misses a snapshot that stays the latest: when the poll thread sleeps, no open
\* handler runs and nothing is deferred, every connected client has got it, whether it came
\* before, while or after the thread cached it (pushSnapshot, the open handler).
ClientsGetTheLatest ==
  poll = "sleep" /\ loop = "run" /\ deferred = << >> =>
    \A c \in browsers : newest[c] = m_latestSnapshot

\* The application stops: the loop ends with clients still connected, and the poll thread
\* in whatever it does (WebServer::stop, DashboardState::stop).
StopEnds == owner = "defer" ~> owner = "down"

\* "Capture raw pointer to app; safe because Impl outlives the server"
\* (WebServer.cpp:145): what m_publishFn points to exists when it is called.
PublishFnIsAlive == poll = "send" => app = "alive"

\* "We track both to keep the chart live" (DashboardState.cpp:271): what was recorded as
\* shown is shown.
ChartIsLive == poll = "publish" /\ "fast" \in due /\ read = candle => snap.chart = candle

\* A client sees no older snapshot after a newer one.
ClientsGoForward ==
  [][\A c \in browsers \cap browsers' : opening' # c => received'[c] >= received[c]]_webVars
=============================================================================
