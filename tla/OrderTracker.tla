----------------------------- MODULE OrderTracker -----------------------------
(***************************************************************************)
(* The order tracker of the execution layer (src/execution/OrderTracker):  *)
(* what it knows of the orders it tracks, and the two ways it learns of    *)
(* them, pushed updates of the private channel and polled REST responses.  *)
(*                                                                         *)
(* A thread works on one message at a time.  The tracker's lock is held    *)
(* while a message is applied, and released before the completion callback *)
(* runs, so applying and calling back are two steps, and the REST request  *)
(* of a poll is a third one before them.  The requested quantity, fees,    *)
(* timestamps and slippage are only copied into reports; they are left out.*)
(***************************************************************************)
EXTENDS Integers, FiniteSets, Sequences, Maps

CONSTANTS
  Symbols,          \* the trading pairs
  Sides,            \* the sides of orders: "Buy", "Sell" or both
  Quantities,       \* the quantities ordered and filled
  FillPrices,       \* the average prices orders are filled at
  m_marketType,     \* the market of this tracker: "Spot" or "Futures"
  Pollers,          \* the threads that call pollOrderStatus
  IoThread,         \* the thread of the WebSocket client
  EventHasResult,   \* whether the value the channel callback gets has a "result" field
  MayDisconnect,    \* whether the connection of the private channel can drop
  MaxOrders         \* bound of a run: orders the exchange accepts

ASSUME TrackerAssumption ==
  /\ Sides \subseteq {"Buy", "Sell"}
  /\ Quantities \subseteq Nat
  /\ 0 \in Quantities
  /\ \A q \in Quantities : 0 .. q \subseteq Quantities
  /\ FillPrices \subseteq Nat
  /\ m_marketType \in {"Spot", "Futures"}
  /\ IoThread \notin Pollers
  /\ EventHasResult \in BOOLEAN
  /\ MayDisconnect \in BOOLEAN
  /\ MaxOrders \in Nat

VARIABLES
  exchange,            \* the orders the exchange accepted: id -> order
  updates,             \* the updates it pushed and the client has not read yet
  m_wsSubscribed,      \* whether the private channel was subscribed
  m_trackedOrders,     \* id -> what the tracker knows of an order
  m_completedReports,  \* id -> the report of a completed order
  pc,                  \* where each thread is: "idle", "response" or "callback"
  message              \* the message a thread holds between two of its steps

market  == <<exchange, updates>>
tracker == <<m_wsSubscribed, m_trackedOrders, m_completedReports>>
threads == <<pc, message>>
trackerVars == <<market, tracker, threads>>

Threads  == Pollers \cup {IoThread}
OrderIds == 1 .. MaxOrders

\* The status strings of the exchange: a spot order ends "closed" or "cancelled",
\* a futures order "finished".
ExchangeStatus == {"open", "closed", "cancelled", "finished"}
EndStatus      == IF m_marketType = "Spot" THEN {"closed", "cancelled"} ELSE {"finished"}
OrderStatus    == {"Pending", "Open", "Filled", "Cancelled"}

Order   == [symbol : Symbols, side : Sides, size : Quantities,
            status : ExchangeStatus, filled : Quantities, price : FillPrices \cup {0}]
Tracked == [symbol : Symbols, side : Sides, status : OrderStatus,
            filled : Quantities, price : FillPrices \cup {0}]
Message == [order : OrderIds, status : ExchangeStatus,
            filled : Quantities, price : FillPrices \cup {0}]
NoMessage == [order |-> 0]

-----------------------------------------------------------------------------
(* The exchange and the private channel                                    *)

\* The exchange accepts an order and gives it the next id.
NextOrderId == Cardinality(DOMAIN exchange) + 1

accept(symbol, side, size) ==
  /\ NextOrderId \in OrderIds
  /\ exchange' = Insert(exchange, NextOrderId,
                        [symbol |-> symbol, side |-> side, size |-> size,
                         status |-> "open", filled |-> 0, price |-> 0])

\* It fills an order further or ends it, and pushes an update to a subscriber.
advance(id, status, filled, price) ==
  /\ exchange[id].status = "open"
  /\ filled \in exchange[id].filled .. exchange[id].size
  /\ status = "open" => filled > exchange[id].filled
  /\ status = "closed" => filled = exchange[id].size
  /\ exchange' = [exchange EXCEPT ![id].status = status, ![id].filled = filled, ![id].price = price]
  /\ updates' = IF m_wsSubscribed
                THEN Append(updates, [order |-> id, status |-> status,
                                      filled |-> filled, price |-> price])
                ELSE updates
  /\ UNCHANGED <<tracker, threads>>

advanceSome ==
  \E id \in DOMAIN exchange, status \in {"open"} \cup EndStatus,
     filled \in Quantities, price \in FillPrices : advance(id, status, filled, price)

\* The connection drops; what was pushed and not read is never sent again.
loseUpdates ==
  /\ MayDisconnect
  /\ updates # << >>
  /\ updates' = << >>
  /\ UNCHANGED <<exchange, tracker, threads>>

-----------------------------------------------------------------------------
(* Tracking                                                                *)

trackOrder(id, symbol, side) ==
  /\ m_wsSubscribed' = TRUE
  /\ m_trackedOrders' = Insert(m_trackedOrders, id,
                               [symbol |-> symbol, side |-> side, status |-> "Pending",
                                filled |-> 0, price |-> 0])
  /\ UNCHANGED m_completedReports

stopTracking(id) ==
  /\ m_trackedOrders' = Erase(m_trackedOrders, id)
  /\ UNCHANGED <<market, m_wsSubscribed, m_completedReports, threads>>

parseStatus(status) ==
  CASE status = "open"      -> "Open"
    [] status = "closed"    -> "Filled"
    [] status = "cancelled" -> "Cancelled"
    [] OTHER                -> "Pending"

isTerminalStatus(status) == status \in {"Filled", "Cancelled"}

StatusUpdated(entry, m) == [entry EXCEPT !.status = parseStatus(m.status)]

\* Fault: the fill details of the message are not read.
Updated_StatusOnly(entry, m) == StatusUpdated(entry, m)

Updated(entry, m) == [StatusUpdated(entry, m) EXCEPT !.filled = m.filled, !.price = m.price]

\* What the tracker makes of a message, under its lock: nothing, when the order
\* is not tracked (any more) ...
ignoreUpdate(t, m) ==
  /\ m.order \notin DOMAIN m_trackedOrders
  /\ pc' = [pc EXCEPT ![t] = "idle"]
  /\ message' = [message EXCEPT ![t] = NoMessage]
  /\ UNCHANGED tracker

\* ... an entry overwritten, whether or not the message is newer than it, its fill only
\* if the message has one.  (The messages about an ended order have.) ...
recordUpdate(t, m) ==
  /\ m.order \in DOMAIN m_trackedOrders
  /\ ~ isTerminalStatus(parseStatus(m.status))
  /\ \E entry \in {StatusUpdated(m_trackedOrders[m.order], m), Updated(m_trackedOrders[m.order], m)} :
       m_trackedOrders' = [m_trackedOrders EXCEPT ![m.order] = entry]
  /\ pc' = [pc EXCEPT ![t] = "idle"]
  /\ message' = [message EXCEPT ![t] = NoMessage]
  /\ UNCHANGED <<m_wsSubscribed, m_completedReports>>

\* Fault: a completed order stays among the tracked ones.
completeOrder_KeepsTracking(t, m) ==
  /\ m.order \in DOMAIN m_trackedOrders
  /\ isTerminalStatus(parseStatus(m.status))
  /\ m_completedReports' = Insert(m_completedReports, m.order, Updated(m_trackedOrders[m.order], m))
  /\ pc' = [pc EXCEPT ![t] = "callback"]
  /\ message' = [message EXCEPT ![t] = m]
  /\ UNCHANGED <<m_wsSubscribed, m_trackedOrders>>

\* ... or, in a terminal status, a report for the callback that follows.
completeOrder(t, m) ==
  /\ m.order \in DOMAIN m_trackedOrders
  /\ isTerminalStatus(parseStatus(m.status))
  /\ m_completedReports' = Insert(m_completedReports, m.order, Updated(m_trackedOrders[m.order], m))
  /\ m_trackedOrders' = Erase(m_trackedOrders, m.order)
  /\ pc' = [pc EXCEPT ![t] = "callback"]
  /\ message' = [message EXCEPT ![t] = m]
  /\ UNCHANGED m_wsSubscribed

processUpdate(t, m) == ignoreUpdate(t, m) \/ recordUpdate(t, m) \/ completeOrder(t, m)

\* The request of a poll is answered with the order as it is now; a request that
\* fails returns and changes nothing.
pollRequest(t, id) ==
  /\ pc[t] = "idle"
  /\ pc' = [pc EXCEPT ![t] = "response"]
  /\ message' = [message EXCEPT ![t] = [order |-> id, status |-> exchange[id].status,
                                        filled |-> exchange[id].filled, price |-> exchange[id].price]]
  /\ UNCHANGED <<market, tracker>>

pollResponse(t) ==
  /\ pc[t] = "response"
  /\ processUpdate(t, message[t])
  /\ UNCHANGED market

\* The next pushed update.  An event without a "result" field is dropped.
onOrderUpdate ==
  /\ pc[IoThread] = "idle"
  /\ updates # << >>
  /\ updates' = Tail(updates)
  /\ IF EventHasResult
     THEN processUpdate(IoThread, Head(updates))
     ELSE UNCHANGED <<tracker, threads>>
  /\ UNCHANGED exchange

\* The completion callback returns.
returnFromCallback(t) ==
  /\ pc[t] = "callback"
  /\ pc' = [pc EXCEPT ![t] = "idle"]
  /\ message' = [message EXCEPT ![t] = NoMessage]

-----------------------------------------------------------------------------
(* The tracker alone: its user places orders and tracks each of them.      *)

TrackerInit ==
  /\ exchange = EmptyMap
  /\ updates = << >>
  /\ m_wsSubscribed = FALSE
  /\ m_trackedOrders = EmptyMap
  /\ m_completedReports = EmptyMap
  /\ pc = [t \in Threads |-> "idle"]
  /\ message = [t \in Threads |-> NoMessage]

place ==
  /\ \E symbol \in Symbols, side \in Sides, size \in Quantities \ {0} : accept(symbol, side, size)
  /\ UNCHANGED <<updates, tracker, threads>>

trackSome ==
  \E id \in DOMAIN exchange \ (DOMAIN m_trackedOrders \cup DOMAIN m_completedReports) :
    /\ trackOrder(id, exchange[id].symbol, exchange[id].side)
    /\ UNCHANGED <<market, threads>>

deliver(t) == returnFromCallback(t) /\ UNCHANGED <<market, tracker>>

TrackerNext ==
  \/ place \/ advanceSome \/ loseUpdates
  \/ trackSome
  \/ \E id \in DOMAIN m_trackedOrders : stopTracking(id)
  \/ \E t \in Pollers : \E id \in DOMAIN exchange : pollRequest(t, id)
  \/ \E t \in Pollers : pollResponse(t)
  \/ onOrderUpdate
  \/ \E t \in Threads : deliver(t)

TrackerSpec == TrackerInit /\ [][TrackerNext]_trackerVars

-----------------------------------------------------------------------------
(* Properties                                                              *)

TrackerTypeOK ==
  /\ DOMAIN exchange \subseteq OrderIds
  /\ exchange \in [DOMAIN exchange -> Order]
  /\ updates \in Seq(Message)
  /\ m_wsSubscribed \in BOOLEAN
  /\ DOMAIN m_trackedOrders \subseteq DOMAIN exchange
  /\ m_trackedOrders \in [DOMAIN m_trackedOrders -> Tracked]
  /\ DOMAIN m_completedReports \subseteq DOMAIN exchange
  /\ m_completedReports \in [DOMAIN m_completedReports -> Tracked]
  /\ pc \in [Threads -> {"idle", "response", "callback"}]
  /\ message \in [Threads -> Message \cup {NoMessage}]

\* A report is the last word on its order: whatever pushed updates and polled
\* responses crossed each other, it carries the fill the exchange ended the
\* order with.
ReportIsFinal ==
  \A id \in DOMAIN m_completedReports :
    /\ exchange[id].status \in EndStatus
    /\ m_completedReports[id].status = parseStatus(exchange[id].status)
    /\ m_completedReports[id].filled = exchange[id].filled
    /\ m_completedReports[id].price = exchange[id].price

\* An order completes at most once, and its callback runs exactly once, even
\* when a poll and a pushed update both bring the news: OrderLifecycle.
Phase(id) ==
  CASE id \in DOMAIN m_completedReports -> "completed"
    [] id \in DOMAIN m_trackedOrders \ DOMAIN m_completedReports -> "tracked"
    [] OTHER -> "new"

Lifecycle == INSTANCE OrderLifecycle WITH
  Orders <- OrderIds,
  phase  <- [id \in OrderIds |-> Phase(id)],
  owed   <- {message[t].order : t \in {u \in Threads : pc[u] = "callback"}}

ImplementsLifecycle == Lifecycle!LifecycleSpec

=============================================================================
