---------------------------- MODULE OrderPipeline ----------------------------
(***************************************************************************)
(* The way of an order through the application (apps/pulsetrader/main.cpp, *)
(* sections 10 and 11): a signal is evaluated and its budget reserved, the *)
(* order is placed over REST and tracked, and the completion handler books *)
(* the fill in the position ledger.  It composes RiskManager::evaluateOrder,*)
(* OrderExecutor::placeOrder and the retry loop of GateRestClient::request *)
(* with the modules PositionManager and OrderTracker.                      *)
(*                                                                         *)
(* Signals arrive one at a time (the aggregator holds its mutex during the *)
(* output callback), so there is one placer.  The completion handler runs  *)
(* on whatever thread of the tracker learned of the completion, without a  *)
(* lock of its own: handlers of two orders interleave with each other and  *)
(* with the placer between any two calls.                                  *)
(***************************************************************************)
EXTENDS OrderTracker

CONSTANTS
  SignalPrices,         \* the prices signals quote
  maxPositionNotional,  \* the limits of the ledger
  maxSymbolNotional,
  maxOpenPositions,
  maxRetries,           \* how often a failed request is sent again
  MaxIds                \* bound of a run: ids the ledger hands out of each kind

ASSUME PipelineAssumption ==
  /\ SignalPrices \subseteq Nat
  /\ maxPositionNotional \in Nat \ {0}
  /\ maxSymbolNotional \in Nat \ {0}
  /\ maxOpenPositions \in Nat \ {0}
  /\ maxRetries \in Nat
  /\ MaxIds \in Nat

VARIABLES
  m_positions, m_nextPositionId, m_pendingReservations, m_nextReservationId,
  order_reservations,  \* order id -> the reservation its completion consumes
  placer,              \* the order being placed
  handler              \* thread -> where its completion handler is

Ledger == INSTANCE PositionManager WITH Prices <- SignalPrices \cup FillPrices

ledger == <<m_positions, m_nextPositionId, m_pendingReservations, m_nextReservationId>>
pipelineVars == <<trackerVars, ledger, order_reservations, placer, handler>>

\* step: what the placer does next; order 0 and reservation 0 stand for none.
Placing == [step : {"idle", "submit", "cancel", "store", "track"},
            symbol : Symbols, side : Sides, quantity : Nat, contract_size : Nat,
            reservation : Nat, order : OrderIds \cup {0}, attempt : Nat]

NotPlacing == [step |-> "idle", order |-> 0, reservation |-> 0]

\* step: the handler consumes the reservation, books the fill, closes positions.
NotHandling == [step |-> "consume", positions |-> {}]

PipelineInit ==
  /\ TrackerInit
  /\ Ledger!LedgerInit
  /\ order_reservations = EmptyMap
  /\ placer = NotPlacing
  /\ handler = [t \in Threads |-> NotHandling]

-----------------------------------------------------------------------------
(* Placing an order                                                        *)

\* A signal passes the risk checks.  A futures order has its number of contracts
\* taken from the quantity before the checks, and only the quantity is reduced
\* when they allow less.  A signal the drawdown guard or the rate limiter stops
\* changes nothing here.
evaluateOrder(symbol, side, qty, price) ==
  LET granted == Ledger!GrantedQuantity(symbol, qty, price)
  IN  /\ placer.step = "idle"
      /\ Ledger!reserveNotional(symbol, qty, price)
      /\ placer' = IF granted = 0 THEN NotPlacing
                   ELSE [step |-> "submit", symbol |-> symbol, side |-> side,
                         quantity |-> granted,
                         contract_size |-> IF m_marketType = "Futures" THEN qty ELSE 0,
                         reservation |-> m_nextReservationId, order |-> 0, attempt |-> 1]
      /\ UNCHANGED <<trackerVars, order_reservations, handler>>

\* The size in the order's body.
SizeSent(p) == IF m_marketType = "Futures" THEN p.contract_size ELSE p.quantity

\* Fault: the order is tracked before its reservation is stored.
StepAfter_TrackFirst(step) ==
  CASE step = "submit" -> "track" [] step = "track" -> "store" [] step = "store" -> "idle"

StepAfter(step) ==
  CASE step = "submit" -> "store" [] step = "store" -> "track" [] step = "track" -> "idle"

\* The placer goes on to the next step; after the last one it is free again.
proceed ==
  placer' = IF StepAfter(placer.step) = "idle" THEN NotPlacing
            ELSE [placer EXCEPT !.step = StepAfter(placer.step)]

\* Fault: the id is not taken from the response.
placeAccepted_NoId ==
  /\ placer.step = "submit"
  /\ accept(placer.symbol, placer.side, SizeSent(placer))
  /\ placer' = [placer EXCEPT !.step = StepAfter("submit")]
  /\ UNCHANGED <<updates, tracker, threads, ledger, order_reservations, handler>>

\* The exchange accepts the order and the response arrives.
placeAccepted ==
  /\ placer.step = "submit"
  /\ accept(placer.symbol, placer.side, SizeSent(placer))
  /\ placer' = [placer EXCEPT !.step = StepAfter("submit"), !.order = NextOrderId]
  /\ UNCHANGED <<updates, tracker, threads, ledger, order_reservations, handler>>

\* A transport error, a timeout or a status of 5xx: the request is sent
\* again while attempts are left, unless the client's requests are aborted.
retryOrFail ==
  \/ /\ placer.attempt <= maxRetries
     /\ placer' = [placer EXCEPT !.attempt = @ + 1]
  \/ placer' = [placer EXCEPT !.step = "cancel"]

\* The exchange accepts the order and the response is lost or cannot be parsed.
placeUnanswered ==
  /\ placer.step = "submit"
  /\ accept(placer.symbol, placer.side, SizeSent(placer))
  /\ retryOrFail
  /\ UNCHANGED <<updates, tracker, threads, ledger, order_reservations, handler>>

\* The exchange never gets the order.
placeUndelivered ==
  /\ placer.step = "submit"
  /\ retryOrFail
  /\ UNCHANGED <<trackerVars, ledger, order_reservations, handler>>

\* The exchange refuses the order with a status that is not retried.
placeRefused ==
  /\ placer.step = "submit"
  /\ placer' = [placer EXCEPT !.step = "cancel"]
  /\ UNCHANGED <<trackerVars, ledger, order_reservations, handler>>

\* Fault: a failed order keeps its budget.
cancelFailed_Leak ==
  /\ placer.step = "cancel"
  /\ placer' = NotPlacing
  /\ UNCHANGED <<trackerVars, ledger, order_reservations, handler>>

cancelFailed ==
  /\ placer.step = "cancel"
  /\ Ledger!cancelReservation(placer.reservation)
  /\ placer' = NotPlacing
  /\ UNCHANGED <<trackerVars, order_reservations, handler>>

storeReservation ==
  /\ placer.step = "store"
  /\ order_reservations' = Insert(order_reservations, placer.order, placer.reservation)
  /\ proceed
  /\ UNCHANGED <<trackerVars, ledger, handler>>

trackPlaced ==
  /\ placer.step = "track"
  /\ trackOrder(placer.order, placer.symbol, placer.side)
  /\ proceed
  /\ UNCHANGED <<market, threads, ledger, order_reservations, handler>>

-----------------------------------------------------------------------------
(* The completion handler                                                  *)

\* The order thread t handles, and its report, which nothing changes any more.
Handled(t) == message[t].order
Report(t)  == m_completedReports[Handled(t)]

InHandler(t, step) == pc[t] = "callback" /\ handler[t].step = step

\* Under reservation_mutex: the reservation of the order is consumed.
consume(t) ==
  /\ InHandler(t, "consume")
  /\ IF Handled(t) \in DOMAIN order_reservations
     THEN /\ Ledger!consumeReservation(order_reservations[Handled(t)])
          /\ order_reservations' = Erase(order_reservations, Handled(t))
     ELSE UNCHANGED <<ledger, order_reservations>>
  /\ handler' = [handler EXCEPT ![t].step = "book"]
  /\ UNCHANGED <<trackerVars, placer>>

return(t) ==
  /\ returnFromCallback(t)
  /\ handler' = [handler EXCEPT ![t] = NotHandling]
  /\ UNCHANGED <<market, tracker, order_reservations, placer>>

\* Fault: a position is opened with what was ordered, however little of it was filled.
bookBuy_Requested(t) ==
  /\ InHandler(t, "book")
  /\ Report(t).side = "Buy"
  /\ \/ Ledger!openPosition(Report(t).symbol, exchange[Handled(t)].size, Report(t).price)
     \/ /\ Ledger!OpenRefused(Report(t).symbol, Report(t).filled * Report(t).price)
        /\ UNCHANGED ledger
  /\ return(t)

\* Fault: the handler can run again after it booked.
bookBuy_Again(t) ==
  /\ InHandler(t, "book")
  /\ Report(t).side = "Buy"
  /\ Ledger!openPosition(Report(t).symbol, Report(t).filled, Report(t).price)
  /\ UNCHANGED <<trackerVars, order_reservations, placer, handler>>

\* A buy opens a position with what was filled; a refusal is logged and forgotten.
bookBuy(t) ==
  /\ InHandler(t, "book")
  /\ Report(t).side = "Buy"
  /\ \/ Ledger!openPosition(Report(t).symbol, Report(t).filled, Report(t).price)
     \/ /\ Ledger!OpenRefused(Report(t).symbol, Report(t).filled * Report(t).price)
        /\ UNCHANGED ledger
  /\ return(t)

\* A sell takes a copy of the positions of its symbol ...
bookSell(t) ==
  /\ InHandler(t, "book")
  /\ Report(t).side = "Sell"
  /\ handler' = [handler EXCEPT ![t] =
                   [step |-> "close", positions |-> Ledger!OfSymbol(m_positions, Report(t).symbol)]]
  /\ UNCHANGED <<trackerVars, ledger, order_reservations, placer>>

\* ... and closes each of them by all it sold; one that is gone is skipped.
closeNext(t) ==
  /\ InHandler(t, "close")
  /\ \E id \in handler[t].positions :
       /\ IF id \in DOMAIN m_positions
          THEN Ledger!closePosition(id, Report(t).filled, Report(t).price)
          ELSE UNCHANGED ledger
       /\ handler' = [handler EXCEPT ![t].positions = @ \ {id}]
  /\ UNCHANGED <<trackerVars, order_reservations, placer>>

endSell(t) ==
  /\ InHandler(t, "close")
  /\ handler[t].positions = {}
  /\ return(t)
  /\ UNCHANGED ledger

completion_handler(t) == consume(t) \/ bookBuy(t) \/ bookSell(t) \/ closeNext(t) \/ endSell(t)

-----------------------------------------------------------------------------
(* The application                                                         *)

\* A step of the exchange or of a thread of the tracker.  Only tracked orders are
\* polled: the application knows of no other.
trackerStep ==
  /\ \/ advanceSome
     \/ loseUpdates
     \/ \E t \in Pollers : \E id \in DOMAIN m_trackedOrders : pollRequest(t, id)
     \/ \E t \in Pollers : pollResponse(t)
     \/ onOrderUpdate
  /\ UNCHANGED <<ledger, order_reservations, placer, handler>>

placerStep ==
  \/ placeAccepted \/ placeUnanswered \/ placeUndelivered \/ placeRefused
  \/ cancelFailed \/ storeReservation \/ trackPlaced

PipelineNext ==
  \/ \E symbol \in Symbols, side \in Sides, qty \in Quantities \ {0}, price \in SignalPrices :
       evaluateOrder(symbol, side, qty, price)
  \/ placerStep
  \/ trackerStep
  \/ \E t \in Threads : completion_handler(t)

PipelineSpec == PipelineInit /\ [][PipelineNext]_pipelineVars

\* What the threads are fair about: a placer or handler that can go on does, and
\* the client reads what was pushed.  Nothing makes the exchange end an order,
\* and nothing in the application polls.
PipelineFairness ==
  /\ WF_pipelineVars(placerStep)
  /\ WF_pipelineVars(onOrderUpdate /\ UNCHANGED <<ledger, order_reservations, placer, handler>>)
  /\ \A t \in Threads : WF_pipelineVars(completion_handler(t))

FairPipelineSpec == PipelineSpec /\ PipelineFairness

-----------------------------------------------------------------------------
(* Properties                                                              *)

PipelineTypeOK ==
  /\ DOMAIN order_reservations \subseteq DOMAIN exchange
  /\ order_reservations \in [DOMAIN order_reservations -> 1 .. MaxIds]
  /\ placer \in Placing \cup {NotPlacing}
  /\ placer.order \in DOMAIN exchange \cup {0}
  /\ handler \in [Threads -> [step : {"consume", "book", "close"}, positions : SUBSET (1 .. MaxIds)]]

\* No budget leaks: every pending reservation is held by the order being placed
\* or by one order whose completion will consume it, and no two of them hold the
\* same one, so that none is released twice.
ReservationsHaveOneOwner ==
  /\ DOMAIN m_pendingReservations \subseteq Range(order_reservations) \cup {placer.reservation}
  /\ \A o1, o2 \in DOMAIN order_reservations :
       order_reservations[o1] = order_reservations[o2] => o1 = o2
  /\ placer.step \in {"submit", "cancel", "store"} =>
       placer.reservation \notin Range(order_reservations)

\* A completed order holds a reservation only until its handler has consumed it.
\* The reservation is stored before the order is tracked, so a completion cannot
\* come too early to find it.
CompletedOrdersHoldNothing ==
  \A o \in DOMAIN m_completedReports \cap DOMAIN order_reservations :
    \E t \in Threads : InHandler(t, "consume") /\ Handled(t) = o

\* Each completed buy opens at most one position: whatever poll and update it was
\* that completed the order, the positions opened so far and the handlers still
\* to open one never exceed the buys completed.
CompletedBuys == {o \in DOMAIN m_completedReports : m_completedReports[o].side = "Buy"}

FillsAreBookedOnce ==
  m_nextPositionId + Cardinality({t \in Threads : pc[t] = "callback" /\ Report(t).side = "Buy"})
    <= Cardinality(CompletedBuys)

\* The books hold no lot that was not bought: for each symbol, the open positions
\* together are at most what the exchange filled of the buys whose handlers are
\* done.  It takes a report that is final, booked once and by its own fill,
\* whatever sells close positions between a handler's steps.
BookedBuys(symbol) ==
  {o \in CompletedBuys : /\ m_completedReports[o].symbol = symbol
                         /\ \A t \in Threads : pc[t] = "callback" => Handled(t) # o}

Filled(orders) == SumFunctionOnSet([o \in DOMAIN exchange |-> exchange[o].filled], orders)

Held(symbol) ==
  SumFunctionOnSet([id \in DOMAIN m_positions |-> m_positions[id].quantity],
                   Ledger!OfSymbol(m_positions, symbol))

PositionsAreBacked == \A symbol \in Symbols : Held(symbol) <= Filled(BookedBuys(symbol))

\* It uses the tracker as the tracker expects: it tracks an order the exchange
\* accepted, as what it is, and only once.  What is shown of TrackerSpec holds here.
ImplementsTracker == TrackerSpec

-----------------------------------------------------------------------------
(* Claims of the repository's comments and documents that the code breaks  *)

\* An approved fill is booked: openPosition() trusts the reservation.
FillIsBookable ==
  \A t \in Threads :
    (InHandler(t, "book") /\ Report(t).side = "Buy") =>
       ~ Ledger!OpenRefused(Report(t).symbol, Report(t).filled * Report(t).price)

\* The pending count stays accurate: the reservation of an order in flight is
\* pending until its own completion.
InFlightOrdersStayReserved ==
  \A o \in DOMAIN order_reservations : order_reservations[o] \in DOMAIN m_pendingReservations

\* A position is opened on a fill.
PositionsComeFromFills == \A id \in DOMAIN m_positions : m_positions[id].quantity > 0

\* A sell takes off the books what it sold: closePosition() closes a position fully
\* or partially.  Where no fill was refused and no handler runs, a symbol's
\* positions are at least its buys less its sells.
CompletedSells(symbol) ==
  {o \in DOMAIN m_completedReports : /\ m_completedReports[o].side = "Sell"
                                     /\ m_completedReports[o].symbol = symbol}

SellsCloseWhatTheySold ==
  (\A t \in Threads : pc[t] # "callback") =>
    \A symbol \in Symbols :
      Held(symbol) + Filled(CompletedSells(symbol)) >= Filled(BookedBuys(symbol))

\* An order is sent with the quantity the risk checks approved.
SentAsApproved == placer.step = "submit" => SizeSent(placer) <= placer.quantity

\* The exchange holds no order the application does not know of once placing is over.
PlacedOrdersAreKnown ==
  placer.step = "idle" =>
    DOMAIN exchange \subseteq DOMAIN m_trackedOrders \cup DOMAIN m_completedReports

\* The update that ends a tracked order completes it.
EndingUpdatesAreApplied ==
  [][(/\ updates # << >>
      /\ updates' = Tail(updates)
      /\ Head(updates).status \in EndStatus
      /\ Head(updates).order \in DOMAIN m_trackedOrders)
     => Head(updates).order \in DOMAIN m_completedReports']_pipelineVars

\* A tracked order that ended is reported, by an update or by the polling that
\* stands in for a missed one.
EndedOrdersAreReported ==
  \A o \in OrderIds :
    (o \in DOMAIN m_trackedOrders /\ exchange[o].status # "open") ~> o \in DOMAIN m_completedReports

=============================================================================
