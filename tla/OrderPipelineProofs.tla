-------------------------- MODULE OrderPipelineProofs -------------------------
(***************************************************************************)
(* The theorems of the order tracker and of the application around it.     *)
(*                                                                         *)
(* The tracker, for any number of orders, threads, symbols, quantities and *)
(* prices, in both markets.  The application drives the tracker and the    *)
(* ledger only in ways their specifications allow, so that what is proved  *)
(* of them holds of it, and no reservation is lost or released twice on    *)
(* the way.                                                                *)
(***************************************************************************)
EXTENDS OrderPipeline, Facts, SequenceTheorems

LedgerProofs == INSTANCE PositionManagerProofs WITH Prices <- SignalPrices \cup FillPrices

-----------------------------------------------------------------------------
(* The tracker                                                             *)

-----------------------------------------------------------------------------
(* The inductive invariant                                                 *)

\* A message says nothing of its order that the exchange has taken back: the
\* order exists, and if the message ends it, it ended exactly so.
Current(orders, m) ==
  /\ m.order \in DOMAIN orders
  /\ m.status \in {"open"} \cup EndStatus
  /\ m.status # "open" => /\ orders[m.order].status = m.status
                          /\ orders[m.order].filled = m.filled
                          /\ orders[m.order].price = m.price

\* The exchange numbers its orders, and ends them as its market does.
ExchangeOK ==
  /\ DOMAIN exchange \subseteq OrderIds
  /\ exchange \in [DOMAIN exchange -> Order]
  /\ \E n \in 0 .. MaxOrders : DOMAIN exchange = 1 .. n
  /\ \A id \in DOMAIN exchange : exchange[id].status \in {"open"} \cup EndStatus

ChannelOK ==
  /\ updates \in Seq(Message)
  /\ \A i \in 1 .. Len(updates) : Current(exchange, updates[i])

\* An order is tracked or completed, never both.
TablesOK ==
  /\ m_wsSubscribed \in BOOLEAN
  /\ DOMAIN m_trackedOrders \subseteq DOMAIN exchange
  /\ m_trackedOrders \in [DOMAIN m_trackedOrders -> Tracked]
  /\ DOMAIN m_completedReports \subseteq DOMAIN exchange
  /\ m_completedReports \in [DOMAIN m_completedReports -> Tracked]
  /\ DOMAIN m_trackedOrders \cap DOMAIN m_completedReports = {}
  /\ ReportIsFinal

\* What a thread holds is current, and no two run the callback of one order.
ThreadsOK ==
  /\ pc \in [Threads -> {"idle", "response", "callback"}]
  /\ message \in [Threads -> Message \cup {NoMessage}]
  /\ \A t \in Threads : pc[t] # "idle" => message[t] \in Message /\ Current(exchange, message[t])
  /\ \A t \in Threads : pc[t] = "callback" => message[t].order \in DOMAIN m_completedReports
  /\ \A t, u \in Threads :
       pc[t] = "callback" /\ pc[u] = "callback" /\ message[t].order = message[u].order => t = u

TrackerInv == ExchangeOK /\ ChannelOK /\ TablesOK /\ ThreadsOK

-----------------------------------------------------------------------------
(* The exchange                                                            *)

\* What the exchange may do to its orders: add some, change open ones.
Moves(old, new) ==
  /\ DOMAIN old \subseteq DOMAIN new
  /\ \A id \in DOMAIN old : old[id].status # "open" => new[id] = old[id]

\* "open" is not one of the ways an order ends, in either market.
LEMMA EndStatuses == "open" \notin EndStatus /\ EndStatus \subseteq ExchangeStatus
  BY TrackerAssumption DEF EndStatus, ExchangeStatus

\* A message stays current: the exchange takes nothing back.
LEMMA CurrentStays ==
  ASSUME NEW old, NEW new, NEW m, Moves(old, new), Current(old, m)
  PROVE  Current(new, m)
  BY EndStatuses DEF Moves, Current

\* The next order number is one past the last.
LEMMA NumberedDomain ==
  ASSUME NEW n \in Nat, NEW S, S = 1 .. n
  PROVE  Cardinality(S) = n
  BY FS_Interval

\* Nothing but the exchange's step has to be looked at when only it moves.
LEMMA ExchangeStep ==
  ASSUME TrackerInv, Moves(exchange, exchange'), ExchangeOK', ChannelOK',
         UNCHANGED <<tracker, threads>>
  PROVE  TrackerInv'
<1> USE DEF TrackerInv
<1>1. TablesOK'
  <2>1. DOMAIN m_trackedOrders \subseteq DOMAIN exchange' /\ DOMAIN m_completedReports \subseteq DOMAIN exchange'
    BY DEF TablesOK, Moves
  <2>2. ReportIsFinal'
    BY EndStatuses DEF TablesOK, ReportIsFinal, Moves, tracker
  <2> QED
    BY <2>1, <2>2 DEF TablesOK, tracker
<1>2. ThreadsOK'
  <2>1. \A t \in Threads : pc[t] # "idle" => Current(exchange', message[t])
    BY CurrentStays DEF ThreadsOK
  <2> QED
    BY <2>1 DEF ThreadsOK, threads, tracker
<1> QED
  BY <1>1, <1>2

\* An accepted order joins the others with the next number.
LEMMA AcceptStep ==
  ASSUME TrackerInv,
         NEW symbol \in Symbols, NEW side \in Sides, NEW size \in Quantities,
         accept(symbol, side, size)
  PROVE  ExchangeOK' /\ Moves(exchange, exchange')
<1> DEFINE order == [symbol |-> symbol, side |-> side, size |-> size,
                     status |-> "open", filled |-> 0, price |-> 0]
<1>1. PICK n \in 0 .. MaxOrders : DOMAIN exchange = 1 .. n
  BY DEF TrackerInv, ExchangeOK
<1>2. n \in Nat /\ MaxOrders \in Nat
  BY <1>1, TrackerAssumption
<1>3. NextOrderId = n + 1
  BY <1>1, <1>2, NumberedDomain DEF NextOrderId
<1>4. n + 1 \in OrderIds /\ exchange' = Insert(exchange, n + 1, order)
  BY <1>3 DEF accept
<1>5. order \in Order
  BY TrackerAssumption DEF Order, ExchangeStatus
<1>6. order.status = "open"
  OBVIOUS
<1> HIDE DEF order
<1>7. DOMAIN exchange' = 1 .. (n + 1)
  <2>1. DOMAIN exchange' = DOMAIN exchange \cup {n + 1}
    BY <1>4, InsertDomain
  <2> QED
    BY <2>1, <1>1, <1>2
<1>8. exchange' \in [DOMAIN exchange \cup {n + 1} -> Order]
  BY <1>4, <1>5, InsertType DEF TrackerInv, ExchangeOK
<1>9. \A id \in DOMAIN exchange : exchange'[id] = exchange[id]
  BY <1>1, <1>2, <1>4, InsertOther
<1>10. exchange'[n + 1] = order
  BY <1>4, InsertKey
<1>11. n + 1 \in 0 .. MaxOrders
  BY <1>2, <1>4 DEF OrderIds
<1>12. DOMAIN exchange' \subseteq OrderIds
  BY <1>7, <1>2, <1>11 DEF OrderIds
<1>13. \A id \in DOMAIN exchange' : exchange'[id].status \in {"open"} \cup EndStatus
  <2> TAKE id \in DOMAIN exchange'
  <2>1. id \in DOMAIN exchange \/ id = n + 1
    BY <1>7, <1>1, <1>2
  <2> QED
    BY <2>1, <1>9, <1>10, <1>6 DEF TrackerInv, ExchangeOK
<1>14. exchange' \in [DOMAIN exchange' -> Order]
  BY <1>8
<1>15. ExchangeOK'
  BY <1>7, <1>11, <1>12, <1>13, <1>14 DEF ExchangeOK
<1>16. Moves(exchange, exchange')
  BY <1>7, <1>1, <1>2, <1>9 DEF Moves
<1> QED
  BY <1>15, <1>16

\* A message reporting the change is current when it arrives.
LEMMA AdvanceStep ==
  ASSUME TrackerInv, advanceSome
  PROVE  TrackerInv'
<1>1. PICK id \in DOMAIN exchange, status \in {"open"} \cup EndStatus,
           filled \in Quantities, price \in FillPrices : advance(id, status, filled, price)
  BY DEF advanceSome
<1> DEFINE m == [order |-> id, status |-> status, filled |-> filled, price |-> price]
<1>2. exchange[id] \in Order /\ id \in OrderIds /\ exchange[id].status = "open"
  BY <1>1 DEF TrackerInv, ExchangeOK, advance
<1>3. exchange' = [exchange EXCEPT ![id].status = status, ![id].filled = filled, ![id].price = price]
  BY <1>1 DEF advance
<1>4. DOMAIN exchange' = DOMAIN exchange
  BY <1>3
<1>5. /\ exchange'[id].status = status
      /\ exchange'[id].filled = filled
      /\ exchange'[id].price = price
      /\ exchange'[id] \in Order
  BY <1>2, <1>3, EndStatuses DEF Order, ExchangeStatus, TrackerInv, ExchangeOK
<1>6. \A i \in DOMAIN exchange : i # id => exchange'[i] = exchange[i]
  BY <1>3
<1>7. Moves(exchange, exchange')
  BY <1>2, <1>4, <1>6 DEF Moves
<1>8. ExchangeOK'
  <2>1. exchange' \in [DOMAIN exchange -> Order]
    BY <1>3, <1>4, <1>5, <1>6 DEF TrackerInv, ExchangeOK
  <2>2. \A i \in DOMAIN exchange : exchange'[i].status \in {"open"} \cup EndStatus
    BY <1>5, <1>6 DEF TrackerInv, ExchangeOK
  <2> QED
    BY <1>4, <2>1, <2>2 DEF TrackerInv, ExchangeOK
<1>9. m \in Message /\ Current(exchange', m)
  BY <1>2, <1>4, <1>5, EndStatuses DEF Message, Current, ExchangeStatus
<1> HIDE DEF m
<1>10. \A i \in 1 .. Len(updates) : Current(exchange', updates[i])
  BY <1>7, CurrentStays DEF TrackerInv, ChannelOK
<1>11. ChannelOK'
  <2>1. CASE updates' = updates
    BY <2>1, <1>10 DEF TrackerInv, ChannelOK
  <2>2. CASE updates' = Append(updates, m)
    <3>1. updates \in Seq(Message)
      BY DEF TrackerInv, ChannelOK
    <3>2. updates' \in Seq(Message) /\ Len(updates') = Len(updates) + 1
      BY <2>2, <3>1, <1>9, AppendProperties
    <3>3. \A i \in 1 .. Len(updates) : updates'[i] = updates[i]
      BY <2>2, <3>1, <1>9, AppendProperties
    <3>4. updates'[Len(updates) + 1] = m
      BY <2>2, <3>1, <1>9, AppendProperties
    <3>5. Len(updates) \in Nat
      BY <3>1, LenProperties
    <3>6. \A i \in 1 .. Len(updates') : Current(exchange', updates'[i])
      <4> TAKE i \in 1 .. Len(updates')
      <4>1. i \in 1 .. Len(updates) \/ i = Len(updates) + 1
        BY <3>2, <3>5
      <4> QED
        BY <4>1, <3>3, <3>4, <1>9, <1>10
    <3> QED
      BY <3>2, <3>6 DEF ChannelOK
  <2> QED
    BY <1>1, <2>1, <2>2 DEF advance, m
<1>12. UNCHANGED <<tracker, threads>>
  BY <1>1 DEF advance
<1> QED
  BY <1>7, <1>8, <1>11, <1>12, ExchangeStep

-----------------------------------------------------------------------------
(* Applying messages                                                       *)

\* An applied message leaves an entry of the tracker's type.
LEMMA UpdatedEntry ==
  ASSUME NEW entry \in Tracked, NEW m \in Message
  PROVE  /\ StatusUpdated(entry, m) \in Tracked
         /\ Updated(entry, m) \in Tracked
         /\ Updated(entry, m).status = parseStatus(m.status)
         /\ Updated(entry, m).filled = m.filled
         /\ Updated(entry, m).price = m.price
<1>1. parseStatus(m.status) \in OrderStatus
  BY DEF Message, ExchangeStatus, parseStatus, OrderStatus
<1> QED
  BY <1>1 DEF Updated, StatusUpdated, Tracked, Message

\* Only a message that ends its order completes it.
LEMMA TerminalMessage ==
  ASSUME NEW m, NEW orders, Current(orders, m), isTerminalStatus(parseStatus(m.status))
  PROVE  m.status # "open" /\ m.status \in EndStatus
  BY DEF Current, isTerminalStatus, parseStatus

\* A thread that becomes idle disturbs no other.
LEMMA IdleStep ==
  ASSUME ThreadsOK, NEW t \in Threads,
         pc' = [pc EXCEPT ![t] = "idle"], message' = [message EXCEPT ![t] = NoMessage],
         DOMAIN m_completedReports \subseteq DOMAIN m_completedReports',
         exchange' = exchange
  PROVE  ThreadsOK'
<1>1. /\ pc' \in [Threads -> {"idle", "response", "callback"}]
      /\ message' \in [Threads -> Message \cup {NoMessage}]
  BY DEF ThreadsOK
<1>2. \A u \in Threads : pc'[u] # "idle" => u # t /\ pc'[u] = pc[u] /\ message'[u] = message[u]
  BY DEF ThreadsOK
<1> QED
  BY <1>1, <1>2 DEF ThreadsOK

\* A message about an unknown order changes nothing.
LEMMA IgnoreStep ==
  ASSUME TrackerInv, NEW t \in Threads, NEW m, ignoreUpdate(t, m), exchange' = exchange
  PROVE  TablesOK' /\ ThreadsOK'
<1>1. ThreadsOK'
  BY IdleStep DEF TrackerInv, ignoreUpdate, tracker
<1>2. TablesOK'
  BY DEF TrackerInv, ignoreUpdate, tracker, TablesOK, ReportIsFinal
<1> QED
  BY <1>1, <1>2

\* A message that does not end its order touches only its entry.
LEMMA RecordStep ==
  ASSUME TrackerInv, NEW t \in Threads, NEW m \in Message, recordUpdate(t, m),
         exchange' = exchange
  PROVE  TablesOK' /\ ThreadsOK'
<1>1. ThreadsOK'
  BY IdleStep DEF TrackerInv, recordUpdate
<1>2. m_trackedOrders[m.order] \in Tracked
  BY DEF TrackerInv, TablesOK, recordUpdate
<1>3. /\ StatusUpdated(m_trackedOrders[m.order], m) \in Tracked
      /\ Updated(m_trackedOrders[m.order], m) \in Tracked
  BY <1>2, UpdatedEntry
<1>4. /\ DOMAIN m_trackedOrders' = DOMAIN m_trackedOrders
      /\ m_trackedOrders' \in [DOMAIN m_trackedOrders -> Tracked]
  BY <1>3 DEF TrackerInv, TablesOK, recordUpdate
<1>5. ReportIsFinal'
  BY DEF TrackerInv, TablesOK, ReportIsFinal, recordUpdate
<1>6. TablesOK'
  BY <1>4, <1>5 DEF TrackerInv, TablesOK, recordUpdate
<1> QED
  BY <1>1, <1>6

\* A message that ends its order moves it to the reports, with its last fill.
LEMMA CompleteStep ==
  ASSUME TrackerInv, NEW t \in Threads, NEW m \in Message, Current(exchange, m),
         pc[t] # "callback", completeOrder(t, m), exchange' = exchange
  PROVE  TablesOK' /\ ThreadsOK'
<1> DEFINE report == Updated(m_trackedOrders[m.order], m)
<1>1. m_trackedOrders[m.order] \in Tracked
  BY DEF TrackerInv, TablesOK, completeOrder
<1>2. /\ report \in Tracked
      /\ report.status = parseStatus(m.status)
      /\ report.filled = m.filled
      /\ report.price = m.price
  BY <1>1, UpdatedEntry
<1>3. m.order \in DOMAIN m_trackedOrders /\ m.order \notin DOMAIN m_completedReports
  BY DEF TrackerInv, TablesOK, completeOrder
<1>4. /\ m_completedReports' = Insert(m_completedReports, m.order, report)
      /\ m_trackedOrders' = Erase(m_trackedOrders, m.order)
      /\ m_wsSubscribed' = m_wsSubscribed
      /\ pc' = [pc EXCEPT ![t] = "callback"]
      /\ message' = [message EXCEPT ![t] = m]
  BY DEF completeOrder
<1>5. m.status # "open" /\ m.status \in EndStatus
  BY TerminalMessage DEF completeOrder
<1> HIDE DEF report
<1>6. DOMAIN m_completedReports' = DOMAIN m_completedReports \cup {m.order}
  BY <1>4, InsertDomain
<1>7. DOMAIN m_trackedOrders' = DOMAIN m_trackedOrders \ {m.order}
  BY <1>4, EraseDomain
<1>8. m_completedReports' \in [DOMAIN m_completedReports \cup {m.order} -> Tracked]
  BY <1>2, <1>4, InsertType DEF TrackerInv, TablesOK
<1>9. m_trackedOrders' \in [DOMAIN m_trackedOrders \ {m.order} -> Tracked]
  BY <1>4, EraseType DEF TrackerInv, TablesOK
<1>10. ReportIsFinal'
  <2> SUFFICES ASSUME NEW id \in DOMAIN m_completedReports'
               PROVE  /\ exchange[id].status \in EndStatus
                      /\ m_completedReports'[id].status = parseStatus(exchange[id].status)
                      /\ m_completedReports'[id].filled = exchange[id].filled
                      /\ m_completedReports'[id].price = exchange[id].price
    BY DEF ReportIsFinal
  <2>1. CASE id = m.order
    <3>1. m_completedReports'[id] = report
      BY <2>1, <1>4, InsertKey
    <3> QED
      BY <3>1, <2>1, <1>2, <1>5 DEF Current
  <2>2. CASE id # m.order
    <3>1. id \in DOMAIN m_completedReports
      BY <2>2, <1>6
    <3>2. m_completedReports'[id] = m_completedReports[id]
      BY <3>1, <2>2, <1>4, InsertOther
    <3> QED
      BY <3>1, <3>2 DEF TrackerInv, TablesOK, ReportIsFinal
  <2> QED
    BY <2>1, <2>2
<1>11. TablesOK'
  <2>1. DOMAIN m_completedReports' \subseteq DOMAIN exchange'
    BY <1>6 DEF Current, TrackerInv, TablesOK
  <2>2. DOMAIN m_trackedOrders' \subseteq DOMAIN exchange'
    BY <1>7 DEF TrackerInv, TablesOK
  <2>3. DOMAIN m_trackedOrders' \cap DOMAIN m_completedReports' = {}
    BY <1>6, <1>7 DEF TrackerInv, TablesOK
  <2>4. m_wsSubscribed' \in BOOLEAN
    BY <1>4 DEF TrackerInv, TablesOK
  <2> QED
    BY <2>1, <2>2, <2>3, <2>4, <1>6, <1>7, <1>8, <1>9, <1>10 DEF TablesOK
<1>12. ThreadsOK'
  <2>1. /\ pc' \in [Threads -> {"idle", "response", "callback"}]
        /\ message' \in [Threads -> Message \cup {NoMessage}]
    BY <1>4 DEF TrackerInv, ThreadsOK
  <2>2. pc'[t] = "callback" /\ message'[t] = m
    BY <1>4 DEF TrackerInv, ThreadsOK
  <2>3. \A u \in Threads : u # t => pc'[u] = pc[u] /\ message'[u] = message[u]
    BY <1>4 DEF TrackerInv, ThreadsOK
  <2>4. \A u \in Threads : pc'[u] = "callback" /\ u # t => message'[u].order # m.order
    BY <1>3, <2>3 DEF TrackerInv, ThreadsOK
  <2> QED
    BY <1>6, <2>1, <2>2, <2>3, <2>4 DEF TrackerInv, ThreadsOK
<1> QED
  BY <1>11, <1>12

\* Whatever the tracker makes of a message that is current, it keeps the invariant.
LEMMA ProcessStep ==
  ASSUME TrackerInv, NEW t \in Threads, NEW m \in Message, Current(exchange, m),
         pc[t] # "callback", processUpdate(t, m), exchange' = exchange
  PROVE  TablesOK' /\ ThreadsOK'
  BY IgnoreStep, RecordStep, CompleteStep DEF processUpdate

-----------------------------------------------------------------------------
(* The other steps                                                         *)

LEMMA PlaceStep ==
  ASSUME TrackerInv, place
  PROVE  TrackerInv'
<1>1. PICK symbol \in Symbols, side \in Sides, size \in Quantities \ {0} : accept(symbol, side, size)
  BY DEF place
<1>2. ExchangeOK' /\ Moves(exchange, exchange')
  BY <1>1, AcceptStep
<1>3. ChannelOK'
  BY <1>2, CurrentStays DEF place, TrackerInv, ChannelOK
<1> QED
  BY <1>2, <1>3, ExchangeStep DEF place

LEMMA LoseStep ==
  ASSUME TrackerInv, loseUpdates
  PROVE  TrackerInv'
<1>1. ChannelOK'
  BY EmptySeq DEF loseUpdates, ChannelOK
<1> QED
  BY <1>1 DEF TrackerInv, loseUpdates, ExchangeOK, TablesOK, ReportIsFinal, ThreadsOK, tracker, threads

\* A tracked order is entered as pending; any order of the exchange may be.
LEMMA TrackStep ==
  ASSUME TrackerInv, NEW id \in DOMAIN exchange, id \notin DOMAIN m_completedReports,
         NEW symbol \in Symbols, NEW side \in Sides,
         trackOrder(id, symbol, side), exchange' = exchange
  PROVE  TablesOK'
<1> DEFINE entry == [symbol |-> symbol, side |-> side, status |-> "Pending",
                     filled |-> 0, price |-> 0]
<1>1. entry \in Tracked
  BY TrackerAssumption DEF Tracked, OrderStatus
<1>2. m_trackedOrders' = Insert(m_trackedOrders, id, entry)
  BY DEF trackOrder
<1> HIDE DEF entry
<1>3. DOMAIN m_trackedOrders' = DOMAIN m_trackedOrders \cup {id}
  BY <1>2, InsertDomain
<1>4. m_trackedOrders' \in [DOMAIN m_trackedOrders \cup {id} -> Tracked]
  BY <1>1, <1>2, InsertType DEF TrackerInv, TablesOK
<1> QED
  BY <1>3, <1>4 DEF TrackerInv, TablesOK, ReportIsFinal, trackOrder

LEMMA TrackSomeStep ==
  ASSUME TrackerInv, trackSome
  PROVE  TrackerInv'
<1>1. PICK id \in DOMAIN exchange \ (DOMAIN m_trackedOrders \cup DOMAIN m_completedReports) :
        /\ trackOrder(id, exchange[id].symbol, exchange[id].side)
        /\ UNCHANGED <<market, threads>>
  BY DEF trackSome
<1>2. exchange[id].symbol \in Symbols /\ exchange[id].side \in Sides
  BY DEF TrackerInv, ExchangeOK, Order
<1>3. exchange' = exchange /\ updates' = updates /\ UNCHANGED threads
  BY <1>1 DEF market
<1>4. TablesOK'
  BY <1>1, <1>2, <1>3, TrackStep
<1>5. m_completedReports' = m_completedReports
  BY <1>1 DEF trackOrder
<1> QED
  BY <1>3, <1>4, <1>5 DEF TrackerInv, ExchangeOK, ChannelOK, ThreadsOK, threads

LEMMA StopStep ==
  ASSUME TrackerInv, NEW id, stopTracking(id)
  PROVE  TrackerInv'
<1>1. m_trackedOrders' = Erase(m_trackedOrders, id)
  BY DEF stopTracking
<1>2. DOMAIN m_trackedOrders' = DOMAIN m_trackedOrders \ {id}
  BY <1>1, EraseDomain
<1>3. m_trackedOrders' \in [DOMAIN m_trackedOrders \ {id} -> Tracked]
  BY <1>1, EraseType DEF TrackerInv, TablesOK
<1> QED
  BY <1>2, <1>3 DEF TrackerInv, stopTracking, market, threads,
                    ExchangeOK, ChannelOK, TablesOK, ReportIsFinal, ThreadsOK

\* A polled response is current when the exchange gives it.
LEMMA PollRequestStep ==
  ASSUME TrackerInv, NEW t \in Pollers, NEW id \in DOMAIN exchange, pollRequest(t, id)
  PROVE  TrackerInv'
<1> DEFINE m == [order |-> id, status |-> exchange[id].status,
                 filled |-> exchange[id].filled, price |-> exchange[id].price]
<1>1. exchange[id] \in Order /\ id \in OrderIds /\ exchange[id].status \in {"open"} \cup EndStatus
  BY DEF TrackerInv, ExchangeOK
<1>2. m \in Message /\ Current(exchange, m)
  BY <1>1 DEF Message, Order, Current
<1>3. t \in Threads /\ pc' = [pc EXCEPT ![t] = "response"] /\ message' = [message EXCEPT ![t] = m]
  BY DEF pollRequest, Threads
<1> HIDE DEF m
<1>4. UNCHANGED <<exchange, updates, m_wsSubscribed, m_trackedOrders, m_completedReports>>
  BY DEF pollRequest, market, tracker
<1>5. ThreadsOK'
  <2>1. /\ pc' \in [Threads -> {"idle", "response", "callback"}]
        /\ message' \in [Threads -> Message \cup {NoMessage}]
    BY <1>2, <1>3 DEF TrackerInv, ThreadsOK
  <2>2. pc'[t] = "response" /\ message'[t] = m
    BY <1>3 DEF TrackerInv, ThreadsOK
  <2>3. \A u \in Threads : u # t => pc'[u] = pc[u] /\ message'[u] = message[u]
    BY <1>3 DEF TrackerInv, ThreadsOK
  <2> QED
    BY <1>2, <1>4, <2>1, <2>2, <2>3 DEF TrackerInv, ThreadsOK
<1> QED
  BY <1>4, <1>5 DEF TrackerInv, ExchangeOK, ChannelOK, TablesOK, ReportIsFinal

LEMMA PollResponseStep ==
  ASSUME TrackerInv, NEW t \in Pollers, pollResponse(t)
  PROVE  TrackerInv'
<1>1. t \in Threads /\ pc[t] = "response" /\ processUpdate(t, message[t])
  BY DEF pollResponse, Threads
<1>2. message[t] \in Message /\ Current(exchange, message[t])
  BY <1>1 DEF TrackerInv, ThreadsOK
<1>3. exchange' = exchange /\ updates' = updates
  BY DEF pollResponse, market
<1>4. TablesOK' /\ ThreadsOK'
  BY <1>1, <1>2, <1>3, ProcessStep
<1> QED
  BY <1>3, <1>4 DEF TrackerInv, ExchangeOK, ChannelOK

LEMMA OnOrderUpdateStep ==
  ASSUME TrackerInv, onOrderUpdate
  PROVE  TrackerInv'
<1>1. /\ pc[IoThread] = "idle" /\ IoThread \in Threads
      /\ updates # << >> /\ updates' = Tail(updates) /\ exchange' = exchange
  BY DEF onOrderUpdate, Threads
<1>2. updates \in Seq(Message) /\ Len(updates) \in Nat \ {0}
  BY <1>1, EmptySeq DEF TrackerInv, ChannelOK
<1>3. updates' \in Seq(Message)
  BY <1>1, <1>2, HeadTailProperties
<1>4. Len(updates') = Len(updates) - 1
  BY <1>1, <1>2, HeadTailProperties
<1>5. \A i \in 1 .. Len(updates') : updates'[i] = updates[i + 1]
  BY <1>1, <1>2, HeadTailProperties
<1>6. Head(updates) = updates[1] /\ Head(updates) \in Message
  BY <1>1, <1>2, HeadTailProperties
<1>7. Current(exchange, Head(updates))
  <2>1. 1 \in 1 .. Len(updates)
    BY <1>2
  <2> QED
    BY <2>1, <1>6 DEF TrackerInv, ChannelOK
<1>8. ChannelOK'
  <2>1. \A i \in 1 .. Len(updates') : i + 1 \in 1 .. Len(updates)
    BY <1>2, <1>4
  <2>2. \A i \in 1 .. Len(updates') : Current(exchange, updates'[i])
    BY <1>5, <2>1 DEF TrackerInv, ChannelOK
  <2> QED
    BY <1>1, <1>3, <2>2 DEF ChannelOK
<1>9. TablesOK' /\ ThreadsOK'
  <2>1. CASE EventHasResult
    <3>1. processUpdate(IoThread, Head(updates))
      BY <2>1 DEF onOrderUpdate
    <3> QED
      BY <3>1, <1>1, <1>6, <1>7, ProcessStep
  <2>2. CASE ~ EventHasResult
    BY <2>2, <1>1 DEF onOrderUpdate, TrackerInv, TablesOK, ReportIsFinal, ThreadsOK, tracker, threads
  <2> QED
    BY <2>1, <2>2
<1> QED
  BY <1>1, <1>8, <1>9 DEF TrackerInv, ExchangeOK

LEMMA ReturnStep ==
  ASSUME TrackerInv, NEW t \in Threads, returnFromCallback(t), UNCHANGED <<market, tracker>>
  PROVE  TrackerInv'
<1>1. ThreadsOK'
  BY IdleStep DEF TrackerInv, returnFromCallback, market, tracker
<1> QED
  BY <1>1 DEF TrackerInv, market, tracker, ExchangeOK, ChannelOK, TablesOK, ReportIsFinal

LEMMA TrackerInit_Inv == TrackerInit => TrackerInv
<1> SUFFICES ASSUME TrackerInit PROVE TrackerInv
  OBVIOUS
<1>1. DOMAIN EmptyMap = {} /\ EmptyMap \in [{} -> Order] /\ EmptyMap \in [{} -> Tracked]
  BY EmptyMapDomain, EmptyMapType
<1>2. ExchangeOK
  <2>1. 0 \in 0 .. MaxOrders /\ 1 .. 0 = {}
    BY TrackerAssumption
  <2> QED
    BY <1>1, <2>1 DEF TrackerInit, ExchangeOK
<1>3. ChannelOK
  BY EmptySeq DEF TrackerInit, ChannelOK
<1>4. TablesOK
  BY <1>1 DEF TrackerInit, TablesOK, ReportIsFinal
<1>5. ThreadsOK
  BY DEF TrackerInit, ThreadsOK
<1> QED
  BY <1>2, <1>3, <1>4, <1>5 DEF TrackerInv

LEMMA TrackerStep == TrackerInv /\ [TrackerNext]_trackerVars => TrackerInv'
<1> SUFFICES ASSUME TrackerInv, [TrackerNext]_trackerVars PROVE TrackerInv'
  OBVIOUS
<1>1. CASE place
  BY <1>1, PlaceStep
<1>2. CASE advanceSome
  BY <1>2, AdvanceStep
<1>3. CASE loseUpdates
  BY <1>3, LoseStep
<1>4. CASE trackSome
  BY <1>4, TrackSomeStep
<1>5. CASE \E id \in DOMAIN m_trackedOrders : stopTracking(id)
  BY <1>5, StopStep
<1>6. CASE \E t \in Pollers : \E id \in DOMAIN exchange : pollRequest(t, id)
  BY <1>6, PollRequestStep
<1>7. CASE \E t \in Pollers : pollResponse(t)
  BY <1>7, PollResponseStep
<1>8. CASE onOrderUpdate
  BY <1>8, OnOrderUpdateStep
<1>9. CASE \E t \in Threads : deliver(t)
  BY <1>9, ReturnStep DEF deliver
<1>10. CASE UNCHANGED trackerVars
  BY <1>10 DEF trackerVars, market, tracker, threads, TrackerInv, ExchangeOK,
               ChannelOK, TablesOK, ReportIsFinal, ThreadsOK
<1> QED
  BY <1>1, <1>2, <1>3, <1>4, <1>5, <1>6, <1>7, <1>8, <1>9, <1>10 DEF TrackerNext

LEMMA TrackerInvariant == TrackerSpec => []TrackerInv
  BY TrackerInit_Inv, TrackerStep, PTL DEF TrackerSpec

-----------------------------------------------------------------------------
(* The theorems                                                            *)

\* The tracker's tables hold orders of the exchange, and entries of their types.
THEOREM TrackerTypeCorrect == TrackerSpec => []TrackerTypeOK
<1>1. TrackerInv => TrackerTypeOK
  BY DEF TrackerInv, ExchangeOK, ChannelOK, TablesOK, ThreadsOK, TrackerTypeOK
<1> QED
  BY <1>1, TrackerInvariant, PTL

\* A report carries the fill its order ended with, whatever messages crossed.
THEOREM ReportsAreFinal == TrackerSpec => []ReportIsFinal
<1>1. TrackerInv => ReportIsFinal
  BY DEF TrackerInv, TablesOK
<1> QED
  BY <1>1, TrackerInvariant, PTL

-----------------------------------------------------------------------------
(* The tracker implements OrderLifecycle                                   *)

Phases == [id \in OrderIds |-> Phase(id)]
Owed   == {message[t].order : t \in {u \in Threads : pc[u] = "callback"}}

\* What the abstract variables depend on.
SameCallbacks ==
  \A t \in Threads : /\ pc'[t] = "callback" <=> pc[t] = "callback"
                     /\ pc[t] = "callback" => message'[t] = message[t]

LEMMA SameOwed ==
  ASSUME SameCallbacks
  PROVE  Owed' = Owed
  BY DEF SameCallbacks, Owed

LEMMA SamePhases ==
  ASSUME DOMAIN m_trackedOrders' = DOMAIN m_trackedOrders,
         DOMAIN m_completedReports' = DOMAIN m_completedReports
  PROVE  Phases' = Phases
  BY DEF Phases, Phase

\* Neither moves when the tables keep their keys and the callbacks stay.
LEMMA Stutter ==
  ASSUME DOMAIN m_trackedOrders' = DOMAIN m_trackedOrders,
         DOMAIN m_completedReports' = DOMAIN m_completedReports,
         SameCallbacks
  PROVE  Phases' = Phases /\ Owed' = Owed
  BY SameOwed, SamePhases

\* A tracked order starts its life.
LEMMA TrackIsTrack ==
  ASSUME TrackerInv, NEW id \in DOMAIN exchange,
         id \notin DOMAIN m_trackedOrders, id \notin DOMAIN m_completedReports,
         NEW symbol, NEW side, trackOrder(id, symbol, side), UNCHANGED threads
  PROVE  id \in OrderIds /\ Phases[id] = "new" /\ Phases' = [Phases EXCEPT ![id] = "tracked"]
         /\ Owed' = Owed
<1>1. id \in OrderIds
  BY DEF TrackerInv, ExchangeOK
<1>2. DOMAIN m_trackedOrders' = DOMAIN m_trackedOrders \cup {id}
  BY InsertDomain DEF trackOrder
<1>3. m_completedReports' = m_completedReports
  BY DEF trackOrder
<1>4. Owed' = Owed
  BY DEF threads, Owed
<1>5. Phases[id] = "new"
  BY <1>1 DEF Phases, Phase
<1>6. Phases' = [Phases EXCEPT ![id] = "tracked"]
  BY <1>1, <1>2, <1>3 DEF Phases, Phase
<1> QED
  BY <1>1, <1>4, <1>5, <1>6

\* A dropped one goes back to the beginning.
LEMMA StopIsDrop ==
  ASSUME TrackerInv, NEW id \in DOMAIN m_trackedOrders, stopTracking(id)
  PROVE  id \in OrderIds /\ Phases[id] = "tracked" /\ Phases' = [Phases EXCEPT ![id] = "new"]
         /\ Owed' = Owed
<1>1. id \in OrderIds /\ id \notin DOMAIN m_completedReports
  BY DEF TrackerInv, ExchangeOK, TablesOK
<1>2. DOMAIN m_trackedOrders' = DOMAIN m_trackedOrders \ {id}
  BY EraseDomain DEF stopTracking
<1>3. m_completedReports' = m_completedReports /\ UNCHANGED threads
  BY DEF stopTracking
<1>4. Owed' = Owed
  BY <1>3 DEF threads, Owed
<1>5. Phases[id] = "tracked"
  BY <1>1 DEF Phases, Phase
<1>6. Phases' = [Phases EXCEPT ![id] = "new"]
  BY <1>1, <1>2, <1>3 DEF Phases, Phase
<1> QED
  BY <1>1, <1>4, <1>5, <1>6

\* A completed one is owed its callback.
LEMMA CompleteIsComplete ==
  ASSUME TrackerInv, NEW t \in Threads, NEW m, pc[t] # "callback", completeOrder(t, m)
  PROVE  m.order \in OrderIds /\ Phases[m.order] = "tracked"
         /\ Phases' = [Phases EXCEPT ![m.order] = "completed"]
         /\ Owed' = Owed \cup {m.order}
<1> DEFINE id == m.order
<1>1. id \in OrderIds /\ id \in DOMAIN m_trackedOrders /\ id \notin DOMAIN m_completedReports
  BY DEF TrackerInv, ExchangeOK, TablesOK, completeOrder
<1>2. DOMAIN m_trackedOrders' = DOMAIN m_trackedOrders \ {id}
  BY EraseDomain DEF completeOrder
<1>3. DOMAIN m_completedReports' = DOMAIN m_completedReports \cup {id}
  BY InsertDomain DEF completeOrder
<1>4. /\ pc'[t] = "callback" /\ message'[t] = m
      /\ \A u \in Threads : u # t => pc'[u] = pc[u] /\ message'[u] = message[u]
  BY DEF completeOrder, TrackerInv, ThreadsOK
<1>5. Owed' = Owed \cup {id}
  BY <1>4 DEF Owed
<1> HIDE DEF id
<1>6. Phases[id] = "tracked"
  BY <1>1 DEF Phases, Phase
<1>7. Phases' = [Phases EXCEPT ![id] = "completed"]
  BY <1>1, <1>2, <1>3 DEF Phases, Phase
<1> QED
  BY <1>1, <1>5, <1>6, <1>7 DEF id

\* A callback that returns is owed no more, and to no other thread.
LEMMA ReturnIsDeliver ==
  ASSUME TrackerInv, NEW t \in Threads, returnFromCallback(t), UNCHANGED tracker
  PROVE  message[t].order \in OrderIds /\ message[t].order \in Owed
         /\ Owed' = Owed \ {message[t].order} /\ Phases' = Phases
<1>1. pc[t] = "callback" /\ message[t].order \in OrderIds
  BY DEF TrackerInv, ExchangeOK, TablesOK, ThreadsOK, returnFromCallback
<1>2. /\ pc'[t] = "idle"
      /\ \A u \in Threads : u # t => pc'[u] = pc[u] /\ message'[u] = message[u]
  BY DEF returnFromCallback, TrackerInv, ThreadsOK
<1>3. message[t].order \in Owed
  BY <1>1 DEF Owed
<1>4. \A u \in Threads : pc[u] = "callback" /\ u # t => message[u].order # message[t].order
  BY <1>1 DEF TrackerInv, ThreadsOK
<1>5. \A o : o \in Owed <=> \E u \in Threads : pc[u] = "callback" /\ message[u].order = o
  BY DEF Owed
<1>6. \A o : o \in Owed' <=> \E u \in Threads : pc'[u] = "callback" /\ message'[u].order = o
  BY DEF Owed
<1>7. Owed' = Owed \ {message[t].order}
  <2>1. \A o : o \in Owed' => o \in Owed /\ o # message[t].order
    BY <1>2, <1>4, <1>5, <1>6
  <2>2. \A o : o \in Owed /\ o # message[t].order => o \in Owed'
    BY <1>2, <1>5, <1>6
  <2> QED
    BY <2>1, <2>2
<1>8. Phases' = Phases
  BY DEF tracker, Phases, Phase
<1> QED
  BY <1>1, <1>3, <1>7, <1>8

\* A message applied completes its order or stutters.
LEMMA ProcessIsAbstract ==
  ASSUME TrackerInv, NEW t \in Threads, NEW m, pc[t] # "callback", processUpdate(t, m)
  PROVE  \/ Phases' = Phases /\ Owed' = Owed
         \/ \E o \in OrderIds : /\ Phases[o] = "tracked"
                                /\ Phases' = [Phases EXCEPT ![o] = "completed"]
                                /\ Owed' = Owed \cup {o}
<1>1. CASE ignoreUpdate(t, m)
  <2>1. SameCallbacks
    BY <1>1 DEF ignoreUpdate, SameCallbacks, TrackerInv, ThreadsOK
  <2> QED
    BY <1>1, <2>1, Stutter DEF ignoreUpdate, tracker
<1>2. CASE recordUpdate(t, m)
  <2>1. SameCallbacks
    BY <1>2 DEF recordUpdate, SameCallbacks, TrackerInv, ThreadsOK
  <2>2. DOMAIN m_trackedOrders' = DOMAIN m_trackedOrders
    BY <1>2 DEF recordUpdate
  <2> QED
    BY <1>2, <2>1, <2>2, Stutter DEF recordUpdate
<1>3. CASE completeOrder(t, m)
  BY <1>3, CompleteIsComplete
<1> QED
  BY <1>1, <1>2, <1>3 DEF processUpdate

\* What a step of the abstract specification is, over the abstract variables.
LEMMA AbstractStep ==
  ASSUME \/ Phases' = Phases /\ Owed' = Owed
         \/ \E o \in OrderIds :
              \/ Phases[o] = "new" /\ Phases' = [Phases EXCEPT ![o] = "tracked"] /\ Owed' = Owed
              \/ Phases[o] = "tracked" /\ Phases' = [Phases EXCEPT ![o] = "new"] /\ Owed' = Owed
              \/ /\ Phases[o] = "tracked"
                 /\ Phases' = [Phases EXCEPT ![o] = "completed"]
                 /\ Owed' = Owed \cup {o}
              \/ o \in Owed /\ Owed' = Owed \ {o} /\ Phases' = Phases
  PROVE  Lifecycle!LifecycleNext \/ (Phases' = Phases /\ Owed' = Owed)
  BY Zenon DEF Lifecycle!LifecycleNext, Lifecycle!Track, Lifecycle!Drop, Lifecycle!Complete,
         Lifecycle!Deliver, Phases, Owed

LEMMA LifecycleStep ==
  TrackerInv /\ [TrackerNext]_trackerVars
    => Lifecycle!LifecycleNext \/ (Phases' = Phases /\ Owed' = Owed)
<1> SUFFICES ASSUME TrackerInv, [TrackerNext]_trackerVars
             PROVE  Lifecycle!LifecycleNext \/ (Phases' = Phases /\ Owed' = Owed)
  OBVIOUS
<1>1. CASE place
  BY <1>1, Stutter DEF place, tracker, threads, SameCallbacks
<1>2. CASE advanceSome
  <2>1. UNCHANGED <<tracker, threads>>
    BY <1>2 DEF advanceSome, advance
  <2> QED
    BY <2>1, Stutter DEF tracker, threads, SameCallbacks
<1>3. CASE loseUpdates
  BY <1>3, Stutter DEF loseUpdates, tracker, threads, SameCallbacks
<1>4. CASE trackSome
  <2>1. PICK id \in DOMAIN exchange \ (DOMAIN m_trackedOrders \cup DOMAIN m_completedReports) :
          trackOrder(id, exchange[id].symbol, exchange[id].side) /\ UNCHANGED threads
    BY <1>4 DEF trackSome
  <2> QED
    BY <2>1, TrackIsTrack, AbstractStep
<1>5. CASE \E id \in DOMAIN m_trackedOrders : stopTracking(id)
  BY <1>5, StopIsDrop, AbstractStep
<1>6. CASE \E t \in Pollers : \E id \in DOMAIN exchange : pollRequest(t, id)
  <2>1. SameCallbacks /\ UNCHANGED tracker
    BY <1>6 DEF pollRequest, SameCallbacks, TrackerInv, ThreadsOK, Threads
  <2> QED
    BY <2>1, Stutter DEF tracker
<1>7. CASE \E t \in Pollers : pollResponse(t)
  <2>1. PICK t \in Pollers : pc[t] = "response" /\ processUpdate(t, message[t])
    BY <1>7 DEF pollResponse
  <2> QED
    BY <2>1, ProcessIsAbstract, AbstractStep DEF Threads
<1>8. CASE onOrderUpdate
  <2>1. CASE EventHasResult
    BY <1>8, <2>1, ProcessIsAbstract, AbstractStep DEF onOrderUpdate, Threads
  <2>2. CASE ~ EventHasResult
    BY <1>8, <2>2, Stutter DEF onOrderUpdate, tracker, threads, SameCallbacks
  <2> QED
    BY <2>1, <2>2
<1>9. CASE \E t \in Threads : deliver(t)
  BY <1>9, ReturnIsDeliver, AbstractStep DEF deliver
<1>10. CASE UNCHANGED trackerVars
  BY <1>10, Stutter DEF trackerVars, tracker, threads, SameCallbacks
<1> QED
  BY <1>1, <1>2, <1>3, <1>4, <1>5, <1>6, <1>7, <1>8, <1>9, <1>10 DEF TrackerNext

\* An order completes at most once, and its callback runs exactly once, for every
\* interleaving of pushed updates, polls and callbacks.
THEOREM TrackerImplementsLifecycle == TrackerSpec => ImplementsLifecycle
<1>1. TrackerInit => Lifecycle!LifecycleInit
  BY EmptyMapDomain DEF TrackerInit, Lifecycle!LifecycleInit, Phase, Threads
<1>2. TrackerInv /\ [TrackerNext]_trackerVars
        => [Lifecycle!LifecycleNext]_<<[id \in OrderIds |-> Phase(id)],
                                       {message[t].order : t \in {u \in Threads : pc[u] = "callback"}}>>
  BY LifecycleStep DEF Phases, Owed
<1> QED
  BY <1>1, <1>2, TrackerInvariant, PTL DEF TrackerSpec, ImplementsLifecycle, Lifecycle!LifecycleSpec

-----------------------------------------------------------------------------
(* The ledger of the application is the ledger of PositionManagerProofs.   *)

LEMMA LedgerAssumptionHolds == LedgerProofs!LedgerAssumption
  BY TrackerAssumption, PipelineAssumption DEF LedgerProofs!LedgerAssumption

LEMMA SameType == Ledger!LedgerTypeOK <=> LedgerProofs!LedgerTypeOK
  BY DEF Ledger!LedgerTypeOK, Ledger!Position, Ledger!Reservation,
         LedgerProofs!LedgerTypeOK, LedgerProofs!Position, LedgerProofs!Reservation

LEMMA SameGrant ==
  ASSUME NEW symbol, NEW qty, NEW price
  PROVE  Ledger!GrantedQuantity(symbol, qty, price) = LedgerProofs!GrantedQuantity(symbol, qty, price)
  BY DEF Ledger!GrantedQuantity, Ledger!CommittedCount, Ledger!Fits, Ledger!Budget,
         Ledger!CommittedNotional, Ledger!CommittedNotionalOf, Ledger!PositionNotional,
         Ledger!PositionNotionalOf, Ledger!PendingNotional, Ledger!PendingNotionalOf,
         Ledger!PositionCount, Ledger!PendingCount, Ledger!NotionalOf, Ledger!Units, Ledger!OfSymbol, Ledger!Cardinality, LedgerProofs!Cardinality,
         LedgerProofs!GrantedQuantity, LedgerProofs!CommittedCount, LedgerProofs!Fits,
         LedgerProofs!Budget, LedgerProofs!CommittedNotional, LedgerProofs!CommittedNotionalOf,
         LedgerProofs!PositionNotional, LedgerProofs!PositionNotionalOf,
         LedgerProofs!PendingNotional, LedgerProofs!PendingNotionalOf,
         LedgerProofs!PositionCount, LedgerProofs!PendingCount,
         LedgerProofs!NotionalOf, LedgerProofs!Units, LedgerProofs!OfSymbol
\* They are one ledger: each operation is the same step.
LEMMA SameNext == Ledger!LedgerNext <=> LedgerProofs!LedgerNext
<1> USE DEF Ledger!Insert, Ledger!Erase, Ledger!Restrict,
            LedgerProofs!Insert, LedgerProofs!Erase, LedgerProofs!Restrict
<1>1. ASSUME NEW symbol, NEW qty, NEW price
      PROVE  Ledger!reserveNotional(symbol, qty, price) <=> LedgerProofs!reserveNotional(symbol, qty, price)
  BY SameGrant DEF Ledger!reserveNotional, LedgerProofs!reserveNotional
<1>2. ASSUME NEW id
      PROVE  /\ Ledger!consumeReservation(id) <=> LedgerProofs!consumeReservation(id)
             /\ Ledger!cancelReservation(id) <=> LedgerProofs!cancelReservation(id)
  BY DEF Ledger!consumeReservation, LedgerProofs!consumeReservation,
         Ledger!cancelReservation, LedgerProofs!cancelReservation
<1>3. ASSUME NEW symbol, NEW qty, NEW price
      PROVE  Ledger!openPosition(symbol, qty, price) <=> LedgerProofs!openPosition(symbol, qty, price)
  BY DEF Ledger!openPosition, LedgerProofs!openPosition, Ledger!OpenRefused, LedgerProofs!OpenRefused,
         Ledger!autoConsume, LedgerProofs!autoConsume,
         Ledger!PositionNotional, Ledger!PositionNotionalOf, Ledger!PositionCount,
         Ledger!NotionalOf, Ledger!Units, Ledger!OfSymbol, Ledger!Cardinality, LedgerProofs!Cardinality,
         LedgerProofs!PositionNotional, LedgerProofs!PositionNotionalOf, LedgerProofs!PositionCount,
         LedgerProofs!NotionalOf, LedgerProofs!Units, LedgerProofs!OfSymbol
<1>4. ASSUME NEW id, NEW qty, NEW price
      PROVE  /\ Ledger!closePosition(id, qty, price) <=> LedgerProofs!closePosition(id, qty, price)
             /\ Ledger!updatePrice(id, price) <=> LedgerProofs!updatePrice(id, price)
  BY DEF Ledger!closePosition, LedgerProofs!closePosition, Ledger!updatePrice, LedgerProofs!updatePrice
<1> QED
  BY <1>1, <1>2, <1>3, <1>4 DEF Ledger!LedgerNext, LedgerProofs!LedgerNext

-----------------------------------------------------------------------------
(* The inductive invariant                                                 *)

\* The order being placed: it is one the exchange accepted before it is stored
\* and tracked, unknown to the tracker until then, and holds a reservation.
PlacerOK ==
  /\ placer = NotPlacing \/ (placer \in Placing /\ placer.step # "idle")
  /\ placer.step # "idle" =>
       placer.reservation \in 1 .. MaxIds /\ placer.reservation < m_nextReservationId
  /\ placer.step = "submit" => SizeSent(placer) \in Quantities \ {0}
  /\ placer.step \in {"submit", "cancel"} => placer.order = 0
  /\ placer.step \in {"store", "track"} =>
       /\ placer.order \in DOMAIN exchange
       /\ exchange[placer.order].symbol = placer.symbol
       /\ exchange[placer.order].side = placer.side
       /\ placer.order \notin DOMAIN m_trackedOrders \cup DOMAIN m_completedReports

\* The reservations stored for orders: only what was handed out, for orders that
\* exist, and for the order being placed between storing and tracking.
StoredOK ==
  /\ DOMAIN order_reservations \subseteq DOMAIN exchange
  /\ order_reservations \in [DOMAIN order_reservations -> 1 .. MaxIds]
  /\ \A o \in DOMAIN order_reservations : order_reservations[o] < m_nextReservationId
  /\ placer.step = "store" => placer.order \notin DOMAIN order_reservations
  /\ placer.step = "track" => /\ placer.order \in DOMAIN order_reservations
                              /\ order_reservations[placer.order] = placer.reservation

HandlerOK ==
  /\ handler \in [Threads -> [step : {"consume", "book", "close"}, positions : SUBSET (1 .. MaxIds)]]
  /\ \A t \in Threads : pc[t] # "callback" => handler[t] = NotHandling

\* An order ends with a price.
PricesOK == \A o \in DOMAIN exchange : exchange[o].status # "open" => exchange[o].price \in FillPrices

PipelineInv ==
  /\ TrackerInv
  /\ LedgerProofs!LedgerTypeOK
  /\ PlacerOK
  /\ StoredOK
  /\ HandlerOK
  /\ PricesOK
  /\ ReservationsHaveOneOwner
  /\ CompletedOrdersHoldNothing

-----------------------------------------------------------------------------
(* Facts about single operations                                           *)

\* No more is granted than asked for.
LEMMA GrantIsBounded ==
  ASSUME LedgerProofs!LedgerTypeOK, NEW symbol \in Symbols, NEW qty \in Nat, NEW price \in Nat
  PROVE  Ledger!GrantedQuantity(symbol, qty, price) \in 0 .. qty
<1> DEFINE granted == LedgerProofs!GrantedQuantity(symbol, qty, price)
<1>1. granted \in Nat
  BY LedgerAssumptionHolds, LedgerProofs!GrantFits
<1>2. granted = 0 \/ granted = qty \/ granted < qty
  BY DEF LedgerProofs!GrantedQuantity
<1>3. granted \in 0 .. qty
  BY <1>1, <1>2
<1> QED
  BY <1>3, SameGrant

\* An accepted order is new, and the others stay as they are.
LEMMA AcceptedOrder ==
  ASSUME TrackerInv, NEW symbol, NEW side, NEW size, accept(symbol, side, size)
  PROVE  /\ NextOrderId \in OrderIds
         /\ NextOrderId \notin DOMAIN exchange
         /\ DOMAIN exchange' = DOMAIN exchange \cup {NextOrderId}
         /\ exchange'[NextOrderId].status = "open"
         /\ exchange'[NextOrderId].symbol = symbol
         /\ exchange'[NextOrderId].side = side
         /\ \A id \in DOMAIN exchange : exchange'[id] = exchange[id]
<1>1. PICK n \in 0 .. MaxOrders : DOMAIN exchange = 1 .. n
  BY DEF TrackerInv, ExchangeOK
<1>2. NextOrderId = n + 1 /\ n \in Nat
  BY <1>1, NumberedDomain, TrackerAssumption DEF NextOrderId
<1>3. NextOrderId \in OrderIds /\ NextOrderId \notin DOMAIN exchange
  BY <1>1, <1>2 DEF accept
<1> DEFINE order == [symbol |-> symbol, side |-> side, size |-> size,
                     status |-> "open", filled |-> 0, price |-> 0]
<1>4. exchange' = Insert(exchange, NextOrderId, order)
  BY DEF accept
<1> HIDE DEF order
<1>5. DOMAIN exchange' = DOMAIN exchange \cup {NextOrderId}
  BY <1>4, InsertDomain
<1>6. exchange'[NextOrderId] = order
  BY <1>4, InsertKey
<1>7. \A id \in DOMAIN exchange : exchange'[id] = exchange[id]
  BY <1>3, <1>4, InsertOther
<1> QED
  BY <1>3, <1>5, <1>6, <1>7 DEF order

\* What the steps of the exchange and of the tracker's threads leave in place.
TrackerMoves ==
  /\ DOMAIN exchange' = DOMAIN exchange
  /\ \A o \in DOMAIN exchange : /\ exchange'[o].symbol = exchange[o].symbol
                                /\ exchange'[o].side = exchange[o].side
  /\ DOMAIN m_trackedOrders' \cup DOMAIN m_completedReports'
       = DOMAIN m_trackedOrders \cup DOMAIN m_completedReports
  /\ \A t \in Threads : pc[t] = "callback" => pc'[t] = "callback" /\ message'[t] = message[t]
  /\ \A o \in DOMAIN m_completedReports' \ DOMAIN m_completedReports :
       \E t \in Threads : pc[t] # "callback" /\ pc'[t] = "callback" /\ message'[t].order = o

LEMMA AdvanceMoves ==
  ASSUME TrackerInv, PricesOK, advanceSome
  PROVE  TrackerMoves /\ PricesOK'
<1>1. PICK id \in DOMAIN exchange, status \in {"open"} \cup EndStatus,
           filled \in Quantities, price \in FillPrices : advance(id, status, filled, price)
  BY DEF advanceSome
<1>2. exchange[id] \in Order
  BY DEF TrackerInv, ExchangeOK
<1>3. exchange' = [exchange EXCEPT ![id].status = status, ![id].filled = filled, ![id].price = price]
  BY <1>1 DEF advance
<1>4. /\ DOMAIN exchange' = DOMAIN exchange
      /\ exchange'[id].symbol = exchange[id].symbol
      /\ exchange'[id].side = exchange[id].side
      /\ exchange'[id].price = price
  BY <1>2, <1>3 DEF Order
<1>5. \A o \in DOMAIN exchange : o # id => exchange'[o] = exchange[o]
  BY <1>3
<1>6. PricesOK'
  BY <1>4, <1>5 DEF PricesOK
<1>7. UNCHANGED <<m_trackedOrders, m_completedReports, pc, message>>
  BY <1>1 DEF advance, tracker, threads
<1>8. TrackerMoves
  BY <1>4, <1>5, <1>7 DEF TrackerMoves
<1> QED
  BY <1>6, <1>8

LEMMA ProcessMoves ==
  ASSUME TrackerInv, NEW t \in Threads, NEW m, pc[t] # "callback",
         processUpdate(t, m), exchange' = exchange
  PROVE  TrackerMoves
<1>1. CASE ignoreUpdate(t, m)
  BY <1>1 DEF ignoreUpdate, tracker, TrackerMoves, TrackerInv, ThreadsOK
<1>2. CASE recordUpdate(t, m)
  BY <1>2 DEF recordUpdate, TrackerMoves, TrackerInv, ThreadsOK
<1>3. CASE completeOrder(t, m)
  <2>1. /\ DOMAIN m_trackedOrders' = DOMAIN m_trackedOrders \ {m.order}
        /\ DOMAIN m_completedReports' = DOMAIN m_completedReports \cup {m.order}
        /\ m.order \in DOMAIN m_trackedOrders
    BY <1>3, InsertDomain, EraseDomain DEF completeOrder
  <2>2. /\ pc'[t] = "callback" /\ message'[t] = m
        /\ \A u \in Threads : u # t => pc'[u] = pc[u] /\ message'[u] = message[u]
    BY <1>3 DEF completeOrder, TrackerInv, ThreadsOK
  <2> QED
    BY <2>1, <2>2 DEF TrackerMoves
<1> QED
  BY <1>1, <1>2, <1>3 DEF processUpdate

LEMMA TrackerStepMoves ==
  ASSUME TrackerInv, PricesOK, trackerStep
  PROVE  TrackerMoves /\ PricesOK'
<1>1. CASE advanceSome
  BY <1>1, AdvanceMoves
<1>2. CASE loseUpdates
  BY <1>2 DEF loseUpdates, tracker, threads, TrackerMoves, PricesOK
<1>3. CASE \E t \in Pollers : \E id \in DOMAIN m_trackedOrders : pollRequest(t, id)
  BY <1>3 DEF pollRequest, market, tracker, TrackerMoves, PricesOK, Threads, TrackerInv, ThreadsOK
<1>4. CASE \E t \in Pollers : pollResponse(t)
  <2>1. PICK t \in Pollers : pollResponse(t)
    BY <1>4
  <2>2. TrackerMoves
    BY <2>1, ProcessMoves DEF pollResponse, market, Threads
  <2> QED
    BY <2>1, <2>2 DEF pollResponse, market, PricesOK
<1>5. CASE onOrderUpdate
  <2>1. TrackerMoves
    <3>1. CASE EventHasResult
      BY <1>5, <3>1, ProcessMoves DEF onOrderUpdate, Threads
    <3>2. CASE ~ EventHasResult
      BY <1>5, <3>2 DEF onOrderUpdate, tracker, threads, TrackerMoves
    <3> QED
      BY <3>1, <3>2
  <2> QED
    BY <1>5, <2>1 DEF onOrderUpdate, PricesOK
<1> QED
  BY <1>1, <1>2, <1>3, <1>4, <1>5 DEF trackerStep

-----------------------------------------------------------------------------
(* The steps keep the invariant, but for the parts of the tracker and the    *)
(* ledger, which keep their own.                                             *)

\* The part that is the application's own.
OwnInv ==
  /\ PlacerOK /\ StoredOK /\ HandlerOK /\ PricesOK
  /\ ReservationsHaveOneOwner /\ CompletedOrdersHoldNothing

LEMMA EvaluateKeeps ==
  ASSUME PipelineInv, NEW symbol \in Symbols, NEW side \in Sides, NEW qty \in Quantities \ {0},
         NEW price \in SignalPrices, evaluateOrder(symbol, side, qty, price)
  PROVE  OwnInv'
<1> DEFINE granted == Ledger!GrantedQuantity(symbol, qty, price)
           id == m_nextReservationId
<1>1. granted \in 0 .. qty /\ qty \in Nat /\ 0 .. qty \subseteq Quantities
  BY GrantIsBounded, TrackerAssumption, PipelineAssumption DEF PipelineInv
<1>2. /\ placer.step = "idle" /\ placer = NotPlacing
      /\ UNCHANGED <<exchange, m_trackedOrders, m_completedReports, pc, message,
                     order_reservations, handler>>
  BY DEF evaluateOrder, PipelineInv, PlacerOK, trackerVars, market, tracker, threads
<1>3. /\ id \in 1 .. MaxIds
      /\ m_nextReservationId' = id + 1
      /\ granted = 0 => m_pendingReservations' = m_pendingReservations
      /\ granted # 0 => m_pendingReservations' =
                          Insert(m_pendingReservations, id,
                                 [symbol |-> symbol, notional |-> granted * price])
  BY PipelineAssumption DEF evaluateOrder, Ledger!reserveNotional, PipelineInv,
     LedgerProofs!LedgerTypeOK, Ledger!Insert, Insert
<1>4. placer' = IF granted = 0 THEN NotPlacing
                ELSE [step |-> "submit", symbol |-> symbol, side |-> side,
                      quantity |-> granted,
                      contract_size |-> IF m_marketType = "Futures" THEN qty ELSE 0,
                      reservation |-> id, order |-> 0, attempt |-> 1]
  BY DEF evaluateOrder
<1> HIDE DEF granted, id
<1>5. MaxIds \in Nat /\ id \in Nat
  BY <1>3, PipelineAssumption
<1>6. CASE granted = 0
  <2>1. placer' = NotPlacing
    BY <1>4, <1>6
  <2>2. PlacerOK'
    BY <2>1 DEF PlacerOK, NotPlacing
  <2>3. StoredOK'
    BY <1>2, <1>3, <1>5, <2>1 DEF PipelineInv, StoredOK, NotPlacing, id
  <2>4. ReservationsHaveOneOwner'
    BY <1>2, <1>3, <1>6, <2>1 DEF PipelineInv, ReservationsHaveOneOwner, NotPlacing
  <2> QED
    BY <1>2, <2>2, <2>3, <2>4 DEF OwnInv, PipelineInv, HandlerOK, PricesOK,
       CompletedOrdersHoldNothing, InHandler, Handled
<1>7. CASE granted # 0
  <2>1. placer' = [step |-> "submit", symbol |-> symbol, side |-> side,
                   quantity |-> granted,
                   contract_size |-> IF m_marketType = "Futures" THEN qty ELSE 0,
                   reservation |-> id, order |-> 0, attempt |-> 1]
    BY <1>4, <1>7
  <2>2. placer' \in Placing /\ placer'.step = "submit" /\ placer'.order = 0 /\ placer'.reservation = id
    BY <1>1, <1>5, <2>1 DEF Placing
  <2>3. SizeSent(placer') \in Quantities \ {0}
    BY <1>1, <1>7, <2>1 DEF SizeSent
  <2>4. PlacerOK'
    BY <1>3, <1>5, <2>2, <2>3 DEF PlacerOK
  <2>5. StoredOK'
    BY <1>2, <1>3, <1>5, <2>2 DEF PipelineInv, StoredOK, id
  <2>6. id \notin Range(order_reservations)
    BY <1>5 DEF PipelineInv, StoredOK, id, Range
  <2>7. DOMAIN m_pendingReservations' = DOMAIN m_pendingReservations \cup {id}
    BY <1>3, <1>7, InsertDomain
  <2>8. 0 \notin DOMAIN m_pendingReservations
    BY DEF PipelineInv, LedgerProofs!LedgerTypeOK
  <2>9. ReservationsHaveOneOwner'
    BY <1>2, <2>2, <2>6, <2>7, <2>8 DEF PipelineInv, ReservationsHaveOneOwner, NotPlacing
  <2> QED
    BY <1>2, <2>4, <2>5, <2>9 DEF OwnInv, PipelineInv, HandlerOK, PricesOK,
       CompletedOrdersHoldNothing, InHandler, Handled
<1> QED
  BY <1>6, <1>7

\* What an accepted order leaves alone.
LEMMA AcceptLeaves ==
  ASSUME PipelineInv, accept(placer.symbol, placer.side, SizeSent(placer)),
         UNCHANGED <<tracker, threads, ledger, order_reservations, handler>>
  PROVE  HandlerOK' /\ PricesOK' /\ CompletedOrdersHoldNothing'
<1>1. /\ DOMAIN exchange' = DOMAIN exchange \cup {NextOrderId}
      /\ exchange'[NextOrderId].status = "open"
      /\ \A id \in DOMAIN exchange : exchange'[id] = exchange[id]
  BY AcceptedOrder DEF PipelineInv
<1>2. PricesOK'
  BY <1>1 DEF PipelineInv, PricesOK
<1>3. HandlerOK' /\ CompletedOrdersHoldNothing'
  BY DEF PipelineInv, tracker, threads, HandlerOK, CompletedOrdersHoldNothing, InHandler, Handled
<1> QED
  BY <1>2, <1>3

LEMMA AcceptedKeeps ==
  ASSUME PipelineInv, placeAccepted
  PROVE  OwnInv'
<1>1. /\ placer.step = "submit" /\ placer \in Placing
      /\ placer' = [placer EXCEPT !.step = StepAfter("submit"), !.order = NextOrderId]
      /\ accept(placer.symbol, placer.side, SizeSent(placer))
      /\ UNCHANGED <<tracker, threads, ledger, order_reservations, handler>>
  BY DEF placeAccepted, PipelineInv, PlacerOK, NotPlacing
<1>2. /\ NextOrderId \in OrderIds
      /\ NextOrderId \notin DOMAIN exchange
      /\ DOMAIN exchange' = DOMAIN exchange \cup {NextOrderId}
      /\ exchange'[NextOrderId].symbol = placer.symbol
      /\ exchange'[NextOrderId].side = placer.side
  BY <1>1, AcceptedOrder DEF PipelineInv
<1>3. /\ placer' \in Placing
      /\ placer'.step = "store"
      /\ placer'.order = NextOrderId
      /\ placer'.symbol = placer.symbol
      /\ placer'.side = placer.side
      /\ placer'.reservation = placer.reservation
  BY <1>1, <1>2 DEF Placing, StepAfter
<1>4. NextOrderId \notin DOMAIN m_trackedOrders \cup DOMAIN m_completedReports
  BY <1>2 DEF PipelineInv, TrackerInv, TablesOK
<1>5. PlacerOK'
  BY <1>1, <1>2, <1>3, <1>4 DEF PipelineInv, PlacerOK, tracker, ledger
<1>6. StoredOK'
  BY <1>1, <1>2, <1>3 DEF PipelineInv, StoredOK, ledger
<1>7. ReservationsHaveOneOwner'
  BY <1>1, <1>3 DEF PipelineInv, ReservationsHaveOneOwner, ledger
<1> QED
  BY <1>1, <1>5, <1>6, <1>7, AcceptLeaves DEF OwnInv

\* A request sent again, or given up, keeps what the placer holds.
LEMMA RetryKeeps ==
  ASSUME PipelineInv, placer.step = "submit",
         retryOrFail \/ placer' = [placer EXCEPT !.step = "cancel"],
         DOMAIN exchange \subseteq DOMAIN exchange',
         UNCHANGED <<tracker, threads, ledger, order_reservations, handler>>
  PROVE  PlacerOK' /\ StoredOK' /\ ReservationsHaveOneOwner'
<1>1. placer \in Placing
  BY DEF PipelineInv, PlacerOK, NotPlacing
<1>2. /\ placer' \in Placing
      /\ placer'.step \in {"submit", "cancel"}
      /\ placer'.order = placer.order
      /\ placer'.contract_size = placer.contract_size
      /\ placer'.quantity = placer.quantity
      /\ placer'.reservation = placer.reservation
  BY <1>1 DEF retryOrFail, Placing
<1>3. SizeSent(placer)' = SizeSent(placer)
  BY <1>2 DEF SizeSent
<1>4. PlacerOK'
  BY <1>2, <1>3 DEF PipelineInv, PlacerOK, ledger
<1>5. StoredOK'
  BY <1>2 DEF PipelineInv, StoredOK, ledger
<1>6. ReservationsHaveOneOwner'
  BY <1>2 DEF PipelineInv, ReservationsHaveOneOwner, ledger
<1> QED
  BY <1>4, <1>5, <1>6

LEMMA UnansweredKeeps ==
  ASSUME PipelineInv, placeUnanswered
  PROVE  OwnInv'
<1>1. DOMAIN exchange \subseteq DOMAIN exchange'
  BY AcceptedOrder DEF PipelineInv, placeUnanswered
<1> QED
  BY <1>1, RetryKeeps, AcceptLeaves DEF placeUnanswered, OwnInv

\* What a step that leaves the tracker and the orders' reservations alone keeps.
LEMMA TrackerAsWas ==
  ASSUME PipelineInv, UNCHANGED <<trackerVars, order_reservations, handler>>
  PROVE  HandlerOK' /\ PricesOK' /\ CompletedOrdersHoldNothing'
  BY DEF PipelineInv, trackerVars, market, tracker, threads, HandlerOK, PricesOK,
     CompletedOrdersHoldNothing, InHandler, Handled

LEMMA FailedKeeps ==
  ASSUME PipelineInv, placeUndelivered \/ placeRefused
  PROVE  OwnInv'
<1>1. /\ placer.step = "submit"
      /\ retryOrFail \/ placer' = [placer EXCEPT !.step = "cancel"]
      /\ UNCHANGED <<trackerVars, ledger, order_reservations, handler>>
  BY DEF placeUndelivered, placeRefused
<1>2. exchange' = exchange /\ UNCHANGED <<tracker, threads>>
  BY <1>1 DEF trackerVars, market
<1> QED
  BY <1>1, <1>2, RetryKeeps, TrackerAsWas DEF OwnInv

LEMMA CancelKeeps ==
  ASSUME PipelineInv, cancelFailed
  PROVE  OwnInv'
<1>1. /\ placer.step = "cancel"
      /\ m_pendingReservations' = Erase(m_pendingReservations, placer.reservation)
      /\ m_nextReservationId' = m_nextReservationId
      /\ placer' = NotPlacing
      /\ UNCHANGED <<trackerVars, order_reservations, handler>>
  BY DEF cancelFailed, Ledger!cancelReservation, Ledger!Erase, Erase, Ledger!Restrict, Restrict
<1>2. DOMAIN m_pendingReservations' = DOMAIN m_pendingReservations \ {placer.reservation}
  BY <1>1, EraseDomain
<1>3. PlacerOK'
  BY <1>1 DEF PlacerOK, NotPlacing
<1>4. StoredOK'
  BY <1>1 DEF PipelineInv, StoredOK, NotPlacing, trackerVars, market
<1>5. ReservationsHaveOneOwner'
  BY <1>1, <1>2 DEF PipelineInv, ReservationsHaveOneOwner, NotPlacing
<1> QED
  BY <1>1, <1>3, <1>4, <1>5, TrackerAsWas DEF OwnInv

\* The reservation moves from the placer to the order.
LEMMA StoreKeeps ==
  ASSUME PipelineInv, storeReservation
  PROVE  OwnInv'
<1>1. /\ placer.step = "store" /\ placer \in Placing
      /\ placer' = [placer EXCEPT !.step = "track"]
      /\ order_reservations' = Insert(order_reservations, placer.order, placer.reservation)
      /\ UNCHANGED <<trackerVars, ledger, handler>>
  BY DEF storeReservation, proceed, StepAfter, PipelineInv, PlacerOK, NotPlacing
<1>2. /\ placer' \in Placing
      /\ placer'.step = "track"
      /\ placer'.order = placer.order
      /\ placer'.symbol = placer.symbol
      /\ placer'.side = placer.side
      /\ placer'.reservation = placer.reservation
  BY <1>1 DEF Placing
<1>3. UNCHANGED <<exchange, m_trackedOrders, m_completedReports, pc, message,
                  m_pendingReservations, m_nextReservationId>>
  BY <1>1 DEF trackerVars, market, tracker, threads, ledger
<1>4. /\ placer.order \in DOMAIN exchange
      /\ placer.order \notin DOMAIN m_completedReports
      /\ placer.order \notin DOMAIN order_reservations
      /\ placer.reservation \in 1 .. MaxIds /\ placer.reservation < m_nextReservationId
      /\ placer.reservation \notin Range(order_reservations)
  BY <1>1 DEF PipelineInv, PlacerOK, StoredOK, ReservationsHaveOneOwner
<1>5. DOMAIN order_reservations' = DOMAIN order_reservations \cup {placer.order}
  BY <1>1, InsertDomain
<1>6. order_reservations'[placer.order] = placer.reservation
  BY <1>1, InsertKey
<1>7. \A o \in DOMAIN order_reservations : order_reservations'[o] = order_reservations[o]
  BY <1>1, <1>4, InsertOther
<1>8. order_reservations' \in [DOMAIN order_reservations \cup {placer.order} -> 1 .. MaxIds]
  BY <1>1, <1>4, InsertType DEF PipelineInv, StoredOK
<1>9. PlacerOK'
  BY <1>1, <1>2, <1>3 DEF PipelineInv, PlacerOK
<1>10. StoredOK'
  BY <1>2, <1>3, <1>4, <1>5, <1>6, <1>7, <1>8 DEF PipelineInv, StoredOK
<1>11. ReservationsHaveOneOwner'
  <2>1. Range(order_reservations') = Range(order_reservations) \cup {placer.reservation}
    BY <1>5, <1>6, <1>7 DEF Range
  <2>2. \A o \in DOMAIN order_reservations : order_reservations[o] # placer.reservation
    BY <1>4 DEF Range
  <2>3. \A o1, o2 \in DOMAIN order_reservations' :
          order_reservations'[o1] = order_reservations'[o2] => o1 = o2
    BY <1>5, <1>6, <1>7, <2>2 DEF PipelineInv, ReservationsHaveOneOwner
  <2> QED
    BY <1>2, <1>3, <2>1, <2>3 DEF PipelineInv, ReservationsHaveOneOwner
<1>12. CompletedOrdersHoldNothing'
  BY <1>1, <1>3, <1>4, <1>5 DEF PipelineInv, CompletedOrdersHoldNothing, InHandler, Handled
<1>13. HandlerOK' /\ PricesOK'
  BY <1>1, <1>3 DEF PipelineInv, HandlerOK, PricesOK
<1> QED
  BY <1>9, <1>10, <1>11, <1>12, <1>13 DEF OwnInv

LEMMA TrackKeeps ==
  ASSUME PipelineInv, trackPlaced
  PROVE  OwnInv'
<1>1. /\ placer.step = "track" /\ placer' = NotPlacing
      /\ UNCHANGED <<exchange, m_completedReports, pc, message, ledger, order_reservations, handler>>
  BY DEF trackPlaced, proceed, StepAfter, trackOrder, market, threads
<1>2. placer.reservation \in Range(order_reservations)
  BY <1>1 DEF PipelineInv, StoredOK, Range
<1>3. PlacerOK'
  BY <1>1 DEF PlacerOK, NotPlacing
<1>4. StoredOK'
  BY <1>1 DEF PipelineInv, StoredOK, NotPlacing, ledger
<1>5. ReservationsHaveOneOwner'
  BY <1>1, <1>2 DEF PipelineInv, ReservationsHaveOneOwner, NotPlacing, ledger
<1> QED
  BY <1>1, <1>3, <1>4, <1>5 DEF OwnInv, PipelineInv, HandlerOK, PricesOK,
     CompletedOrdersHoldNothing, InHandler, Handled

\* A step of the exchange or the tracker completes orders, at most; a completed
\* order that holds a reservation has a handler that has not begun.
LEMMA TrackerStepKeeps ==
  ASSUME PipelineInv, trackerStep
  PROVE  OwnInv'
<1>1. TrackerMoves /\ PricesOK'
  BY TrackerStepMoves DEF PipelineInv
<1>2. UNCHANGED <<ledger, order_reservations, placer, handler>>
  BY DEF trackerStep
<1>3. PlacerOK'
  BY <1>1, <1>2 DEF PipelineInv, PlacerOK, TrackerMoves, SizeSent, ledger
<1>4. StoredOK'
  BY <1>1, <1>2 DEF PipelineInv, StoredOK, TrackerMoves, ledger
<1>5. HandlerOK'
  BY <1>1, <1>2 DEF PipelineInv, HandlerOK, TrackerMoves
<1>6. ReservationsHaveOneOwner'
  BY <1>2 DEF PipelineInv, ReservationsHaveOneOwner, ledger
<1>7. CompletedOrdersHoldNothing'
  <2> SUFFICES ASSUME NEW o \in DOMAIN m_completedReports' \cap DOMAIN order_reservations
               PROVE  \E t \in Threads : /\ pc'[t] = "callback" /\ handler[t].step = "consume"
                                         /\ message'[t].order = o
    BY <1>2 DEF CompletedOrdersHoldNothing, InHandler, Handled
  <2>1. CASE o \in DOMAIN m_completedReports
    BY <1>1, <2>1 DEF PipelineInv, CompletedOrdersHoldNothing, InHandler, Handled, TrackerMoves
  <2>2. CASE o \notin DOMAIN m_completedReports
    BY <1>1, <2>2 DEF PipelineInv, HandlerOK, NotHandling, TrackerMoves
  <2> QED
    BY <2>1, <2>2
<1> QED
  BY <1>1, <1>3, <1>4, <1>5, <1>6, <1>7 DEF OwnInv

-----------------------------------------------------------------------------
(* The steps of the completion handler                                     *)

\* What the handler's calls of the ledger may do to reservations: release some.
Releases ==
  /\ DOMAIN m_pendingReservations' \subseteq DOMAIN m_pendingReservations
  /\ m_nextReservationId' = m_nextReservationId

LEMMA OpenReleases ==
  ASSUME NEW symbol, NEW qty, NEW price, Ledger!openPosition(symbol, qty, price)
  PROVE  Releases
<1>1. m_nextReservationId' = m_nextReservationId
  BY DEF Ledger!openPosition
<1>2. m_pendingReservations' = m_pendingReservations
        \/ \E id : m_pendingReservations' = Erase(m_pendingReservations, id)
  BY DEF Ledger!openPosition, Ledger!autoConsume, Ledger!Erase, Erase, Ledger!Restrict, Restrict
<1> QED
  BY <1>1, <1>2, EraseDomain DEF Releases

LEMMA CloseReleases ==
  ASSUME NEW id, NEW qty, NEW price, Ledger!closePosition(id, qty, price)
  PROVE  Releases
  BY DEF Ledger!closePosition, Releases

\* They cost no order and no placer its reservation.
LEMMA ReleaseKeeps ==
  ASSUME PipelineInv, Releases,
         UNCHANGED <<exchange, m_trackedOrders, m_completedReports, order_reservations, placer>>
  PROVE  PlacerOK' /\ StoredOK' /\ PricesOK' /\ ReservationsHaveOneOwner'
<1>1. PlacerOK'
  BY DEF PipelineInv, PlacerOK, Releases, SizeSent
<1>2. StoredOK'
  BY DEF PipelineInv, StoredOK, Releases
<1>3. PricesOK'
  BY DEF PipelineInv, PricesOK
<1>4. ReservationsHaveOneOwner'
  BY DEF PipelineInv, ReservationsHaveOneOwner, Releases
<1> QED
  BY <1>1, <1>2, <1>3, <1>4

\* A handler past consuming moves on, or returns, without disturbing another.
LEMMA HandlerMoves ==
  ASSUME PipelineInv, NEW t \in Threads, handler[t].step # "consume",
         NEW h \in [step : {"consume", "book", "close"}, positions : SUBSET (1 .. MaxIds)],
         handler' = [handler EXCEPT ![t] = h],
         \/ UNCHANGED <<pc, message>> /\ pc[t] = "callback"
         \/ returnFromCallback(t) /\ h = NotHandling,
         UNCHANGED <<m_completedReports, order_reservations>>
  PROVE  HandlerOK' /\ CompletedOrdersHoldNothing'
<1>1. \A u \in Threads : u # t => pc'[u] = pc[u] /\ message'[u] = message[u] /\ handler'[u] = handler[u]
  BY DEF PipelineInv, TrackerInv, ThreadsOK, HandlerOK, returnFromCallback
<1>2. handler'[t] = h /\ (pc'[t] = "callback" \/ h = NotHandling)
  BY DEF PipelineInv, HandlerOK
<1>3. HandlerOK'
  <2>1. handler' \in [Threads -> [step : {"consume", "book", "close"}, positions : SUBSET (1 .. MaxIds)]]
    BY DEF PipelineInv, HandlerOK
  <2> QED
    BY <1>1, <1>2, <2>1 DEF PipelineInv, HandlerOK
<1>4. CompletedOrdersHoldNothing'
  BY <1>1 DEF PipelineInv, CompletedOrdersHoldNothing, InHandler, Handled
<1> QED
  BY <1>3, <1>4

LEMMA ConsumeKeeps ==
  ASSUME PipelineInv, NEW t \in Threads, consume(t)
  PROVE  OwnInv'
<1>1. /\ pc[t] = "callback" /\ handler[t].step = "consume"
      /\ handler' = [handler EXCEPT ![t].step = "book"]
      /\ UNCHANGED <<exchange, m_trackedOrders, m_completedReports, pc, message, placer>>
  BY DEF consume, InHandler, trackerVars, market, tracker, threads
<1>2. Handled(t) \in DOMAIN m_completedReports
  BY <1>1 DEF PipelineInv, TrackerInv, ThreadsOK, Handled
<1>3. Releases
  <2>1. CASE Handled(t) \in DOMAIN order_reservations
    <3>1. m_pendingReservations' = Erase(m_pendingReservations, order_reservations[Handled(t)])
      BY <2>1 DEF consume, Ledger!consumeReservation, Ledger!Erase, Erase, Ledger!Restrict, Restrict
    <3>2. DOMAIN m_pendingReservations' =
            DOMAIN m_pendingReservations \ {order_reservations[Handled(t)]}
      BY <3>1, EraseDomain
    <3>3. m_nextReservationId' = m_nextReservationId
      BY <2>1 DEF consume, Ledger!consumeReservation
    <3> QED
      BY <3>2, <3>3 DEF Releases
  <2>2. CASE Handled(t) \notin DOMAIN order_reservations
    BY <2>2 DEF consume, ledger, Releases
  <2> QED
    BY <2>1, <2>2
<1>4. order_reservations' = order_reservations
        \/ order_reservations' = Erase(order_reservations, Handled(t))
  BY DEF consume
<1>5. /\ DOMAIN order_reservations' = DOMAIN order_reservations \ {Handled(t)}
      /\ \A o \in DOMAIN order_reservations' : order_reservations'[o] = order_reservations[o]
      /\ order_reservations' \in [DOMAIN order_reservations' -> 1 .. MaxIds]
  <2>1. CASE Handled(t) \in DOMAIN order_reservations
    <3>1. order_reservations' = Erase(order_reservations, Handled(t))
      BY <2>1 DEF consume
    <3>2. DOMAIN order_reservations' = DOMAIN order_reservations \ {Handled(t)}
      BY <3>1, EraseDomain
    <3>3. \A o \in DOMAIN order_reservations' : order_reservations'[o] = order_reservations[o]
      BY <3>1, <3>2, EraseOther
    <3>4. order_reservations' \in [DOMAIN order_reservations \ {Handled(t)} -> 1 .. MaxIds]
      BY <3>1, EraseType DEF PipelineInv, StoredOK
    <3> QED
      BY <3>2, <3>3, <3>4
  <2>2. CASE Handled(t) \notin DOMAIN order_reservations
    BY <2>2 DEF consume, PipelineInv, StoredOK
  <2> QED
    BY <2>1, <2>2
<1>6. PlacerOK'
  BY <1>1, <1>3 DEF PipelineInv, PlacerOK, Releases, SizeSent
<1>7. StoredOK'
  BY <1>1, <1>2, <1>3, <1>5 DEF PipelineInv, StoredOK, PlacerOK, Releases
<1>8. ReservationsHaveOneOwner'
  <2>1. DOMAIN m_pendingReservations' \subseteq Range(order_reservations') \cup {placer.reservation}
    <3>1. CASE Handled(t) \in DOMAIN order_reservations
      <4>1. m_pendingReservations' = Erase(m_pendingReservations, order_reservations[Handled(t)])
        BY <3>1 DEF consume, Ledger!consumeReservation, Ledger!Erase, Erase, Ledger!Restrict, Restrict
      <4>2. DOMAIN m_pendingReservations' =
              DOMAIN m_pendingReservations \ {order_reservations[Handled(t)]}
        BY <4>1, EraseDomain
      <4> QED
        BY <1>5, <4>2 DEF PipelineInv, ReservationsHaveOneOwner, Range
    <3>2. CASE Handled(t) \notin DOMAIN order_reservations
      BY <3>2 DEF consume, ledger, PipelineInv, ReservationsHaveOneOwner
    <3> QED
      BY <3>1, <3>2
  <2>2. \A o1, o2 \in DOMAIN order_reservations' :
          order_reservations'[o1] = order_reservations'[o2] => o1 = o2
    BY <1>5 DEF PipelineInv, ReservationsHaveOneOwner
  <2>3. Range(order_reservations') \subseteq Range(order_reservations)
    BY <1>5 DEF Range
  <2> QED
    BY <1>1, <2>1, <2>2, <2>3 DEF PipelineInv, ReservationsHaveOneOwner
<1>9. HandlerOK'
  BY <1>1 DEF PipelineInv, HandlerOK
<1>10. CompletedOrdersHoldNothing'
  <2>1. \A u \in Threads : u # t => handler'[u] = handler[u]
    BY <1>1 DEF PipelineInv, HandlerOK
  <2> QED
    BY <1>1, <1>5, <2>1 DEF PipelineInv, CompletedOrdersHoldNothing, InHandler, Handled
<1>11. PricesOK'
  BY <1>1 DEF PipelineInv, PricesOK
<1> QED
  BY <1>6, <1>7, <1>8, <1>9, <1>10, <1>11 DEF OwnInv

LEMMA BookBuyKeeps ==
  ASSUME PipelineInv, NEW t \in Threads, bookBuy(t)
  PROVE  OwnInv'
<1>1. Releases
  BY OpenReleases DEF bookBuy, ledger, Releases
<1>2. /\ handler[t].step = "book" /\ returnFromCallback(t)
      /\ handler' = [handler EXCEPT ![t] = NotHandling]
      /\ UNCHANGED <<exchange, m_trackedOrders, m_completedReports, order_reservations, placer>>
  BY DEF bookBuy, InHandler, return, market, tracker
<1>3. NotHandling \in [step : {"consume", "book", "close"}, positions : SUBSET (1 .. MaxIds)]
  BY DEF NotHandling
<1> QED
  BY <1>1, <1>2, <1>3, ReleaseKeeps, HandlerMoves DEF OwnInv

LEMMA EndSellKeeps ==
  ASSUME PipelineInv, NEW t \in Threads, endSell(t)
  PROVE  OwnInv'
<1>1. Releases
  BY DEF endSell, ledger, Releases
<1>2. /\ handler[t].step = "close" /\ returnFromCallback(t)
      /\ handler' = [handler EXCEPT ![t] = NotHandling]
      /\ UNCHANGED <<exchange, m_trackedOrders, m_completedReports, order_reservations, placer>>
  BY DEF endSell, InHandler, return, market, tracker
<1>3. NotHandling \in [step : {"consume", "book", "close"}, positions : SUBSET (1 .. MaxIds)]
  BY DEF NotHandling
<1> QED
  BY <1>1, <1>2, <1>3, ReleaseKeeps, HandlerMoves DEF OwnInv

LEMMA BookSellKeeps ==
  ASSUME PipelineInv, NEW t \in Threads, bookSell(t)
  PROVE  OwnInv'
<1> DEFINE ids == Ledger!OfSymbol(m_positions, Report(t).symbol)
           h == [step |-> "close", positions |-> ids]
<1>1. Releases
  BY DEF bookSell, ledger, Releases
<1>2. /\ handler[t].step = "book" /\ pc[t] = "callback"
      /\ handler' = [handler EXCEPT ![t] = h]
      /\ UNCHANGED <<pc, message>>
      /\ UNCHANGED <<exchange, m_trackedOrders, m_completedReports, order_reservations, placer>>
  BY DEF bookSell, InHandler, trackerVars, market, tracker, threads
<1>3. ids \subseteq 1 .. MaxIds
  BY PipelineAssumption DEF Ledger!OfSymbol, PipelineInv, LedgerProofs!LedgerTypeOK
<1>4. h \in [step : {"consume", "book", "close"}, positions : SUBSET (1 .. MaxIds)]
  BY <1>3
<1> HIDE DEF h
<1> QED
  BY <1>1, <1>2, <1>4, ReleaseKeeps, HandlerMoves DEF OwnInv

LEMMA CloseNextKeeps ==
  ASSUME PipelineInv, NEW t \in Threads, closeNext(t)
  PROVE  OwnInv'
<1>1. PICK id \in handler[t].positions :
        /\ IF id \in DOMAIN m_positions
           THEN Ledger!closePosition(id, Report(t).filled, Report(t).price)
           ELSE UNCHANGED ledger
        /\ handler' = [handler EXCEPT ![t].positions = @ \ {id}]
  BY DEF closeNext
<1> DEFINE h == [step |-> "close", positions |-> handler[t].positions \ {id}]
<1>2. Releases
  BY <1>1, CloseReleases DEF ledger, Releases
<1>3. /\ handler[t].step = "close" /\ pc[t] = "callback"
      /\ UNCHANGED <<pc, message>>
      /\ UNCHANGED <<exchange, m_trackedOrders, m_completedReports, order_reservations, placer>>
  BY DEF closeNext, InHandler, trackerVars, market, tracker, threads
<1>4. handler[t] \in [step : {"consume", "book", "close"}, positions : SUBSET (1 .. MaxIds)]
  BY DEF PipelineInv, HandlerOK
<1>5. h \in [step : {"consume", "book", "close"}, positions : SUBSET (1 .. MaxIds)]
  BY <1>4
<1>6. [handler[t] EXCEPT !.positions = @ \ {id}] = h
  BY <1>3, <1>4
<1>7. handler' = [handler EXCEPT ![t] = h]
  BY <1>1, <1>6 DEF PipelineInv, HandlerOK
<1> HIDE DEF h
<1> QED
  BY <1>2, <1>3, <1>5, <1>7, ReleaseKeeps, HandlerMoves DEF OwnInv

-----------------------------------------------------------------------------
(* Every step is one of the tracker and one of the ledger, or leaves them   *)
(* alone.                                                                   *)

\* The application uses the tracker as TrackerSpec has it used.
LEMMA StepOfTracker ==
  ASSUME PipelineInv, [PipelineNext]_pipelineVars
  PROVE  [TrackerNext]_trackerVars
<1>1. ASSUME NEW symbol \in Symbols, NEW side \in Sides, NEW qty \in Quantities \ {0},
             NEW price \in SignalPrices, evaluateOrder(symbol, side, qty, price)
      PROVE  UNCHANGED trackerVars
  BY <1>1 DEF evaluateOrder
<1>2. ASSUME placeAccepted \/ placeUnanswered
      PROVE  place
  <2>1. /\ placer.step = "submit" /\ placer \in Placing
        /\ accept(placer.symbol, placer.side, SizeSent(placer))
        /\ UNCHANGED <<updates, tracker, threads>>
    BY <1>2 DEF placeAccepted, placeUnanswered, PipelineInv, PlacerOK, NotPlacing
  <2>2. placer.symbol \in Symbols /\ placer.side \in Sides /\ SizeSent(placer) \in Quantities \ {0}
    BY <2>1 DEF Placing, PipelineInv, PlacerOK
  <2> QED
    BY <2>1, <2>2 DEF place
<1>3. ASSUME placeUndelivered \/ placeRefused \/ cancelFailed \/ storeReservation
      PROVE  UNCHANGED trackerVars
  BY <1>3 DEF placeUndelivered, placeRefused, cancelFailed, storeReservation
<1>4. ASSUME trackPlaced
      PROVE  trackSome
  <2>1. placer.order \in DOMAIN exchange \ (DOMAIN m_trackedOrders \cup DOMAIN m_completedReports)
    BY <1>4 DEF trackPlaced, PipelineInv, PlacerOK
  <2>2. trackOrder(placer.order, exchange[placer.order].symbol, exchange[placer.order].side)
    BY <1>4 DEF trackPlaced, PipelineInv, PlacerOK
  <2> QED
    BY <1>4, <2>1, <2>2 DEF trackPlaced, trackSome
<1>5. ASSUME trackerStep
      PROVE  TrackerNext
  <2>1. DOMAIN m_trackedOrders \subseteq DOMAIN exchange
    BY DEF PipelineInv, TrackerInv, TablesOK
  <2> QED
    BY <1>5, <2>1 DEF trackerStep, TrackerNext
<1>6. ASSUME NEW t \in Threads, completion_handler(t)
      PROVE  deliver(t) \/ UNCHANGED trackerVars
  BY <1>6 DEF completion_handler, consume, bookBuy, bookSell, closeNext, endSell, return, deliver
<1>7. ASSUME UNCHANGED pipelineVars
      PROVE  UNCHANGED trackerVars
  BY <1>7 DEF pipelineVars
<1> QED
  BY <1>1, <1>2, <1>3, <1>4, <1>5, <1>6, <1>7 DEF PipelineNext, placerStep, TrackerNext

\* A report quotes quantities and prices the ledger can be called with.
LEMMA ReportedFill ==
  ASSUME PipelineInv, NEW t \in Threads, pc[t] = "callback"
  PROVE  /\ Report(t).symbol \in Symbols
         /\ Report(t).filled \in Quantities
         /\ Report(t).price \in SignalPrices \cup FillPrices
<1>1. Handled(t) \in DOMAIN m_completedReports /\ Handled(t) \in DOMAIN exchange
  BY DEF PipelineInv, TrackerInv, ThreadsOK, TablesOK, Handled
<1>2. Report(t) \in Tracked
  BY <1>1 DEF PipelineInv, TrackerInv, TablesOK, Report
<1>3. Report(t).price = exchange[Handled(t)].price /\ exchange[Handled(t)].status \in EndStatus
  BY <1>1 DEF PipelineInv, TrackerInv, TablesOK, ReportIsFinal, Report
<1>4. Report(t).price \in FillPrices
  BY <1>1, <1>3, EndStatuses DEF PipelineInv, PricesOK
<1> QED
  BY <1>2, <1>4 DEF Tracked

\* The application calls the ledger as LedgerSpec has it called.
LEMMA StepOfLedger ==
  ASSUME PipelineInv, [PipelineNext]_pipelineVars
  PROVE  Ledger!LedgerNext \/ UNCHANGED ledger
<1>1. ASSUME NEW symbol \in Symbols, NEW side \in Sides, NEW qty \in Quantities \ {0},
             NEW price \in SignalPrices, evaluateOrder(symbol, side, qty, price)
      PROVE  Ledger!LedgerNext
  BY <1>1 DEF evaluateOrder, Ledger!LedgerNext
<1>2. ASSUME placeAccepted \/ placeUnanswered \/ placeUndelivered \/ placeRefused
               \/ storeReservation \/ trackPlaced
      PROVE  UNCHANGED ledger
  BY <1>2 DEF placeAccepted, placeUnanswered, placeUndelivered, placeRefused,
     storeReservation, trackPlaced
<1>3. ASSUME cancelFailed
      PROVE  Ledger!LedgerNext
  <2>1. placer.reservation \in 1 .. MaxIds
    BY <1>3 DEF cancelFailed, PipelineInv, PlacerOK
  <2> QED
    BY <1>3, <2>1 DEF cancelFailed, Ledger!LedgerNext
<1>4. ASSUME trackerStep
      PROVE  UNCHANGED ledger
  BY <1>4 DEF trackerStep
<1>5. ASSUME NEW t \in Threads, consume(t)
      PROVE  Ledger!LedgerNext \/ UNCHANGED ledger
  <2>1. CASE Handled(t) \in DOMAIN order_reservations
    <3>1. order_reservations[Handled(t)] \in 1 .. MaxIds
      BY <2>1 DEF PipelineInv, StoredOK
    <3> QED
      BY <1>5, <2>1, <3>1 DEF consume, Ledger!LedgerNext
  <2>2. CASE Handled(t) \notin DOMAIN order_reservations
    BY <1>5, <2>2 DEF consume
  <2> QED
    BY <2>1, <2>2
<1>6. ASSUME NEW t \in Threads, bookBuy(t)
      PROVE  Ledger!LedgerNext \/ UNCHANGED ledger
  <2>1. /\ Report(t).symbol \in Symbols
        /\ Report(t).filled \in Quantities
        /\ Report(t).price \in SignalPrices \cup FillPrices
    BY <1>6, ReportedFill DEF bookBuy, InHandler
  <2>2. Ledger!openPosition(Report(t).symbol, Report(t).filled, Report(t).price) \/ UNCHANGED ledger
    BY <1>6 DEF bookBuy
  <2> QED
    BY <2>1, <2>2 DEF Ledger!LedgerNext
<1>7. ASSUME NEW t \in Threads, closeNext(t)
      PROVE  Ledger!LedgerNext \/ UNCHANGED ledger
  <2>1. /\ Report(t).filled \in Quantities
        /\ Report(t).price \in SignalPrices \cup FillPrices
    BY <1>7, ReportedFill DEF closeNext, InHandler
  <2>2. \/ \E id \in DOMAIN m_positions : Ledger!closePosition(id, Report(t).filled, Report(t).price)
        \/ UNCHANGED ledger
    BY <1>7 DEF closeNext
  <2> QED
    BY <2>1, <2>2 DEF Ledger!LedgerNext
<1>8. ASSUME NEW t \in Threads, bookSell(t) \/ endSell(t)
      PROVE  UNCHANGED ledger
  BY <1>8 DEF bookSell, endSell
<1>9. ASSUME UNCHANGED pipelineVars
      PROVE  UNCHANGED ledger
  BY <1>9 DEF pipelineVars
<1> QED
  BY <1>1, <1>2, <1>3, <1>4, <1>5, <1>6, <1>7, <1>8, <1>9
     DEF PipelineNext, placerStep, completion_handler

-----------------------------------------------------------------------------
(* A fill is booked once: the handlers still to book a buy are counted      *)
(* together with the positions already opened.                              *)

\* The threads whose handler runs for a completed buy.
Booking == {t \in Threads : pc[t] = "callback" /\ Report(t).side = "Buy"}

BookedInv == IsFiniteSet(Booking) /\ FillsAreBookedOnce

\* The buys completed so far can be counted.
LEMMA CompletedBuysAreFinite ==
  ASSUME TrackerInv
  PROVE  IsFiniteSet(CompletedBuys) /\ Cardinality(CompletedBuys) \in Nat
<1>1. PICK n \in 0 .. MaxOrders : DOMAIN exchange = 1 .. n
  BY DEF TrackerInv, ExchangeOK
<1>2. CompletedBuys \in SUBSET (1 .. n)
  BY <1>1 DEF TrackerInv, TablesOK, CompletedBuys
<1>3. IsFiniteSet(1 .. n)
  BY FS_Interval, TrackerAssumption
<1>4. IsFiniteSet(CompletedBuys)
  BY <1>2, <1>3, FS_Subset
<1> QED
  BY <1>4, FS_CardinalityType

\* With the same reports and positions, no more handlers have something to book.
LEMMA NoNewBooking ==
  ASSUME PipelineInv, BookedInv, m_completedReports' = m_completedReports,
         m_nextPositionId' = m_nextPositionId,
         \A t \in Threads : pc'[t] = "callback" => pc[t] = "callback" /\ message'[t] = message[t]
  PROVE  BookedInv'
<1>1. Booking' \in SUBSET Booking
  BY DEF Booking, Report, Handled
<1>2. IsFiniteSet(Booking') /\ Cardinality(Booking') <= Cardinality(Booking)
  BY <1>1, FS_Subset DEF BookedInv
<1>3. Cardinality(Booking) \in Nat /\ Cardinality(Booking') \in Nat
  BY <1>2, FS_CardinalityType DEF BookedInv
<1>4. CompletedBuys' = CompletedBuys
  BY DEF CompletedBuys
<1>5. Cardinality(CompletedBuys) \in Nat /\ m_nextPositionId \in Nat
  BY CompletedBuysAreFinite, PipelineAssumption DEF PipelineInv, LedgerProofs!LedgerTypeOK
<1>6. m_nextPositionId' + Cardinality(Booking') <= Cardinality(CompletedBuys')
  BY <1>2, <1>3, <1>4, <1>5 DEF BookedInv, FillsAreBookedOnce, Booking
<1> QED
  BY <1>2, <1>6 DEF BookedInv, FillsAreBookedOnce, Booking

\* A completion adds one report and, when it is that of a buy, one handler to book it.
LEMMA CompletionBooks ==
  ASSUME PipelineInv, BookedInv, NEW t \in Threads, NEW m, pc[t] # "callback",
         completeOrder(t, m), m_nextPositionId' = m_nextPositionId
  PROVE  BookedInv'
<1>1. /\ m.order \in DOMAIN m_trackedOrders /\ m.order \notin DOMAIN m_completedReports
      /\ DOMAIN m_completedReports' = DOMAIN m_completedReports \cup {m.order}
      /\ \A o \in DOMAIN m_completedReports : m_completedReports'[o] = m_completedReports[o]
  <2>1. m.order \in DOMAIN m_trackedOrders /\ m.order \notin DOMAIN m_completedReports
    BY DEF completeOrder, PipelineInv, TrackerInv, TablesOK
  <2>2. m_completedReports' = Insert(m_completedReports, m.order, Updated(m_trackedOrders[m.order], m))
    BY DEF completeOrder
  <2>3. DOMAIN m_completedReports' = DOMAIN m_completedReports \cup {m.order}
    BY <2>2, InsertDomain
  <2>4. \A o \in DOMAIN m_completedReports : m_completedReports'[o] = m_completedReports[o]
    BY <2>1, <2>2, InsertOther
  <2> QED
    BY <2>1, <2>3, <2>4
<1>2. /\ pc'[t] = "callback" /\ message'[t] = m
      /\ \A u \in Threads : u # t => pc'[u] = pc[u] /\ message'[u] = message[u]
  BY DEF completeOrder, PipelineInv, TrackerInv, ThreadsOK
<1>3. \A u \in Threads : pc[u] = "callback" => message[u].order \in DOMAIN m_completedReports
  BY DEF PipelineInv, TrackerInv, ThreadsOK
<1>4. t \notin Booking /\ m.order \notin CompletedBuys
  BY <1>1 DEF Booking, CompletedBuys
<1>5. /\ IsFiniteSet(Booking) /\ Cardinality(Booking) \in Nat
      /\ IsFiniteSet(CompletedBuys) /\ Cardinality(CompletedBuys) \in Nat
      /\ m_nextPositionId \in Nat
  BY CompletedBuysAreFinite, FS_CardinalityType, PipelineAssumption
     DEF BookedInv, PipelineInv, LedgerProofs!LedgerTypeOK
<1>6. CASE m_completedReports'[m.order].side = "Buy"
  <2>1. Booking' = Booking \cup {t}
    BY <1>1, <1>2, <1>3, <1>6 DEF Booking, Report, Handled
  <2>2. CompletedBuys' = CompletedBuys \cup {m.order}
    BY <1>1, <1>6 DEF CompletedBuys
  <2>3. IsFiniteSet(Booking') /\ Cardinality(Booking') = Cardinality(Booking) + 1
    BY <1>4, <1>5, <2>1, FS_AddElement
  <2>4. Cardinality(CompletedBuys') = Cardinality(CompletedBuys) + 1
    BY <1>4, <1>5, <2>2, FS_AddElement
  <2>5. m_nextPositionId' + Cardinality(Booking') <= Cardinality(CompletedBuys')
    BY <1>5, <2>3, <2>4 DEF BookedInv, FillsAreBookedOnce, Booking
  <2> QED
    BY <2>3, <2>5 DEF BookedInv, FillsAreBookedOnce, Booking
<1>7. CASE m_completedReports'[m.order].side # "Buy"
  <2>1. Booking' = Booking
    BY <1>1, <1>2, <1>3, <1>4, <1>7 DEF Booking, Report, Handled
  <2>2. CompletedBuys' = CompletedBuys
    BY <1>1, <1>7 DEF CompletedBuys
  <2> QED
    BY <2>1, <2>2 DEF BookedInv, FillsAreBookedOnce, Booking
<1> QED
  BY <1>6, <1>7

\* A thread applies a message while the ledger stays as it is.
LEMMA ProcessBooks ==
  ASSUME PipelineInv, BookedInv, NEW t \in Threads, NEW m, pc[t] # "callback",
         processUpdate(t, m), m_nextPositionId' = m_nextPositionId
  PROVE  BookedInv'
<1>1. CASE completeOrder(t, m)
  BY <1>1, CompletionBooks
<1>2. CASE ignoreUpdate(t, m) \/ recordUpdate(t, m)
  <2>1. m_completedReports' = m_completedReports
    BY <1>2 DEF ignoreUpdate, recordUpdate, tracker
  <2>2. \A u \in Threads : pc'[u] = "callback" => pc[u] = "callback" /\ message'[u] = message[u]
    BY <1>2 DEF ignoreUpdate, recordUpdate, PipelineInv, TrackerInv, ThreadsOK
  <2> QED
    BY <2>1, <2>2, NoNewBooking
<1> QED
  BY <1>1, <1>2 DEF processUpdate

LEMMA TrackerStepBooks ==
  ASSUME PipelineInv, BookedInv, trackerStep
  PROVE  BookedInv'
<1>1. m_nextPositionId' = m_nextPositionId
  BY DEF trackerStep, ledger
<1>2. CASE advanceSome \/ loseUpdates
  BY <1>1, <1>2, NoNewBooking DEF advanceSome, advance, loseUpdates, tracker, threads
<1>3. CASE \E t \in Pollers : \E id \in DOMAIN m_trackedOrders : pollRequest(t, id)
  <2>1. PICK t \in Pollers : \E id \in DOMAIN m_trackedOrders : pollRequest(t, id)
    BY <1>3
  <2>2. m_completedReports' = m_completedReports
    BY <2>1 DEF pollRequest, tracker
  <2>3. \A u \in Threads : pc'[u] = "callback" => pc[u] = "callback" /\ message'[u] = message[u]
    BY <2>1 DEF pollRequest, PipelineInv, TrackerInv, ThreadsOK, Threads
  <2> QED
    BY <1>1, <2>2, <2>3, NoNewBooking
<1>4. CASE \E t \in Pollers : pollResponse(t)
  BY <1>1, <1>4, ProcessBooks DEF pollResponse, Threads
<1>5. CASE onOrderUpdate
  <2>1. CASE EventHasResult
    BY <1>1, <1>5, <2>1, ProcessBooks DEF onOrderUpdate, Threads
  <2>2. CASE ~ EventHasResult
    BY <1>1, <1>5, <2>2, NoNewBooking DEF onOrderUpdate, tracker, threads
  <2> QED
    BY <2>1, <2>2
<1> QED
  BY <1>2, <1>3, <1>4, <1>5 DEF trackerStep

\* The placer completes and opens nothing.
LEMMA PlacerBooks ==
  ASSUME PipelineInv, BookedInv,
         \/ placerStep
         \/ \E symbol \in Symbols, side \in Sides, qty \in Quantities \ {0}, price \in SignalPrices :
              evaluateOrder(symbol, side, qty, price)
  PROVE  BookedInv'
<1>1. UNCHANGED <<m_completedReports, pc, message>>
  BY DEF placerStep, placeAccepted, placeUnanswered, placeUndelivered, placeRefused,
         cancelFailed, storeReservation, trackPlaced, trackOrder, evaluateOrder,
         trackerVars, tracker, threads
<1>2. m_nextPositionId' = m_nextPositionId
  BY DEF placerStep, placeAccepted, placeUnanswered, placeUndelivered, placeRefused,
         cancelFailed, storeReservation, trackPlaced, evaluateOrder, ledger,
         Ledger!cancelReservation, Ledger!reserveNotional
<1> QED
  BY <1>1, <1>2, NoNewBooking

\* The handler of a buy opens at most one position, and is done with it.
LEMMA BuyBooks ==
  ASSUME PipelineInv, BookedInv, NEW t \in Threads, bookBuy(t)
  PROVE  BookedInv'
<1>1. /\ t \in Booking
      /\ m_completedReports' = m_completedReports
      /\ m_nextPositionId' \in {m_nextPositionId, m_nextPositionId + 1}
  BY DEF bookBuy, InHandler, Booking, return, tracker, ledger, Ledger!openPosition
<1>2. /\ pc'[t] = "idle"
      /\ \A u \in Threads : u # t => pc'[u] = pc[u] /\ message'[u] = message[u]
  BY DEF bookBuy, return, returnFromCallback, PipelineInv, TrackerInv, ThreadsOK
<1>3. Booking' = Booking \ {t}
  BY <1>1, <1>2 DEF Booking, Report, Handled
<1>4. IsFiniteSet(Booking') /\ Cardinality(Booking') = Cardinality(Booking) - 1
  BY <1>1, <1>3, FS_RemoveElement DEF BookedInv
<1>5. CompletedBuys' = CompletedBuys
  BY <1>1 DEF CompletedBuys
<1>6. Cardinality(Booking) \in Nat /\ Cardinality(CompletedBuys) \in Nat /\ m_nextPositionId \in Nat
  BY CompletedBuysAreFinite, FS_CardinalityType, PipelineAssumption
     DEF BookedInv, PipelineInv, LedgerProofs!LedgerTypeOK
<1>7. m_nextPositionId' + Cardinality(Booking') <= Cardinality(CompletedBuys')
  BY <1>1, <1>4, <1>5, <1>6 DEF BookedInv, FillsAreBookedOnce, Booking
<1> QED
  BY <1>4, <1>7 DEF BookedInv, FillsAreBookedOnce, Booking

\* The other steps of a handler open nothing.
LEMMA HandlerBooks ==
  ASSUME PipelineInv, BookedInv, NEW t \in Threads,
         consume(t) \/ bookSell(t) \/ closeNext(t) \/ endSell(t)
  PROVE  BookedInv'
<1>1. m_completedReports' = m_completedReports
  BY DEF consume, bookSell, closeNext, endSell, return, trackerVars, tracker
<1>2. m_nextPositionId' = m_nextPositionId
  BY DEF consume, bookSell, closeNext, endSell, ledger,
         Ledger!consumeReservation, Ledger!closePosition
<1>3. \A u \in Threads : pc'[u] = "callback" => pc[u] = "callback" /\ message'[u] = message[u]
  BY DEF consume, bookSell, closeNext, endSell, return, returnFromCallback, trackerVars, threads,
         PipelineInv, TrackerInv, ThreadsOK
<1> QED
  BY <1>1, <1>2, <1>3, NoNewBooking

LEMMA BookedStep == PipelineInv /\ BookedInv /\ [PipelineNext]_pipelineVars => BookedInv'
<1> SUFFICES ASSUME PipelineInv, BookedInv, [PipelineNext]_pipelineVars PROVE BookedInv'
  OBVIOUS
<1>1. CASE UNCHANGED pipelineVars
  BY <1>1, NoNewBooking DEF pipelineVars, trackerVars, tracker, threads, ledger
<1>2. CASE PipelineNext
  BY <1>2, PlacerBooks, TrackerStepBooks, BuyBooks, HandlerBooks DEF PipelineNext, completion_handler
<1> QED
  BY <1>1, <1>2

LEMMA BookedInit == PipelineInit => BookedInv
<1> SUFFICES ASSUME PipelineInit PROVE BookedInv
  OBVIOUS
<1>1. Booking = {} /\ m_completedReports = EmptyMap /\ m_nextPositionId = 0
  BY DEF PipelineInit, TrackerInit, Booking, Ledger!LedgerInit
<1>2. CompletedBuys = {}
  BY <1>1, EmptyMapDomain DEF CompletedBuys
<1> QED
  BY <1>1, <1>2, FS_EmptySet DEF BookedInv, FillsAreBookedOnce, Booking

-----------------------------------------------------------------------------
(* Positions are backed by fills                                           *)

\* The books are summed over finite sets of naturals.
LEMMA BooksAreFinite ==
  ASSUME PipelineInv, NEW symbol
  PROVE  /\ IsFiniteSet(BookedBuys(symbol))
         /\ BookedBuys(symbol) \subseteq DOMAIN exchange
         /\ \A o \in DOMAIN exchange : exchange[o].filled \in Nat
         /\ IsFiniteSet(Ledger!OfSymbol(m_positions, symbol))
         /\ \A id \in DOMAIN m_positions : m_positions[id].quantity \in Nat
<1>1. IsFiniteSet(CompletedBuys) /\ BookedBuys(symbol) \in SUBSET CompletedBuys
  BY CompletedBuysAreFinite DEF PipelineInv, BookedBuys
<1>2. IsFiniteSet(BookedBuys(symbol))
  BY <1>1, FS_Subset
<1>3. BookedBuys(symbol) \subseteq DOMAIN exchange
  BY <1>1 DEF CompletedBuys, PipelineInv, TrackerInv, TablesOK
<1>4. \A o \in DOMAIN exchange : exchange[o].filled \in Nat
  BY TrackerAssumption DEF PipelineInv, TrackerInv, ExchangeOK, Order
<1>5. /\ m_nextPositionId \in Nat /\ DOMAIN m_positions \subseteq 1 .. m_nextPositionId
      /\ m_positions \in [DOMAIN m_positions -> LedgerProofs!Position]
  BY PipelineAssumption DEF PipelineInv, LedgerProofs!LedgerTypeOK
<1>6. \A id \in DOMAIN m_positions : m_positions[id].quantity \in Nat
  BY <1>5 DEF LedgerProofs!Position
<1>7. Ledger!OfSymbol(m_positions, symbol) \in SUBSET (1 .. m_nextPositionId)
  BY <1>5 DEF Ledger!OfSymbol
<1>8. IsFiniteSet(Ledger!OfSymbol(m_positions, symbol))
  BY <1>5, <1>7, FS_Interval, FS_Subset
<1> QED
  BY <1>2, <1>3, <1>4, <1>6, <1>8

\* What is held and what is filled, as naturals.
LEMMA BooksAreNaturals ==
  ASSUME PipelineInv, NEW symbol
  PROVE  Held(symbol) \in Nat /\ Filled(BookedBuys(symbol)) \in Nat
<1>1. \A o \in BookedBuys(symbol) : [x \in DOMAIN exchange |-> exchange[x].filled][o] \in Nat
  BY BooksAreFinite
<1>2. \A id \in Ledger!OfSymbol(m_positions, symbol) :
        [x \in DOMAIN m_positions |-> m_positions[x].quantity][id] \in Nat
  BY BooksAreFinite DEF Ledger!OfSymbol
<1>3. Filled(BookedBuys(symbol)) \in Nat
  BY <1>1, BooksAreFinite, SumIsNat DEF Filled
<1>4. Held(symbol) \in Nat
  BY <1>2, BooksAreFinite, SumIsNat DEF Held
<1> QED
  BY <1>3, <1>4

\* The same reports, and no handler of a buy that returns: the same booked buys.
BooksStay ==
  \A o \in DOMAIN m_completedReports' :
    /\ o \in DOMAIN m_completedReports => m_completedReports'[o] = m_completedReports[o]
    /\ m_completedReports'[o].side = "Buy" =>
         ((\E t \in Threads : pc'[t] = "callback" /\ message'[t].order = o)
           <=> (o \notin DOMAIN m_completedReports
                 \/ \E t \in Threads : pc[t] = "callback" /\ message[t].order = o))

LEMMA SameBooked ==
  ASSUME BooksStay, DOMAIN m_completedReports \subseteq DOMAIN m_completedReports', NEW symbol
  PROVE  BookedBuys(symbol)' = BookedBuys(symbol)
  BY DEF BooksStay, BookedBuys, CompletedBuys, Handled

\* What the exchange filled of completed orders stays as it is.
LEMMA FillsStay ==
  ASSUME PipelineInv, Moves(exchange, exchange'), NEW symbol
  PROVE  SumFunctionOnSet([o \in DOMAIN exchange' |-> exchange'[o].filled], BookedBuys(symbol))
           = Filled(BookedBuys(symbol))
<1> DEFINE S == BookedBuys(symbol)
           f == [o \in DOMAIN exchange' |-> exchange'[o].filled]
           e == [o \in DOMAIN exchange |-> exchange[o].filled]
<1>1. \A o \in S : o \in DOMAIN exchange /\ exchange[o].status \in EndStatus
  BY DEF BookedBuys, CompletedBuys, PipelineInv, TrackerInv, TablesOK, ReportIsFinal
<1>2. \A o \in S : f[o] = e[o]
  BY <1>1, EndStatuses DEF Moves
<1>3. IsFiniteSet(S)
  BY BooksAreFinite
<1> HIDE DEF S, f, e
<1>4. SumFunctionOnSet(f, S) = SumFunctionOnSet(e, S)
  BY <1>2, <1>3, SumOfSame
<1> QED
  BY <1>4 DEF S, f, e, Filled

\* A step that books nothing leaves the positions backed if none of them grows.
LEMMA BackedStays ==
  ASSUME PipelineInv, PositionsAreBacked, Moves(exchange, exchange'), BooksStay,
         DOMAIN m_completedReports \subseteq DOMAIN m_completedReports',
         \A symbol \in Symbols : Held(symbol)' \in Nat /\ Held(symbol)' <= Held(symbol)
  PROVE  PositionsAreBacked'
<1> SUFFICES ASSUME NEW symbol \in Symbols
             PROVE  Held(symbol)' <= Filled(BookedBuys(symbol))'
  BY DEF PositionsAreBacked
<1>1. Filled(BookedBuys(symbol))' = Filled(BookedBuys(symbol))
  BY SameBooked, FillsStay DEF Filled
<1>2. Held(symbol) <= Filled(BookedBuys(symbol))
  BY DEF PositionsAreBacked
<1>3. Held(symbol) \in Nat /\ Filled(BookedBuys(symbol)) \in Nat
  BY BooksAreNaturals
<1> QED
  BY <1>1, <1>2, <1>3

LEMMA SameHeld ==
  ASSUME PipelineInv, m_positions' = m_positions
  PROVE  \A symbol \in Symbols : Held(symbol)' \in Nat /\ Held(symbol)' <= Held(symbol)
<1> TAKE symbol \in Symbols
<1>1. Held(symbol)' = Held(symbol) /\ Held(symbol) \in Nat
  BY BooksAreNaturals DEF Held, Ledger!OfSymbol
<1> QED
  BY <1>1

\* A thread that applies a message completes orders into the hands of its handler.
LEMMA ProcessBacked ==
  ASSUME PipelineInv, NEW t \in Threads, NEW m, pc[t] # "callback", processUpdate(t, m)
  PROVE  BooksStay /\ DOMAIN m_completedReports \subseteq DOMAIN m_completedReports'
<1>1. CASE completeOrder(t, m)
  <2>1. m.order \in DOMAIN m_trackedOrders /\ m.order \notin DOMAIN m_completedReports
    BY <1>1 DEF completeOrder, PipelineInv, TrackerInv, TablesOK
  <2>2. /\ DOMAIN m_completedReports' = DOMAIN m_completedReports \cup {m.order}
        /\ \A o \in DOMAIN m_completedReports : m_completedReports'[o] = m_completedReports[o]
    <3> DEFINE report == Updated(m_trackedOrders[m.order], m)
    <3>1. m_completedReports' = Insert(m_completedReports, m.order, report)
      BY <1>1 DEF completeOrder
    <3> HIDE DEF report
    <3>2. DOMAIN m_completedReports' = DOMAIN m_completedReports \cup {m.order}
      BY <3>1, InsertDomain
    <3>3. \A o \in DOMAIN m_completedReports : m_completedReports'[o] = m_completedReports[o]
      BY <2>1, <3>1, InsertOther
    <3> QED
      BY <3>2, <3>3
  <2>3. /\ pc'[t] = "callback" /\ message'[t] = m
        /\ \A u \in Threads : u # t => pc'[u] = pc[u] /\ message'[u] = message[u]
    BY <1>1 DEF completeOrder, PipelineInv, TrackerInv, ThreadsOK
  <2> QED
    BY <2>1, <2>2, <2>3 DEF BooksStay
<1>2. CASE ignoreUpdate(t, m) \/ recordUpdate(t, m)
  <2>1. m_completedReports' = m_completedReports
    BY <1>2 DEF ignoreUpdate, recordUpdate, tracker
  <2>2. /\ pc'[t] = "idle"
        /\ \A u \in Threads : u # t => pc'[u] = pc[u] /\ message'[u] = message[u]
    BY <1>2 DEF ignoreUpdate, recordUpdate, PipelineInv, TrackerInv, ThreadsOK
  <2> QED
    BY <2>1, <2>2 DEF BooksStay
<1> QED
  BY <1>1, <1>2 DEF processUpdate

\* A report, once made, is not made again.
LEMMA ReportsStay ==
  ASSUME PipelineInv, trackerStep
  PROVE  \A o \in DOMAIN m_completedReports : m_completedReports'[o] = m_completedReports[o]
<1>1. CASE m_completedReports' = m_completedReports
  BY <1>1
<1>2. CASE (\E t \in Pollers : pollResponse(t)) \/ onOrderUpdate
  <2>1. \/ m_completedReports' = m_completedReports
        \/ \E t \in Threads, m \in Message \cup {Head(updates), NoMessage} :
             pc[t] # "callback" /\ processUpdate(t, m)
    <3>1. CASE onOrderUpdate
      BY <3>1 DEF onOrderUpdate, Threads, tracker
    <3>2. CASE \E t \in Pollers : pollResponse(t)
      BY <3>2 DEF pollResponse, Threads, PipelineInv, TrackerInv, ThreadsOK
    <3> QED
      BY <1>2, <3>1, <3>2
  <2>2. ASSUME NEW t \in Threads, NEW m, pc[t] # "callback", processUpdate(t, m)
        PROVE  \A o \in DOMAIN m_completedReports : m_completedReports'[o] = m_completedReports[o]
    BY <2>2, ProcessBacked DEF BooksStay
  <2> QED
    BY <2>1, <2>2
<1> QED
  BY <1>1, <1>2 DEF trackerStep, advanceSome, advance, loseUpdates, pollRequest, tracker

LEMMA TrackerStepBacked ==
  ASSUME PipelineInv, PositionsAreBacked, trackerStep
  PROVE  PositionsAreBacked'
<1>1. \A symbol \in Symbols : Held(symbol)' \in Nat /\ Held(symbol)' <= Held(symbol)
  BY SameHeld DEF trackerStep, ledger
<1>2. CASE advanceSome
  <2>1. PICK id \in DOMAIN exchange, status \in {"open"} \cup EndStatus,
             filled \in Quantities, price \in FillPrices : advance(id, status, filled, price)
    BY <1>2 DEF advanceSome
  <2>2. Moves(exchange, exchange') /\ BooksStay /\ m_completedReports' = m_completedReports
    BY <2>1 DEF advance, Moves, BooksStay, tracker, threads
  <2> QED
    BY <1>1, <2>2, BackedStays
<1>3. CASE loseUpdates \/ \E t \in Pollers : \E id \in DOMAIN m_trackedOrders : pollRequest(t, id)
  <2>1. exchange' = exchange /\ m_completedReports' = m_completedReports
    BY <1>3 DEF loseUpdates, pollRequest, market, tracker
  <2>2. \A t \in Threads : /\ pc'[t] = "callback" <=> pc[t] = "callback"
                           /\ pc[t] = "callback" => message'[t] = message[t]
    BY <1>3 DEF loseUpdates, pollRequest, threads, PipelineInv, TrackerInv, ThreadsOK, Threads
  <2>3. Moves(exchange, exchange') /\ BooksStay
    BY <2>1, <2>2 DEF Moves, BooksStay
  <2> QED
    BY <1>1, <2>1, <2>3, BackedStays
<1>4. CASE (\E t \in Pollers : pollResponse(t)) \/ onOrderUpdate
  <2>1. Moves(exchange, exchange')
    BY <1>4 DEF pollResponse, onOrderUpdate, market, Moves
  <2>2. BooksStay /\ DOMAIN m_completedReports \subseteq DOMAIN m_completedReports'
    <3>1. CASE \E t \in Pollers : pollResponse(t)
      BY <3>1, ProcessBacked DEF pollResponse, Threads
    <3>2. CASE onOrderUpdate /\ EventHasResult
      BY <3>2, ProcessBacked DEF onOrderUpdate, Threads
    <3>3. CASE onOrderUpdate /\ ~ EventHasResult
      BY <3>3 DEF onOrderUpdate, tracker, threads, BooksStay
    <3> QED
      BY <1>4, <3>1, <3>2, <3>3
  <2> QED
    BY <1>1, <2>1, <2>2, BackedStays
<1> QED
  BY <1>2, <1>3, <1>4 DEF trackerStep

\* The placer adds orders to the exchange and opens nothing.
LEMMA PlacerBacked ==
  ASSUME PipelineInv, PositionsAreBacked,
         \/ placerStep
         \/ \E symbol \in Symbols, side \in Sides, qty \in Quantities \ {0}, price \in SignalPrices :
              evaluateOrder(symbol, side, qty, price)
  PROVE  PositionsAreBacked'
<1>1. UNCHANGED <<m_completedReports, pc, message>>
  BY DEF placerStep, placeAccepted, placeUnanswered, placeUndelivered, placeRefused,
         cancelFailed, storeReservation, trackPlaced, trackOrder, evaluateOrder,
         trackerVars, tracker, threads
<1>2. m_positions' = m_positions
  BY DEF placerStep, placeAccepted, placeUnanswered, placeUndelivered, placeRefused,
         cancelFailed, storeReservation, trackPlaced, evaluateOrder, ledger,
         Ledger!cancelReservation, Ledger!reserveNotional
<1>3. Moves(exchange, exchange')
  <2>1. CASE placeAccepted \/ placeUnanswered
    BY <2>1, AcceptedOrder DEF placeAccepted, placeUnanswered, PipelineInv, Moves
  <2>2. CASE exchange' = exchange
    BY <2>2 DEF Moves
  <2> QED
    BY <2>1, <2>2 DEF placerStep, placeUndelivered, placeRefused, cancelFailed, storeReservation,
       trackPlaced, evaluateOrder, trackerVars, market
<1>4. BooksStay
  BY <1>1 DEF BooksStay
<1> QED
  BY <1>1, <1>2, <1>3, <1>4, SameHeld, BackedStays

\* A close takes a position or a part of it off the books.
LEMMA CloseShrinks ==
  ASSUME PipelineInv, NEW id, NEW qty \in Nat, NEW price, Ledger!closePosition(id, qty, price)
  PROVE  \A symbol \in Symbols : Held(symbol)' \in Nat /\ Held(symbol)' <= Held(symbol)
<1> TAKE symbol \in Symbols
<1> DEFINE T == Ledger!OfSymbol(m_positions, symbol)
           S == Ledger!OfSymbol(m_positions', symbol)
           w == [x \in DOMAIN m_positions |-> m_positions[x].quantity]
           f == [x \in DOMAIN m_positions' |-> m_positions'[x].quantity]
           remaining == m_positions[id].quantity - qty
<1>1. /\ id \in DOMAIN m_positions
      /\ IsFiniteSet(T)
      /\ \A x \in DOMAIN m_positions : m_positions[x].quantity \in Nat
      /\ m_positions \in [DOMAIN m_positions -> LedgerProofs!Position]
  BY BooksAreFinite DEF Ledger!closePosition, PipelineInv, LedgerProofs!LedgerTypeOK
<1>2. /\ DOMAIN m_positions' \subseteq DOMAIN m_positions
      /\ \A x \in DOMAIN m_positions' : /\ m_positions'[x].symbol = m_positions[x].symbol
                                        /\ m_positions'[x].quantity \in Nat
                                        /\ m_positions'[x].quantity <= m_positions[x].quantity
  <2>1. CASE remaining <= 0
    <3>1. m_positions' = Erase(m_positions, id)
      BY <2>1 DEF Ledger!closePosition, Ledger!Erase, Erase, Ledger!Restrict, Restrict
    <3>2. DOMAIN m_positions' = DOMAIN m_positions \ {id}
      BY <3>1, EraseDomain
    <3>3. \A x \in DOMAIN m_positions' : m_positions'[x] = m_positions[x]
      BY <3>1, <3>2, EraseOther
    <3> QED
      BY <1>1, <3>2, <3>3
  <2>2. CASE ~ (remaining <= 0)
    <3>1. m_positions' = [m_positions EXCEPT ![id].quantity = remaining,
                                             ![id].notional = remaining * price]
      BY <2>2 DEF Ledger!closePosition
    <3>2. remaining \in Nat /\ remaining <= m_positions[id].quantity
      BY <1>1, <2>2
    <3> HIDE DEF remaining
    <3>3. /\ DOMAIN m_positions' = DOMAIN m_positions
          /\ \A x \in DOMAIN m_positions : x # id => m_positions'[x] = m_positions[x]
          /\ m_positions'[id].symbol = m_positions[id].symbol
          /\ m_positions'[id].quantity = remaining
      BY <1>1, <3>1 DEF LedgerProofs!Position
    <3> QED
      BY <1>1, <3>2, <3>3
  <2> QED
    BY <2>1, <2>2
<1>3. S \in SUBSET T /\ \A x \in S : x \in DOMAIN m_positions' /\ x \in DOMAIN m_positions
  BY <1>2 DEF Ledger!OfSymbol
<1>4. \A x \in T : x \in DOMAIN m_positions
  BY DEF Ledger!OfSymbol
<1>5. /\ \A x \in S : f[x] \in Nat /\ f[x] \in Int /\ f[x] <= 1 * w[x]
      /\ \A x \in T : w[x] \in Nat
  BY <1>1, <1>2, <1>3, <1>4
<1>6. Held(symbol) = SumFunctionOnSet(w, T)
  BY DEF Held
<1>7. Held(symbol)' = SumFunctionOnSet(f, S)
  BY DEF Held, Ledger!OfSymbol
<1> HIDE DEF S, T, f, w
<1>8. IsFiniteSet(S)
  BY <1>1, <1>3, FS_Subset
<1>9. SumFunctionOnSet(w, T) \in Nat /\ SumFunctionOnSet(f, S) <= 1 * SumFunctionOnSet(w, T)
  BY <1>1, <1>3, <1>5, SumIsBounded
<1>10. SumFunctionOnSet(f, S) \in Nat
  BY <1>5, <1>8, SumIsNat
<1> QED
  BY <1>6, <1>7, <1>9, <1>10

\* The handler of a buy opens a position with what the exchange filled of it.
LEMMA BuyBacked ==
  ASSUME PipelineInv, PositionsAreBacked, NEW t \in Threads, bookBuy(t)
  PROVE  PositionsAreBacked'
<1> DEFINE order == Handled(t)
           filled == exchange[order].filled
<1>1. /\ pc[t] = "callback" /\ Report(t).side = "Buy"
      /\ UNCHANGED <<exchange, m_completedReports>>
  BY DEF bookBuy, InHandler, return, market, tracker
<1>2. /\ order \in DOMAIN m_completedReports /\ order \in DOMAIN exchange
      /\ Report(t).filled = filled
      /\ filled \in Nat
  BY <1>1, BooksAreFinite DEF PipelineInv, TrackerInv, ThreadsOK, TablesOK, ReportIsFinal,
     Handled, Report
<1>3. /\ pc'[t] = "idle"
      /\ \A u \in Threads : u # t => pc'[u] = pc[u] /\ message'[u] = message[u]
  BY DEF bookBuy, return, returnFromCallback, PipelineInv, TrackerInv, ThreadsOK
<1>4. \A u \in Threads : u # t /\ pc[u] = "callback" => Handled(u) # order
  BY <1>1 DEF PipelineInv, TrackerInv, ThreadsOK, Handled
<1>5. ASSUME NEW symbol \in Symbols
      PROVE  BookedBuys(symbol)' = IF symbol = Report(t).symbol THEN BookedBuys(symbol) \cup {order}
                                   ELSE BookedBuys(symbol)
  BY <1>1, <1>2, <1>3, <1>4 DEF BookedBuys, CompletedBuys, Handled, Report
<1>6. ASSUME NEW symbol \in Symbols
      PROVE  Filled(BookedBuys(symbol))' = Filled(BookedBuys(symbol))
                                           + (IF symbol = Report(t).symbol THEN filled ELSE 0)
  <2> DEFINE e == [o \in DOMAIN exchange |-> exchange[o].filled]
             S == BookedBuys(symbol)
  <2>1. IsFiniteSet(S) /\ (\A o \in S : e[o] \in Int) /\ order \notin S
    <3>1. IsFiniteSet(S) /\ \A o \in S : e[o] \in Int
      BY BooksAreFinite
    <3>2. order \notin S
      BY <1>1 DEF BookedBuys
    <3> QED
      BY <3>1, <3>2
  <2>2. e[order] = filled /\ filled \in Int
    BY <1>2
  <2>3. Filled(BookedBuys(symbol))' = SumFunctionOnSet(e, BookedBuys(symbol)')
    BY <1>1 DEF Filled
  <2>4. Filled(BookedBuys(symbol)) = SumFunctionOnSet(e, S)
    BY DEF Filled
  <2>5. Filled(BookedBuys(symbol)) \in Nat
    BY BooksAreNaturals
  <2>6. BookedBuys(symbol)' = IF symbol = Report(t).symbol THEN S \cup {order} ELSE S
    BY <1>5
  <2> HIDE DEF e, S, order, filled
  <2>7. SumFunctionOnSet(e, S \cup {order}) = SumFunctionOnSet(e, S) + filled
    BY <2>1, <2>2, SumOfAdded
  <2> QED
    BY <2>3, <2>4, <2>5, <2>6, <2>7
<1>7. ASSUME NEW symbol \in Symbols
      PROVE  Held(symbol)' \in Nat /\ Held(symbol)' <= Held(symbol)
                                           + (IF symbol = Report(t).symbol THEN filled ELSE 0)
  <2>1. CASE m_positions' = m_positions
    <3>1. Held(symbol)' \in Nat /\ Held(symbol)' <= Held(symbol) /\ Held(symbol) \in Nat
      BY <2>1, SameHeld, BooksAreNaturals
    <3> HIDE DEF filled
    <3> QED
      BY <1>2, <3>1
  <2>2. CASE Ledger!openPosition(Report(t).symbol, Report(t).filled, Report(t).price)
    <3> DEFINE new == m_nextPositionId + 1
               p == [symbol |-> Report(t).symbol, quantity |-> Report(t).filled,
                     notional |-> Report(t).filled * Report(t).price]
               w == [x \in DOMAIN m_positions |-> m_positions[x].quantity]
               f == [x \in DOMAIN m_positions' |-> m_positions'[x].quantity]
               T == Ledger!OfSymbol(m_positions, symbol)
    <3>1. m_positions' = Insert(m_positions, new, p)
      BY <2>2 DEF Ledger!openPosition, Ledger!Insert, Insert
    <3>2. m_nextPositionId \in Nat /\ new \notin DOMAIN m_positions
      BY PipelineAssumption DEF PipelineInv, LedgerProofs!LedgerTypeOK
    <3> HIDE DEF p, new
    <3>3. DOMAIN m_positions' = DOMAIN m_positions \cup {new}
      BY <3>1, InsertDomain
    <3>4. \A x \in DOMAIN m_positions : m_positions'[x] = m_positions[x]
      BY <3>1, <3>2, InsertOther
    <3>5. m_positions'[new] = p
      BY <3>1, InsertKey
    <3>6. p.symbol = Report(t).symbol /\ p.quantity = filled
      BY <1>2 DEF p
    <3>7. Ledger!OfSymbol(m_positions', symbol)
            = IF symbol = Report(t).symbol THEN T \cup {new} ELSE T
      BY <3>2, <3>3, <3>4, <3>5, <3>6 DEF Ledger!OfSymbol
    <3>8. IsFiniteSet(T) /\ (\A x \in T : w[x] \in Int /\ f[x] = w[x]) /\ new \notin T
      <4>1. \A x \in T : x \in DOMAIN m_positions
        BY DEF Ledger!OfSymbol
      <4>2. IsFiniteSet(T) /\ \A x \in DOMAIN m_positions : m_positions[x].quantity \in Nat
        BY BooksAreFinite
      <4>3. \A x \in T : w[x] \in Int /\ f[x] = w[x]
        BY <3>3, <3>4, <4>1, <4>2
      <4> QED
        BY <3>2, <4>1, <4>2, <4>3
    <3>9. f[new] = filled /\ filled \in Nat
      BY <1>2, <3>3, <3>5, <3>6
    <3>10. Held(symbol) = SumFunctionOnSet(w, T) /\ Held(symbol) \in Nat
      BY BooksAreNaturals DEF Held
    <3>11. Held(symbol)' = SumFunctionOnSet(f, Ledger!OfSymbol(m_positions', symbol))
      BY DEF Held, Ledger!OfSymbol
    <3> HIDE DEF w, f, T, filled
    <3>12. SumFunctionOnSet(f, T \cup {new}) = SumFunctionOnSet(w, T) + filled
      BY <3>8, <3>9, SumOfAdded
    <3>13. SumFunctionOnSet(f, T) = SumFunctionOnSet(w, T)
      BY <3>8, SumOfSame
    <3> QED
      BY <3>7, <3>9, <3>10, <3>11, <3>12, <3>13
  <2> QED
    BY <2>1, <2>2 DEF bookBuy, ledger
<1> SUFFICES ASSUME NEW symbol \in Symbols
             PROVE  Held(symbol)' <= Filled(BookedBuys(symbol))'
  BY DEF PositionsAreBacked
<1>8. Held(symbol) <= Filled(BookedBuys(symbol))
  BY DEF PositionsAreBacked
<1>9. Held(symbol) \in Nat /\ Filled(BookedBuys(symbol)) \in Nat
  BY BooksAreNaturals
<1> HIDE DEF filled
<1> QED
  BY <1>2, <1>6, <1>7, <1>8, <1>9

\* Only the handler of a sell closes positions.
SellsClose == \A t \in Threads : InHandler(t, "close") => Report(t).side = "Sell"

LEMMA SellsCloseStep ==
  ASSUME PipelineInv, SellsClose, [PipelineNext]_pipelineVars
  PROVE  SellsClose'
<1>1. CASE UNCHANGED <<m_completedReports, pc, message, handler>>
  BY <1>1 DEF SellsClose, InHandler, Report, Handled
<1>2. CASE trackerStep
  <2>1. handler' = handler /\ TrackerMoves
    BY <1>2, TrackerStepMoves DEF PipelineInv, trackerStep
  <2>2. \A t \in Threads : InHandler(t, "close") => Handled(t) \in DOMAIN m_completedReports
    BY DEF PipelineInv, TrackerInv, ThreadsOK, InHandler, Handled
  <2>3. \A o \in DOMAIN m_completedReports : m_completedReports'[o] = m_completedReports[o]
    BY <1>2, ReportsStay
  <2>4. \A t \in Threads : InHandler(t, "close")' => InHandler(t, "close") /\ message'[t] = message[t]
    BY <2>1 DEF TrackerMoves, InHandler, PipelineInv, HandlerOK, NotHandling
  <2> QED
    BY <2>2, <2>3, <2>4 DEF SellsClose, Report, Handled
<1>3. CASE \E t \in Threads : completion_handler(t)
  <2>1. PICK t \in Threads : completion_handler(t)
    BY <1>3
  <2>2. /\ m_completedReports' = m_completedReports
        /\ \A u \in Threads : u # t => /\ pc'[u] = pc[u] /\ message'[u] = message[u]
                                       /\ handler'[u] = handler[u]
    BY <2>1 DEF completion_handler, consume, bookBuy, bookSell, closeNext, endSell, return,
       returnFromCallback, trackerVars, tracker, threads, PipelineInv, TrackerInv, ThreadsOK, HandlerOK
  <2>3. InHandler(t, "close")' => Report(t)'.side = "Sell"
    BY <2>1 DEF completion_handler, consume, bookBuy, bookSell, closeNext, endSell, return,
       returnFromCallback, trackerVars, tracker, threads, PipelineInv, TrackerInv, ThreadsOK, HandlerOK,
       InHandler, Report, Handled, SellsClose, NotHandling
  <2> QED
    BY <2>2, <2>3 DEF SellsClose, InHandler, Report, Handled
<1>4. CASE \/ placerStep
           \/ \E symbol \in Symbols, side \in Sides, qty \in Quantities \ {0}, price \in SignalPrices :
                evaluateOrder(symbol, side, qty, price)
  BY <1>1, <1>4 DEF placerStep, placeAccepted, placeUnanswered, placeUndelivered, placeRefused,
     cancelFailed, storeReservation, trackPlaced, trackOrder, evaluateOrder,
     trackerVars, tracker, threads
<1> QED
  BY <1>1, <1>2, <1>3, <1>4 DEF PipelineNext, pipelineVars, trackerVars, tracker, threads

\* The other steps of a handler open nothing, and are those of a sell when it returns.
LEMMA HandlerBacked ==
  ASSUME PipelineInv, PositionsAreBacked, NEW t \in Threads,
         consume(t) \/ bookSell(t) \/ closeNext(t) \/ endSell(t), SellsClose
  PROVE  PositionsAreBacked'
<1>1. UNCHANGED <<exchange, m_completedReports>>
  BY DEF consume, bookSell, closeNext, endSell, return, trackerVars, market, tracker
<1>2. \A symbol \in Symbols : Held(symbol)' \in Nat /\ Held(symbol)' <= Held(symbol)
  <2>1. CASE m_positions' = m_positions
    BY <2>1, SameHeld
  <2>2. CASE closeNext(t)
    <3>1. PICK id \in handler[t].positions :
            IF id \in DOMAIN m_positions
            THEN Ledger!closePosition(id, Report(t).filled, Report(t).price)
            ELSE UNCHANGED ledger
      BY <2>2 DEF closeNext
    <3>2. Report(t).filled \in Nat
      BY <2>2, ReportedFill, TrackerAssumption DEF closeNext, InHandler
    <3> QED
      BY <3>1, <3>2, <2>1, CloseShrinks DEF ledger
  <2> QED
    BY <2>1, <2>2 DEF consume, bookSell, endSell, ledger, Ledger!consumeReservation
<1>3. Moves(exchange, exchange')
  BY <1>1 DEF Moves
<1>4. BooksStay
  <2>1. CASE UNCHANGED <<pc, message>>
    BY <1>1, <2>1 DEF BooksStay
  <2>2. CASE endSell(t)
    <3>1. /\ pc'[t] = "idle" /\ Report(t).side = "Sell"
          /\ \A u \in Threads : u # t => pc'[u] = pc[u] /\ message'[u] = message[u]
      BY <2>2 DEF endSell, return, returnFromCallback, SellsClose, InHandler,
         PipelineInv, TrackerInv, ThreadsOK
    <3> QED
      BY <1>1, <3>1 DEF BooksStay, Report, Handled
  <2> QED
    BY <2>1, <2>2 DEF consume, bookSell, closeNext, trackerVars, threads
<1> QED
  BY <1>1, <1>2, <1>3, <1>4, BackedStays

LEMMA BackedStep ==
  PipelineInv /\ SellsClose /\ PositionsAreBacked /\ [PipelineNext]_pipelineVars
    => SellsClose' /\ PositionsAreBacked'
<1> SUFFICES ASSUME PipelineInv, SellsClose, PositionsAreBacked, [PipelineNext]_pipelineVars
             PROVE  PositionsAreBacked'
  BY SellsCloseStep
<1>1. CASE UNCHANGED pipelineVars
  <2>1. UNCHANGED <<exchange, m_completedReports, pc, message, m_positions>>
    BY <1>1 DEF pipelineVars, trackerVars, market, tracker, threads, ledger
  <2>2. Moves(exchange, exchange') /\ BooksStay
    BY <2>1 DEF Moves, BooksStay
  <2> QED
    BY <2>1, <2>2, SameHeld, BackedStays
<1>2. CASE PipelineNext
  BY <1>2, PlacerBacked, TrackerStepBacked, BuyBacked, HandlerBacked
     DEF PipelineNext, completion_handler
<1> QED
  BY <1>1, <1>2

LEMMA BackedInit == PipelineInit => SellsClose /\ PositionsAreBacked
<1> SUFFICES ASSUME PipelineInit PROVE SellsClose /\ PositionsAreBacked
  OBVIOUS
<1>1. /\ m_positions = EmptyMap /\ m_completedReports = EmptyMap
      /\ pc = [t \in Threads |-> "idle"]
  BY DEF PipelineInit, TrackerInit, Ledger!LedgerInit, Ledger!EmptyMap, EmptyMap
<1>2. DOMAIN m_positions = {} /\ DOMAIN m_completedReports = {}
  BY <1>1, EmptyMapDomain
<1>3. \A symbol \in Symbols : Ledger!OfSymbol(m_positions, symbol) = {} /\ BookedBuys(symbol) = {}
  BY <1>2 DEF Ledger!OfSymbol, BookedBuys, CompletedBuys
<1>4. \A symbol \in Symbols : Held(symbol) = 0 /\ Filled(BookedBuys(symbol)) = 0
  BY <1>3, SumOfNone DEF Held, Filled
<1> QED
  BY <1>1, <1>4 DEF SellsClose, InHandler, PositionsAreBacked

-----------------------------------------------------------------------------
(* The theorems                                                            *)

LEMMA PipelineInit_Inv == PipelineInit => PipelineInv
<1> SUFFICES ASSUME PipelineInit PROVE PipelineInv
  OBVIOUS
<1>1. TrackerInv
  BY TrackerInit_Inv DEF PipelineInit
<1>2. /\ m_positions = EmptyMap /\ m_nextPositionId = 0
      /\ m_pendingReservations = EmptyMap /\ m_nextReservationId = 1
  BY DEF PipelineInit, Ledger!LedgerInit, Ledger!EmptyMap, EmptyMap
<1>3. DOMAIN EmptyMap = {} /\ EmptyMap \in [{} -> 1 .. MaxIds]
      /\ EmptyMap \in [{} -> LedgerProofs!Position] /\ EmptyMap \in [{} -> LedgerProofs!Reservation]
  BY EmptyMapDomain, EmptyMapType
<1>4. LedgerProofs!LedgerTypeOK
  BY <1>2, <1>3, PipelineAssumption DEF LedgerProofs!LedgerTypeOK
<1>5. exchange = EmptyMap /\ m_completedReports = EmptyMap /\ pc = [t \in Threads |-> "idle"]
  BY DEF PipelineInit, TrackerInit
<1>6. placer = NotPlacing /\ order_reservations = EmptyMap /\ handler = [t \in Threads |-> NotHandling]
  BY DEF PipelineInit
<1>7. PlacerOK /\ PricesOK
  BY <1>3, <1>5, <1>6 DEF PlacerOK, PricesOK, NotPlacing
<1>8. StoredOK
  BY <1>3, <1>5, <1>6 DEF StoredOK, NotPlacing
<1>9. HandlerOK
  BY <1>5, <1>6 DEF HandlerOK, NotHandling
<1>10. ReservationsHaveOneOwner /\ CompletedOrdersHoldNothing
  BY <1>2, <1>3, <1>5, <1>6 DEF ReservationsHaveOneOwner, CompletedOrdersHoldNothing, NotPlacing
<1> QED
  BY <1>1, <1>4, <1>7, <1>8, <1>9, <1>10 DEF PipelineInv

LEMMA PipelineStep == PipelineInv /\ [PipelineNext]_pipelineVars => PipelineInv'
<1> SUFFICES ASSUME PipelineInv, [PipelineNext]_pipelineVars PROVE PipelineInv'
  OBVIOUS
<1>1. TrackerInv'
  BY StepOfTracker, TrackerStep DEF PipelineInv
<1>2. LedgerProofs!LedgerTypeOK'
  <2>1. [LedgerProofs!LedgerNext]_LedgerProofs!ledger
    BY StepOfLedger, SameNext DEF ledger, LedgerProofs!ledger
  <2> QED
    BY <2>1, LedgerAssumptionHolds, LedgerProofs!LedgerTypeStep DEF PipelineInv
<1>3. OwnInv'
  <2>1. CASE \E symbol \in Symbols, side \in Sides, qty \in Quantities \ {0}, price \in SignalPrices :
               evaluateOrder(symbol, side, qty, price)
    BY <2>1, EvaluateKeeps
  <2>2. CASE placerStep
    BY <2>2, AcceptedKeeps, UnansweredKeeps, FailedKeeps, CancelKeeps, StoreKeeps, TrackKeeps
       DEF placerStep
  <2>3. CASE trackerStep
    BY <2>3, TrackerStepKeeps
  <2>4. CASE \E t \in Threads : completion_handler(t)
    BY <2>4, ConsumeKeeps, BookBuyKeeps, BookSellKeeps, CloseNextKeeps, EndSellKeeps
       DEF completion_handler
  <2>5. CASE UNCHANGED pipelineVars
    BY <2>5 DEF pipelineVars, trackerVars, market, tracker, threads, ledger, PipelineInv, OwnInv,
       PlacerOK, StoredOK, HandlerOK, PricesOK, ReservationsHaveOneOwner,
       CompletedOrdersHoldNothing, InHandler, Handled, SizeSent
  <2> QED
    BY <2>1, <2>2, <2>3, <2>4, <2>5 DEF PipelineNext
<1> QED
  BY <1>1, <1>2, <1>3 DEF PipelineInv, OwnInv

LEMMA PipelineInvariant == PipelineSpec => []PipelineInv
  BY PipelineInit_Inv, PipelineStep, PTL DEF PipelineSpec

\* Every pending reservation has exactly one owner that will release it, whatever
\* fails, is retried or completes meanwhile.
THEOREM ReservationsAreOwned == PipelineSpec => []ReservationsHaveOneOwner
<1>1. PipelineInv => ReservationsHaveOneOwner
  BY DEF PipelineInv
<1> QED
  BY <1>1, PipelineInvariant, PTL

\* No completion comes too early to find its reservation.
THEOREM CompletionsFindReservations == PipelineSpec => []CompletedOrdersHoldNothing
<1>1. PipelineInv => CompletedOrdersHoldNothing
  BY DEF PipelineInv
<1> QED
  BY <1>1, PipelineInvariant, PTL

\* A completed buy opens at most one position, whichever of a poll and a pushed
\* update completed the order and whatever handlers run beside its own.
THEOREM FillsBookedOnce == PipelineSpec => []FillsAreBookedOnce
<1>1. PipelineSpec => []BookedInv
  BY BookedInit, BookedStep, PipelineInvariant, PTL DEF PipelineSpec
<1>2. BookedInv => FillsAreBookedOnce
  BY DEF BookedInv
<1> QED
  BY <1>1, <1>2, PTL

\* For each symbol, the open positions hold no more than the exchange filled of the
\* buys that are booked.
THEOREM BackedByFills == PipelineSpec => []PositionsAreBacked
<1>1. PipelineSpec => [](SellsClose /\ PositionsAreBacked)
  BY BackedInit, BackedStep, PipelineInvariant, PTL DEF PipelineSpec
<1> QED
  BY <1>1, PTL

\* The application respects the tracker's specification, and with it inherits what
\* is proved of it: reports are final, and each order completes once.
THEOREM PipelineImplementsTracker == PipelineSpec => ImplementsTracker
<1>1. PipelineInit => TrackerInit
  BY DEF PipelineInit
<1> QED
  BY <1>1, StepOfTracker, PipelineInvariant, PTL DEF PipelineSpec, ImplementsTracker, TrackerSpec

THEOREM PipelineReportsAreFinal == PipelineSpec => []ReportIsFinal
  BY PipelineImplementsTracker, ReportsAreFinal, PTL DEF ImplementsTracker

\* The ledger keeps within the application what is proved of it alone.
LEMMA PipelineImplementsLedger == PipelineSpec => Ledger!LedgerSpec
<1>1. PipelineInit => Ledger!LedgerInit
  BY DEF PipelineInit
<1>2. PipelineInv /\ [PipelineNext]_pipelineVars => [Ledger!LedgerNext]_Ledger!ledger
  BY StepOfLedger DEF ledger, Ledger!ledger
<1> QED
  BY <1>1, <1>2, PipelineInvariant, PTL DEF PipelineSpec, Ledger!LedgerSpec

\* The bounds of PositionManagerProofs hold in the application: the budget that is
\* reserved for its orders in flight never exceeds a limit.
THEOREM PipelineReservationsAreBounded == PipelineSpec => []Ledger!PendingWithinLimits
<1>1. Ledger!PendingWithinLimits <=> LedgerProofs!PendingWithinLimits
  BY DEF Ledger!PendingWithinLimits, Ledger!PendingNotional, Ledger!PendingNotionalOf,
         Ledger!PendingCount, Ledger!NotionalOf, Ledger!Units, Ledger!OfSymbol, Ledger!Cardinality,
         LedgerProofs!PendingWithinLimits, LedgerProofs!PendingNotional,
         LedgerProofs!PendingNotionalOf, LedgerProofs!PendingCount, LedgerProofs!NotionalOf,
         LedgerProofs!Units, LedgerProofs!OfSymbol, LedgerProofs!Cardinality
<1>2. Ledger!LedgerInit <=> LedgerProofs!LedgerInit
  BY DEF Ledger!LedgerInit, LedgerProofs!LedgerInit, Ledger!EmptyMap, LedgerProofs!EmptyMap
<1>3. [Ledger!LedgerNext]_Ledger!ledger => [LedgerProofs!LedgerNext]_LedgerProofs!ledger
  BY SameNext DEF Ledger!ledger, LedgerProofs!ledger
<1>4. Ledger!LedgerSpec => LedgerProofs!LedgerSpec
  BY <1>2, <1>3, PTL DEF Ledger!LedgerSpec, LedgerProofs!LedgerSpec
<1>5. LedgerProofs!LedgerSpec => []LedgerProofs!PendingWithinLimits
  BY LedgerAssumptionHolds, LedgerProofs!ReservedBudgetIsBounded, PTL
<1> QED
  BY <1>1, <1>4, <1>5, PipelineImplementsLedger, PTL

\* The tables of the application hold orders and reservations that exist.
THEOREM PipelineTypeCorrect == PipelineSpec => []PipelineTypeOK
<1>1. PipelineInv => placer.order \in DOMAIN exchange \cup {0} /\ placer \in Placing \cup {NotPlacing}
  <2> SUFFICES ASSUME PlacerOK
               PROVE  placer.order \in DOMAIN exchange \cup {0} /\ placer \in Placing \cup {NotPlacing}
    BY DEF PipelineInv
  <2>1. CASE placer = NotPlacing
    BY <2>1 DEF NotPlacing
  <2>2. CASE placer \in Placing /\ placer.step # "idle"
    <3>1. placer.step \in {"submit", "cancel", "store", "track"}
      BY <2>2 DEF Placing
    <3> QED
      BY <2>2, <3>1 DEF PlacerOK
  <2> QED
    BY <2>1, <2>2 DEF PlacerOK
<1>2. PipelineInv => PipelineTypeOK
  BY <1>1 DEF PipelineInv, PipelineTypeOK, StoredOK, HandlerOK
<1> QED
  BY <1>2, PipelineInvariant, PTL
===============================================================================
