--------------------------- MODULE PositionManager ---------------------------
(***************************************************************************)
(* The position ledger of the risk layer (src/risk/PositionManager): the   *)
(* open positions, the notional budget reserved for orders in flight, and  *)
(* the operations that change them.  Every public operation runs under one *)
(* exclusive lock, so each is one action.                                  *)
(*                                                                         *)
(* Quantities and prices are naturals: a quantity counts the smallest lot, *)
(* so that a reduced quantity is the largest number of lots the remaining  *)
(* budget pays for.  Profit, margin and liquidation figures are computed   *)
(* from a position and never read by an operation; they are left out.      *)
(***************************************************************************)
EXTENDS Integers, FiniteSets, Maps

CONSTANTS
  Symbols,              \* the trading pairs
  Quantities,           \* the quantities callers ask for, close or fill
  Prices,               \* the prices callers quote
  maxPositionNotional,  \* limit on the notional of the whole portfolio
  maxSymbolNotional,    \* limit on the notional of one symbol
  maxOpenPositions,     \* limit on the number of positions
  MaxIds                \* bound of a run: ids handed out of each kind

ASSUME LedgerAssumption ==
  /\ Quantities \subseteq Nat
  /\ Prices \subseteq Nat
  /\ maxPositionNotional \in Nat \ {0}
  /\ maxSymbolNotional \in Nat \ {0}
  /\ maxOpenPositions \in Nat \ {0}
  /\ MaxIds \in Nat

VARIABLES
  m_positions,            \* position id -> [symbol, quantity, notional]
  m_nextPositionId,       \* the last position id handed out
  m_pendingReservations,  \* reservation id -> [symbol, notional]
  m_nextReservationId     \* the next reservation id to hand out

ledger == <<m_positions, m_nextPositionId, m_pendingReservations, m_nextReservationId>>

Position    == [symbol : Symbols, quantity : Nat, notional : Nat]
Reservation == [symbol : Symbols, notional : Nat]

-----------------------------------------------------------------------------
(* Sums.  A sum is a number of units, not a fold, so that the theorems on   *)
(* the cardinality of finite sets speak about it.                          *)

\* The units of notional of the entries whose key is in keys: the entry of key
\* k contributes the pairs <<k, 1>> .. <<k, notional>>.
Units(map, keys) == UNION {{k} \X (1 .. map[k].notional) : k \in keys}

\* The sum of the notionals of these entries, as the number of their units.
NotionalOf(map, keys) == Cardinality(Units(map, keys))

OfSymbol(map, symbol) == {k \in DOMAIN map : map[k].symbol = symbol}

PositionNotional == NotionalOf(m_positions, DOMAIN m_positions)
PositionNotionalOf(symbol) == NotionalOf(m_positions, OfSymbol(m_positions, symbol))

PendingNotional == NotionalOf(m_pendingReservations, DOMAIN m_pendingReservations)
PendingNotionalOf(symbol) ==
  NotionalOf(m_pendingReservations, OfSymbol(m_pendingReservations, symbol))

PositionCount == Cardinality(DOMAIN m_positions)
PendingCount  == Cardinality(DOMAIN m_pendingReservations)

\* Fault: the limits are checked against the open positions alone.
CommittedNotional_PositionsOnly == PositionNotional

CommittedNotional == PositionNotional + PendingNotional
CommittedNotionalOf(symbol) == PositionNotionalOf(symbol) + PendingNotionalOf(symbol)
CommittedCount == PositionCount + PendingCount

-----------------------------------------------------------------------------
(* Reservations                                                            *)

Fits(symbol, notional) ==
  /\ CommittedNotional + notional <= maxPositionNotional
  /\ CommittedNotionalOf(symbol) + notional <= maxSymbolNotional

\* Fault: a reduced order is cut to the symbol's budget only.
Budget_SymbolOnly(symbol) == maxSymbolNotional - CommittedNotionalOf(symbol)

\* The budget left for a symbol: the tighter of the two notional limits.
Budget(symbol) ==
  LET remaining_pos == maxPositionNotional - CommittedNotional
      remaining_sym == maxSymbolNotional - CommittedNotionalOf(symbol)
  IN  IF remaining_pos <= remaining_sym THEN remaining_pos ELSE remaining_sym

\* Fault: an order that does not fit is rejected, never cut.
GrantedQuantity_AllOrNothing(symbol, qty, price) ==
  IF CommittedCount < maxOpenPositions /\ Fits(symbol, qty * price) THEN qty ELSE 0

\* The quantity an order for qty at price is allowed: all of it (Approved), what
\* the budget pays for (Modified), or nothing (0, Rejected).
GrantedQuantity(symbol, qty, price) ==
  IF CommittedCount >= maxOpenPositions THEN 0
  ELSE IF Fits(symbol, qty * price) THEN qty
  ELSE IF price > 0 /\ Budget(symbol) > 0 /\ Budget(symbol) \div price < qty
       THEN Budget(symbol) \div price
  ELSE 0

reserveNotional(symbol, qty, price) ==
  LET granted == GrantedQuantity(symbol, qty, price)
  IN  /\ m_nextReservationId <= MaxIds
      /\ m_nextReservationId' = m_nextReservationId + 1
      /\ m_pendingReservations' =
           IF granted = 0 THEN m_pendingReservations
           ELSE Insert(m_pendingReservations, m_nextReservationId,
                       [symbol |-> symbol, notional |-> granted * price])
      /\ UNCHANGED <<m_positions, m_nextPositionId>>

consumeReservation(id) ==
  /\ m_pendingReservations' = Erase(m_pendingReservations, id)
  /\ UNCHANGED <<m_positions, m_nextPositionId, m_nextReservationId>>

cancelReservation(id) ==
  /\ id # 0
  /\ m_pendingReservations' = Erase(m_pendingReservations, id)
  /\ UNCHANGED <<m_positions, m_nextPositionId, m_nextReservationId>>

-----------------------------------------------------------------------------
(* Positions                                                               *)

\* The limits a new position is checked against.  They look at the positions
\* only: what is reserved for orders in flight does not count here.
OpenRefused(symbol, notional) ==
  \/ PositionNotional + notional > maxPositionNotional
  \/ PositionCount >= maxOpenPositions
  \/ PositionNotionalOf(symbol) + notional > maxSymbolNotional

\* A new position takes one pending reservation of its symbol with it, the first
\* in the order of an unordered map: any of them.
autoConsume(symbol) ==
  LET matching == OfSymbol(m_pendingReservations, symbol)
  IN  IF matching = {}
      THEN UNCHANGED m_pendingReservations
      ELSE \E id \in matching : m_pendingReservations' = Erase(m_pendingReservations, id)

\* A call that is refused returns an error and changes nothing.
openPosition(symbol, qty, price) ==
  /\ ~ OpenRefused(symbol, qty * price)
  /\ m_nextPositionId < MaxIds
  /\ m_nextPositionId' = m_nextPositionId + 1
  /\ m_positions' = Insert(m_positions, m_nextPositionId',
                           [symbol |-> symbol, quantity |-> qty, notional |-> qty * price])
  /\ autoConsume(symbol)
  /\ UNCHANGED m_nextReservationId

\* A position closed in part is marked at the exit price.
closePosition(id, close_qty, exit_price) ==
  /\ id \in DOMAIN m_positions
  /\ LET remaining == m_positions[id].quantity - close_qty
     IN  m_positions' = IF remaining <= 0
                        THEN Erase(m_positions, id)
                        ELSE [m_positions EXCEPT ![id].quantity = remaining,
                                                 ![id].notional = remaining * exit_price]
  /\ UNCHANGED <<m_nextPositionId, m_pendingReservations, m_nextReservationId>>

updatePrice(id, current_price) ==
  /\ id \in DOMAIN m_positions
  /\ m_positions' = [m_positions EXCEPT ![id].notional = m_positions[id].quantity * current_price]
  /\ UNCHANGED <<m_nextPositionId, m_pendingReservations, m_nextReservationId>>

-----------------------------------------------------------------------------
(* Any number of threads call the operations in any order.                 *)

LedgerInit ==
  /\ m_positions = EmptyMap
  /\ m_nextPositionId = 0
  /\ m_pendingReservations = EmptyMap
  /\ m_nextReservationId = 1

LedgerNext ==
  \/ \E symbol \in Symbols, qty \in Quantities \ {0}, price \in Prices :
       reserveNotional(symbol, qty, price)
  \/ \E id \in 1 .. MaxIds : consumeReservation(id)
  \/ \E id \in 1 .. MaxIds : cancelReservation(id)
  \/ \E symbol \in Symbols, qty \in Quantities, price \in Prices :
       openPosition(symbol, qty, price)
  \/ \E id \in DOMAIN m_positions, qty \in Quantities, price \in Prices :
       closePosition(id, qty, price)
  \/ \E id \in DOMAIN m_positions, price \in Prices : updatePrice(id, price)

LedgerSpec == LedgerInit /\ [][LedgerNext]_ledger

-----------------------------------------------------------------------------
(* Properties                                                              *)

LedgerTypeOK ==
  /\ m_nextPositionId \in 0 .. MaxIds
  /\ m_nextReservationId \in 1 .. MaxIds + 1
  /\ DOMAIN m_positions \subseteq 1 .. m_nextPositionId
  /\ DOMAIN m_pendingReservations \subseteq 1 .. m_nextReservationId - 1
  /\ m_positions \in [DOMAIN m_positions -> Position]
  /\ m_pendingReservations \in [DOMAIN m_pendingReservations -> Reservation]

\* The budget reserved for orders in flight never exceeds a limit, whatever
\* opens, closes, marks and fills come between the reservations: two callers of
\* reserveNotional cannot both be granted the same budget.
PendingWithinLimits ==
  /\ PendingNotional <= maxPositionNotional
  /\ \A symbol \in Symbols : PendingNotionalOf(symbol) <= maxSymbolNotional
  /\ PendingCount <= maxOpenPositions

\* There are never more open positions than maxOpenPositions.
PositionCountWithinLimit == PositionCount <= maxOpenPositions

\* A reservation is granted only when positions and reservations together,
\* the new one included, are within every limit.
GrantsRespectCommitments ==
  [][DOMAIN m_pendingReservations' \ DOMAIN m_pendingReservations # {} =>
       /\ CommittedNotional' <= maxPositionNotional
       /\ \A id \in DOMAIN m_pendingReservations' \ DOMAIN m_pendingReservations :
            CommittedNotionalOf(m_pendingReservations[id].symbol)' <= maxSymbolNotional
       /\ CommittedCount' <= maxOpenPositions]_ledger

\* An order is cut or rejected only for want of budget: one lot more than what
\* is granted would break a limit.
GrantsAreMaximal ==
  \A symbol \in Symbols, qty \in Quantities, price \in Prices :
    LET granted == GrantedQuantity(symbol, qty, price)
    IN  granted < qty =>
          \/ CommittedCount >= maxOpenPositions
          \/ ~ Fits(symbol, (granted + 1) * price)
=============================================================================
