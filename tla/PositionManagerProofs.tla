------------------------- MODULE PositionManagerProofs -------------------------
(***************************************************************************)
(* The theorems of the position ledger, for every set of symbols, prices   *)
(* and quantities, every limit and any number of callers.                  *)
(***************************************************************************)
EXTENDS PositionManager, Facts

-----------------------------------------------------------------------------
(* Sums of notionals                                                       *)

\* A map whose entries have a notional.
HasNotionals(map) == \A k \in DOMAIN map : map[k].notional \in Nat

\* The units of one entry are as many as its notional.
LEMMA UnitsOfOne ==
  ASSUME NEW k, NEW n \in Nat
  PROVE  IsFiniteSet({k} \X (1 .. n)) /\ Cardinality({k} \X (1 .. n)) = n
<1>1. IsFiniteSet({k}) /\ Cardinality({k}) = 1
  BY FS_Singleton
<1>2. IsFiniteSet(1 .. n) /\ Cardinality(1 .. n) = n
  BY FS_Interval
<1> DEFINE K == {k}
           N == 1 .. n
<1>3. IsFiniteSet(K) /\ Cardinality(K) = 1 /\ IsFiniteSet(N) /\ Cardinality(N) = n
  BY <1>1, <1>2
<1> HIDE DEF K, N
<1>4. IsFiniteSet(K \X N) /\ Cardinality(K \X N) = Cardinality(K) * Cardinality(N)
  BY <1>3, FS_Product
<1>5. 1 * n = n
  OBVIOUS
<1> QED
  BY <1>3, <1>4, <1>5 DEF K, N

\* Finitely many entries have finitely many units: their sum is a number.
LEMMA UnitsAreFinite ==
  ASSUME NEW map, HasNotionals(map), NEW keys \in SUBSET DOMAIN map, IsFiniteSet(keys)
  PROVE  IsFiniteSet(Units(map, keys)) /\ NotionalOf(map, keys) \in Nat
<1> DEFINE f == [k \in keys |-> {k} \X (1 .. map[k].notional)]
           T == {f[k] : k \in keys}
<1>1. f \in Surjection(keys, T)
  BY DEF Surjection
<1>2. IsFiniteSet(T)
  BY <1>1, FS_Surjection
<1>3. \A t \in T : IsFiniteSet(t)
  <2>1. ASSUME NEW k \in keys PROVE IsFiniteSet(f[k])
    <3>1. map[k].notional \in Nat
      BY DEF HasNotionals
    <3> QED
      BY <3>1, UnitsOfOne
  <2> QED
    BY <2>1
<1>4. IsFiniteSet(UNION T)
  BY <1>2, <1>3, FS_UNION
<1>5. Units(map, keys) = UNION T
  BY DEF Units
<1> QED
  BY <1>4, <1>5, FS_CardinalityType DEF NotionalOf

\* The sum depends on the entries of the keys alone, and grows with the keys.
LEMMA SumIsMonotonic ==
  ASSUME NEW map, HasNotionals(map), NEW keys \in SUBSET DOMAIN map, IsFiniteSet(keys),
         NEW map2, NEW keys2 \in SUBSET keys, \A k \in keys2 : map2[k] = map[k]
  PROVE  NotionalOf(map2, keys2) \in Nat /\ NotionalOf(map2, keys2) <= NotionalOf(map, keys)
<1>1. Units(map2, keys2) \subseteq Units(map, keys)
  BY DEF Units
<1> QED
  BY <1>1, UnitsAreFinite, FS_Subset, FS_CardinalityType DEF NotionalOf

\* A new entry adds its notional to the sum.
LEMMA SumOfInsert ==
  ASSUME NEW map, HasNotionals(map), NEW keys \in SUBSET DOMAIN map, IsFiniteSet(keys),
         NEW key, key \notin DOMAIN map, NEW entry, entry.notional \in Nat
  PROVE  NotionalOf(Insert(map, key, entry), keys \cup {key}) = NotionalOf(map, keys) + entry.notional
<1> DEFINE U == Units(map, keys)
           E == {key} \X (1 .. entry.notional)
<1>1. Units(Insert(map, key, entry), keys \cup {key}) = U \cup E
  <2> DEFINE ins == Insert(map, key, entry)
  <2>1. \A k \in keys : ins[k] = map[k]
    BY InsertOther
  <2>2. ins[key] = entry
    BY InsertKey
  <2>3. Units(ins, keys \cup {key}) = U \cup E
    <3> HIDE DEF ins
    <3> QED
      BY <2>1, <2>2 DEF Units
  <2> QED
    BY <2>3
<1>2. IsFiniteSet(U) /\ IsFiniteSet(E) /\ Cardinality(U) \in Nat /\ Cardinality(E) = entry.notional
  BY UnitsAreFinite, UnitsOfOne DEF NotionalOf
<1>3. U \cap E = {}
  BY DEF Units
<1>4. Cardinality(U \cup E) = Cardinality(U) + Cardinality(E)
  <2> HIDE DEF U, E
  <2>1. Cardinality(U \cup E) = Cardinality(U) + Cardinality(E) - Cardinality(U \cap E)
    BY <1>2, FS_Union
  <2> QED
    BY <1>2, <1>3, <2>1, FS_EmptySet
<1> QED
  BY <1>1, <1>2, <1>4 DEF NotionalOf

-----------------------------------------------------------------------------
(* The sums of the ledger                                                  *)

LEMMA MapsAreFinite ==
  ASSUME LedgerTypeOK
  PROVE  /\ IsFiniteSet(DOMAIN m_positions)
         /\ IsFiniteSet(DOMAIN m_pendingReservations)
         /\ HasNotionals(m_positions)
         /\ HasNotionals(m_pendingReservations)
         /\ PositionCount \in Nat
         /\ PendingCount \in Nat
<1>1. IsFiniteSet(1 .. m_nextPositionId) /\ IsFiniteSet(1 .. m_nextReservationId - 1)
  <2>1. m_nextPositionId \in Int /\ m_nextReservationId - 1 \in Int
    BY LedgerAssumption DEF LedgerTypeOK
  <2> QED
    BY <2>1, FS_Interval
<1>2. IsFiniteSet(DOMAIN m_positions) /\ IsFiniteSet(DOMAIN m_pendingReservations)
  BY <1>1, FS_Subset DEF LedgerTypeOK
<1>3. HasNotionals(m_positions) /\ HasNotionals(m_pendingReservations)
  BY DEF LedgerTypeOK, HasNotionals, Position, Reservation
<1> QED
  BY <1>2, <1>3, FS_CardinalityType DEF PositionCount, PendingCount

\* Every sum over a symbol is a sum over a finite part of the map.
LEMMA SymbolSums ==
  ASSUME NEW map, HasNotionals(map), IsFiniteSet(DOMAIN map), NEW symbol
  PROVE  /\ OfSymbol(map, symbol) \in SUBSET DOMAIN map
         /\ IsFiniteSet(OfSymbol(map, symbol))
         /\ NotionalOf(map, DOMAIN map) \in Nat
         /\ NotionalOf(map, OfSymbol(map, symbol)) \in Nat
<1>1. OfSymbol(map, symbol) \in SUBSET DOMAIN map
  BY DEF OfSymbol
<1>2. IsFiniteSet(OfSymbol(map, symbol))
  BY <1>1, FS_Subset
<1> QED
  BY <1>1, <1>2, UnitsAreFinite

LEMMA SumsAreNumbers ==
  ASSUME LedgerTypeOK, NEW symbol
  PROVE  /\ PositionNotional \in Nat /\ PositionNotionalOf(symbol) \in Nat
         /\ PendingNotional \in Nat /\ PendingNotionalOf(symbol) \in Nat
  BY MapsAreFinite, SymbolSums
     DEF PositionNotional, PositionNotionalOf, PendingNotional, PendingNotionalOf

-----------------------------------------------------------------------------
(* What a caller is granted                                                *)

LEMMA Quotient ==
  ASSUME NEW a \in Nat, NEW b \in Nat \ {0}
  PROVE  /\ a \div b \in Nat
         /\ (a \div b) * b <= a
         /\ (a \div b + 1) * b > a
  OBVIOUS

LEMMA QuotientIsLargest ==
  ASSUME NEW a \in Nat, NEW b \in Nat \ {0}, NEW q \in Nat, q <= a \div b
  PROVE  q * b <= a /\ q * b \in Nat
<1>1. a \div b \in Nat /\ (a \div b) * b <= a
  BY Quotient
<1> DEFINE d == a \div b
<1>2. d \in Nat /\ d * b <= a /\ q <= d
  BY <1>1
<1> HIDE DEF d
<1>3. q * b <= d * b
  BY <1>2
<1> QED
  BY <1>2, <1>3

\* What is granted fits in every limit, together with what is committed already.
LEMMA GrantFits ==
  ASSUME LedgerTypeOK, NEW symbol \in Symbols, NEW qty \in Nat, NEW price \in Nat
  PROVE  LET granted == GrantedQuantity(symbol, qty, price)
         IN  /\ granted \in Nat
             /\ granted # 0 => CommittedCount < maxOpenPositions /\ Fits(symbol, granted * price)
<1> DEFINE granted == GrantedQuantity(symbol, qty, price)
           budget == Budget(symbol)
<1>1. /\ CommittedNotional \in Nat /\ CommittedNotionalOf(symbol) \in Nat
      /\ CommittedCount \in Nat
  BY SumsAreNumbers, MapsAreFinite DEF CommittedNotional, CommittedNotionalOf, CommittedCount
<1>2. /\ budget \in Int
      /\ budget <= maxPositionNotional - CommittedNotional
      /\ budget <= maxSymbolNotional - CommittedNotionalOf(symbol)
  BY <1>1, LedgerAssumption DEF Budget
<1>3. CASE CommittedCount >= maxOpenPositions
  BY <1>3 DEF GrantedQuantity
<1>4. CASE CommittedCount < maxOpenPositions /\ Fits(symbol, qty * price)
  BY <1>1, <1>4, LedgerAssumption DEF GrantedQuantity
<1>5. CASE /\ CommittedCount < maxOpenPositions /\ ~ Fits(symbol, qty * price)
           /\ price > 0 /\ budget > 0 /\ budget \div price < qty
  <2>1. granted = budget \div price
    BY <1>1, <1>5, LedgerAssumption DEF GrantedQuantity
  <2>2. granted \in Nat /\ granted * price <= budget
    <3> HIDE DEF granted, budget
    <3> QED
      BY <1>2, <1>5, <2>1, Quotient
  <2>3. granted * price \in Nat
    BY <2>2
  <2>4. Fits(symbol, granted * price)
    <3> HIDE DEF granted, budget
    <3> QED
      BY <1>1, <1>2, <2>2, <2>3, LedgerAssumption DEF Fits
  <2> QED
    BY <1>5, <2>2, <2>4
<1>6. CASE /\ CommittedCount < maxOpenPositions /\ ~ Fits(symbol, qty * price)
           /\ ~ (price > 0 /\ budget > 0 /\ budget \div price < qty)
  BY <1>1, <1>6, LedgerAssumption DEF GrantedQuantity
<1> QED
  BY <1>1, <1>3, <1>4, <1>5, <1>6, LedgerAssumption

-----------------------------------------------------------------------------
(* Type correctness                                                        *)

\* No operation leaves the types.
LEMMA LedgerTypeStep == LedgerTypeOK /\ [LedgerNext]_ledger => LedgerTypeOK'
<1> SUFFICES ASSUME LedgerTypeOK, [LedgerNext]_ledger
             PROVE  LedgerTypeOK'
  OBVIOUS
<1> USE LedgerAssumption
<1>1. ASSUME NEW symbol \in Symbols, NEW qty \in Quantities \ {0}, NEW price \in Prices,
             reserveNotional(symbol, qty, price)
      PROVE  LedgerTypeOK'
  <2> DEFINE granted == GrantedQuantity(symbol, qty, price)
             entry == [symbol |-> symbol, notional |-> granted * price]
  <2>1. granted \in Nat /\ price \in Nat
    BY GrantFits
  <2>2. entry \in Reservation
    <3> HIDE DEF granted
    <3> QED
      BY <2>1 DEF Reservation
  <2>3. /\ m_nextReservationId \in 1 .. MaxIds
        /\ m_nextReservationId' = m_nextReservationId + 1
        /\ UNCHANGED <<m_positions, m_nextPositionId>>
    BY <1>1 DEF reserveNotional, LedgerTypeOK
  <2>4. CASE m_pendingReservations' = m_pendingReservations
    BY <2>3, <2>4 DEF LedgerTypeOK
  <2>5. CASE m_pendingReservations' = Insert(m_pendingReservations, m_nextReservationId, entry)
    <3> HIDE DEF entry
    <3>1. DOMAIN m_pendingReservations' = DOMAIN m_pendingReservations \cup {m_nextReservationId}
      BY <2>5, InsertDomain
    <3>2. m_pendingReservations' \in [DOMAIN m_pendingReservations' -> Reservation]
      BY <2>2, <2>5, <3>1, InsertType DEF LedgerTypeOK
    <3> QED
      BY <2>3, <3>1, <3>2 DEF LedgerTypeOK
  <2> QED
    BY <1>1, <2>4, <2>5 DEF reserveNotional
<1>2. ASSUME NEW id, \/ consumeReservation(id)
                     \/ cancelReservation(id)
      PROVE  LedgerTypeOK'
  <2>1. /\ m_pendingReservations' = Erase(m_pendingReservations, id)
        /\ UNCHANGED <<m_positions, m_nextPositionId, m_nextReservationId>>
    BY <1>2 DEF consumeReservation, cancelReservation
  <2>2. DOMAIN m_pendingReservations' = DOMAIN m_pendingReservations \ {id}
    BY <2>1, EraseDomain
  <2>3. m_pendingReservations' \in [DOMAIN m_pendingReservations' -> Reservation]
    BY <2>1, <2>2, EraseType DEF LedgerTypeOK
  <2> QED
    BY <2>1, <2>2, <2>3 DEF LedgerTypeOK
<1>3. ASSUME NEW symbol \in Symbols, NEW qty \in Quantities, NEW price \in Prices,
             openPosition(symbol, qty, price)
      PROVE  LedgerTypeOK'
  <2> DEFINE entry == [symbol |-> symbol, quantity |-> qty, notional |-> qty * price]
  <2>1. entry \in Position
    BY DEF Position
  <2>2. /\ m_nextPositionId' = m_nextPositionId + 1
        /\ m_nextPositionId' \in 1 .. MaxIds
        /\ m_positions' = Insert(m_positions, m_nextPositionId', entry)
        /\ UNCHANGED m_nextReservationId
    BY <1>3 DEF openPosition, LedgerTypeOK
  <2> HIDE DEF entry
  <2>3. DOMAIN m_positions' = DOMAIN m_positions \cup {m_nextPositionId'}
    BY <2>2, InsertDomain
  <2>4. m_positions' \in [DOMAIN m_positions' -> Position]
    <3>1. m_positions \in [DOMAIN m_positions -> Position]
      BY DEF LedgerTypeOK
    <3>2. m_positions' \in [DOMAIN m_positions \cup {m_nextPositionId'} -> Position]
      BY <2>1, <2>2, <3>1, InsertType
    <3> QED
      BY <2>3, <3>2
  <2>5. /\ DOMAIN m_pendingReservations' \subseteq DOMAIN m_pendingReservations
        /\ m_pendingReservations' \in [DOMAIN m_pendingReservations' -> Reservation]
    <3>1. CASE UNCHANGED m_pendingReservations
      BY <3>1 DEF LedgerTypeOK
    <3>2. ASSUME NEW id, m_pendingReservations' = Erase(m_pendingReservations, id)
          PROVE  /\ DOMAIN m_pendingReservations' \subseteq DOMAIN m_pendingReservations
                 /\ m_pendingReservations' \in [DOMAIN m_pendingReservations' -> Reservation]
      <4>1. DOMAIN m_pendingReservations' = DOMAIN m_pendingReservations \ {id}
        BY <3>2, EraseDomain
      <4>2. m_pendingReservations' \in [DOMAIN m_pendingReservations' -> Reservation]
        BY <3>2, <4>1, EraseType DEF LedgerTypeOK
      <4> QED
        BY <4>1, <4>2
    <3>3. \/ UNCHANGED m_pendingReservations
          \/ \E id \in OfSymbol(m_pendingReservations, symbol) :
               m_pendingReservations' = Erase(m_pendingReservations, id)
      BY <1>3 DEF openPosition, autoConsume
    <3> QED
      BY <3>1, <3>2, <3>3
  <2> QED
    BY <2>2, <2>3, <2>4, <2>5 DEF LedgerTypeOK
<1>4. ASSUME NEW id \in DOMAIN m_positions, NEW qty \in Quantities, NEW price \in Prices,
             closePosition(id, qty, price)
      PROVE  LedgerTypeOK'
  <2> DEFINE remaining == m_positions[id].quantity - qty
  <2>1. UNCHANGED <<m_nextPositionId, m_pendingReservations, m_nextReservationId>>
    BY <1>4 DEF closePosition
  <2>2. CASE m_positions' = Erase(m_positions, id)
    <3>1. DOMAIN m_positions' = DOMAIN m_positions \ {id}
      BY <2>2, EraseDomain
    <3>2. m_positions' \in [DOMAIN m_positions' -> Position]
      BY <2>2, <3>1, EraseType DEF LedgerTypeOK
    <3> QED
      BY <2>1, <3>1, <3>2 DEF LedgerTypeOK
  <2>3. CASE /\ remaining > 0
             /\ m_positions' = [m_positions EXCEPT ![id].quantity = remaining,
                                                   ![id].notional = remaining * price]
    <3>1. remaining \in Nat /\ remaining * price \in Nat
      BY <2>3 DEF LedgerTypeOK, Position
    <3> HIDE DEF remaining
    <3>2. m_positions' \in [DOMAIN m_positions -> Position]
      BY <2>3, <3>1 DEF LedgerTypeOK, Position
    <3> QED
      BY <2>1, <3>2 DEF LedgerTypeOK
  <2>4. remaining \in Int
    BY DEF LedgerTypeOK, Position
  <2> QED
    BY <1>4, <2>2, <2>3, <2>4 DEF closePosition
<1>5. ASSUME NEW id \in DOMAIN m_positions, NEW price \in Prices, updatePrice(id, price)
      PROVE  LedgerTypeOK'
  <2>1. m_positions[id].quantity * price \in Nat
    BY DEF LedgerTypeOK, Position
  <2>2. m_positions' \in [DOMAIN m_positions -> Position]
    BY <1>5, <2>1 DEF updatePrice, LedgerTypeOK, Position
  <2> QED
    BY <1>5, <2>2 DEF updatePrice, LedgerTypeOK
<1>6. CASE UNCHANGED ledger
  BY <1>6 DEF ledger, LedgerTypeOK
<1> QED
  BY <1>1, <1>2, <1>3, <1>4, <1>5, <1>6 DEF LedgerNext

\* The ledger's maps hold well-formed entries under ids that were handed out,
\* after any sequence of calls of its operations (PositionManager.cpp).
THEOREM LedgerTypeCorrect == LedgerSpec => []LedgerTypeOK
<1>1. LedgerInit => LedgerTypeOK
  BY EmptyMapDomain, EmptyMapType, LedgerAssumption DEF LedgerInit, LedgerTypeOK
<1> QED
  BY <1>1, LedgerTypeStep, PTL DEF LedgerSpec

-----------------------------------------------------------------------------
(* What a step does to the reservations                                    *)

\* The reservations of a step that grants none are some of those before it.
ReservationsShrink ==
  /\ DOMAIN m_pendingReservations' \subseteq DOMAIN m_pendingReservations
  /\ \A id \in DOMAIN m_pendingReservations' : m_pendingReservations'[id] = m_pendingReservations[id]

\* A step that grants one adds what fits, and leaves the positions alone.
ReservationGranted(symbol, notional) ==
  /\ notional \in Nat
  /\ CommittedCount < maxOpenPositions
  /\ Fits(symbol, notional)
  /\ m_nextReservationId \notin DOMAIN m_pendingReservations
  /\ m_pendingReservations' = Insert(m_pendingReservations, m_nextReservationId,
                                     [symbol |-> symbol, notional |-> notional])
  /\ UNCHANGED m_positions

LEMMA EraseShrinks ==
  ASSUME NEW id, m_pendingReservations' = Erase(m_pendingReservations, id)
  PROVE  ReservationsShrink
<1>1. DOMAIN m_pendingReservations' = DOMAIN m_pendingReservations \ {id}
  BY EraseDomain
<1>2. \A k \in DOMAIN m_pendingReservations \ {id} :
        Erase(m_pendingReservations, id)[k] = m_pendingReservations[k]
  BY EraseOther
<1> QED
  BY <1>1, <1>2 DEF ReservationsShrink

LEMMA StepOfReservations ==
  ASSUME LedgerTypeOK, [LedgerNext]_ledger
  PROVE  \/ ReservationsShrink
         \/ \E symbol \in Symbols, notional \in Nat : ReservationGranted(symbol, notional)
<1> USE LedgerAssumption
<1>1. ASSUME UNCHANGED m_pendingReservations
      PROVE  ReservationsShrink
  BY <1>1 DEF ReservationsShrink
<1>2. ASSUME NEW symbol \in Symbols, NEW qty \in Quantities \ {0}, NEW price \in Prices,
             reserveNotional(symbol, qty, price)
      PROVE  \/ ReservationsShrink
             \/ \E notional \in Nat : ReservationGranted(symbol, notional)
  <2> DEFINE granted == GrantedQuantity(symbol, qty, price)
  <2>1. CASE granted = 0
    <3>1. UNCHANGED m_pendingReservations
      BY <1>2, <2>1 DEF reserveNotional
    <3> QED
      BY <1>1, <3>1
  <2>2. CASE granted # 0
    <3>1. /\ granted \in Nat /\ price \in Nat
          /\ CommittedCount < maxOpenPositions
          /\ Fits(symbol, granted * price)
      BY <2>2, GrantFits
    <3>2. /\ m_pendingReservations' = Insert(m_pendingReservations, m_nextReservationId,
                                             [symbol |-> symbol, notional |-> granted * price])
          /\ UNCHANGED m_positions
      BY <1>2, <2>2 DEF reserveNotional
    <3>3. m_nextReservationId \notin DOMAIN m_pendingReservations
      BY DEF LedgerTypeOK
    <3> HIDE DEF granted
    <3>4. granted * price \in Nat
      BY <3>1
    <3>5. ReservationGranted(symbol, granted * price)
      BY <3>1, <3>2, <3>3, <3>4 DEF ReservationGranted
    <3> QED
      BY <3>4, <3>5
  <2> QED
    BY <2>1, <2>2
<1>3. ASSUME NEW id, consumeReservation(id) \/ cancelReservation(id)
      PROVE  ReservationsShrink
  BY <1>3, EraseShrinks DEF consumeReservation, cancelReservation
<1>4. ASSUME NEW symbol, NEW qty, NEW price, openPosition(symbol, qty, price)
      PROVE  ReservationsShrink
  <2>1. \/ UNCHANGED m_pendingReservations
        \/ \E id \in OfSymbol(m_pendingReservations, symbol) :
             m_pendingReservations' = Erase(m_pendingReservations, id)
    BY <1>4 DEF openPosition, autoConsume
  <2> QED
    BY <1>1, <2>1, EraseShrinks
<1>5. ASSUME NEW id, NEW qty, NEW price, closePosition(id, qty, price) \/ updatePrice(id, price)
      PROVE  ReservationsShrink
  <2>1. UNCHANGED m_pendingReservations
    BY <1>5 DEF closePosition, updatePrice
  <2> QED
    BY <1>1, <2>1
<1>6. CASE UNCHANGED ledger
  BY <1>1, <1>6 DEF ledger
<1> QED
  BY <1>2, <1>3, <1>4, <1>5, <1>6 DEF LedgerNext

\* A granted reservation adds its notional to each sum it belongs to, and one to
\* the count.
LEMMA SumsAfterGrant ==
  ASSUME LedgerTypeOK, NEW symbol \in Symbols, NEW notional \in Nat,
         ReservationGranted(symbol, notional)
  PROVE  /\ PendingNotional' = PendingNotional + notional
         /\ PendingCount' = PendingCount + 1
         /\ PendingNotionalOf(symbol)' = PendingNotionalOf(symbol) + notional
         /\ \A s \in Symbols \ {symbol} :
              PendingNotionalOf(s)' \in Nat /\ PendingNotionalOf(s)' <= PendingNotionalOf(s)
<1> DEFINE map == m_pendingReservations
           new == m_nextReservationId
           entry == [symbol |-> symbol, notional |-> notional]
<1>1. /\ map' = Insert(map, new, entry)
      /\ new \notin DOMAIN map
  BY DEF ReservationGranted
<1>2. /\ DOMAIN map' = DOMAIN map \cup {new}
      /\ map'[new] = entry
      /\ \A k \in DOMAIN map : map'[k] = map[k]
  <2>1. \A k \in DOMAIN map : Insert(map, new, entry)[k] = map[k]
    BY <1>1, InsertOther
  <2>2. DOMAIN Insert(map, new, entry) = DOMAIN map \cup {new}
    BY InsertDomain
  <2>3. Insert(map, new, entry)[new] = entry
    BY InsertKey
  <2> HIDE DEF entry
  <2> QED
    BY <1>1, <2>1, <2>2, <2>3
<1>3. /\ HasNotionals(map) /\ IsFiniteSet(DOMAIN map) /\ PendingCount \in Nat
      /\ \A s : OfSymbol(map, s) \in SUBSET DOMAIN map /\ IsFiniteSet(OfSymbol(map, s))
  BY MapsAreFinite, SymbolSums
<1>4. entry.notional = notional /\ entry.symbol = symbol
  OBVIOUS
<1>5. PendingNotional' = PendingNotional + notional
  <2> HIDE DEF entry
  <2>1. NotionalOf(Insert(map, new, entry), DOMAIN map \cup {new}) = NotionalOf(map, DOMAIN map) + notional
    BY <1>1, <1>3, <1>4, SumOfInsert
  <2>2. PendingNotional' = NotionalOf(map', DOMAIN map')
    BY DEF PendingNotional
  <2> QED
    BY <1>1, <1>2, <2>1, <2>2 DEF PendingNotional
<1>6. PendingNotionalOf(symbol)' = PendingNotionalOf(symbol) + notional
  <2> DEFINE keys == OfSymbol(map, symbol)
  <2>1. OfSymbol(map', symbol) = keys \cup {new}
    <3> HIDE DEF entry
    <3> QED
      BY <1>2, <1>4 DEF OfSymbol
  <2>2. NotionalOf(Insert(map, new, entry), keys \cup {new}) = NotionalOf(map, keys) + notional
    <3> HIDE DEF entry, keys
    <3>1. keys \in SUBSET DOMAIN map /\ IsFiniteSet(keys)
      BY <1>3 DEF keys
    <3> QED
      BY <1>1, <1>3, <1>4, <3>1, SumOfInsert
  <2>3. PendingNotionalOf(symbol)' = NotionalOf(map', OfSymbol(map', symbol))
    BY DEF PendingNotionalOf
  <2> HIDE DEF entry
  <2> QED
    BY <1>1, <2>1, <2>2, <2>3 DEF PendingNotionalOf
<1>7. ASSUME NEW s \in Symbols \ {symbol}
      PROVE  PendingNotionalOf(s)' \in Nat /\ PendingNotionalOf(s)' <= PendingNotionalOf(s)
  <2>1. OfSymbol(map', s) = OfSymbol(map, s)
    <3> HIDE DEF entry
    <3> QED
      BY <1>2, <1>4 DEF OfSymbol
  <2>2. \A k \in OfSymbol(map, s) : map'[k] = map[k]
    BY <1>2, <1>3
  <2>3. /\ NotionalOf(map', OfSymbol(map, s)) \in Nat
        /\ NotionalOf(map', OfSymbol(map, s)) <= NotionalOf(map, OfSymbol(map, s))
    BY <1>3, <2>2, SumIsMonotonic
  <2>4. PendingNotionalOf(s)' = NotionalOf(map', OfSymbol(map', s))
    BY DEF PendingNotionalOf
  <2> QED
    BY <2>1, <2>3, <2>4 DEF PendingNotionalOf
<1>8. PendingCount' = PendingCount + 1
  <2>1. Cardinality(DOMAIN map \cup {new}) = Cardinality(DOMAIN map) + 1
    BY <1>1, <1>3, FS_AddElement
  <2> QED
    BY <1>2, <2>1 DEF PendingCount
<1> QED
  BY <1>5, <1>6, <1>7, <1>8

\* Reservations that are consumed or cancelled take their notional out of the sums.
LEMMA SumsAfterShrinking ==
  ASSUME LedgerTypeOK, ReservationsShrink
  PROVE  /\ PendingNotional' \in Nat /\ PendingNotional' <= PendingNotional
         /\ PendingCount' \in Nat /\ PendingCount' <= PendingCount
         /\ \A s \in Symbols :
              PendingNotionalOf(s)' \in Nat /\ PendingNotionalOf(s)' <= PendingNotionalOf(s)
<1> DEFINE map == m_pendingReservations
<1>1. /\ HasNotionals(map) /\ IsFiniteSet(DOMAIN map)
      /\ \A s : OfSymbol(map, s) \in SUBSET DOMAIN map /\ IsFiniteSet(OfSymbol(map, s))
  BY MapsAreFinite, SymbolSums
<1>2. DOMAIN map' \in SUBSET DOMAIN map /\ \A k \in DOMAIN map' : map'[k] = map[k]
  BY DEF ReservationsShrink
<1>3. PendingNotional' \in Nat /\ PendingNotional' <= PendingNotional
  <2>1. NotionalOf(map', DOMAIN map') \in Nat /\ NotionalOf(map', DOMAIN map') <= NotionalOf(map, DOMAIN map)
    BY <1>1, <1>2, SumIsMonotonic
  <2> QED
    BY <2>1 DEF PendingNotional
<1>4. ASSUME NEW s \in Symbols
      PROVE  PendingNotionalOf(s)' \in Nat /\ PendingNotionalOf(s)' <= PendingNotionalOf(s)
  <2>1. /\ OfSymbol(map', s) \in SUBSET OfSymbol(map, s)
        /\ \A k \in OfSymbol(map', s) : map'[k] = map[k]
    BY <1>2 DEF OfSymbol
  <2>2. /\ NotionalOf(map', OfSymbol(map', s)) \in Nat
        /\ NotionalOf(map', OfSymbol(map', s)) <= NotionalOf(map, OfSymbol(map, s))
    BY <1>1, <2>1, SumIsMonotonic
  <2> QED
    BY <2>2 DEF PendingNotionalOf
<1>5. PendingCount' \in Nat /\ PendingCount' <= PendingCount
  BY <1>1, <1>2, FS_Subset, FS_CardinalityType DEF PendingCount
<1> QED
  BY <1>3, <1>4, <1>5

-----------------------------------------------------------------------------
(* Safety                                                                  *)

\* No interleaving of reservations, fills, cancellations, closes and marks gets
\* more budget or more slots reserved than the limits of the configuration
\* (PositionManager::reserveNotional decides and reserves under one lock).
THEOREM ReservedBudgetIsBounded == LedgerSpec => []PendingWithinLimits
<1>1. LedgerInit => PendingWithinLimits
  <2> SUFFICES ASSUME LedgerInit
               PROVE  PendingWithinLimits
    OBVIOUS
  <2>1. DOMAIN m_pendingReservations = {}
    BY EmptyMapDomain DEF LedgerInit
  <2>2. /\ Units(m_pendingReservations, DOMAIN m_pendingReservations) = {}
        /\ \A s : Units(m_pendingReservations, OfSymbol(m_pendingReservations, s)) = {}
    BY <2>1 DEF Units, OfSymbol
  <2>3. /\ PendingNotional = 0 /\ PendingCount = 0
        /\ \A s \in Symbols : PendingNotionalOf(s) = 0
    BY <2>1, <2>2, FS_EmptySet DEF PendingNotional, PendingNotionalOf, PendingCount, NotionalOf
  <2> QED
    BY <2>3, LedgerAssumption DEF PendingWithinLimits
<1>2. LedgerTypeOK /\ PendingWithinLimits /\ [LedgerNext]_ledger => PendingWithinLimits'
  <2> SUFFICES ASSUME LedgerTypeOK, PendingWithinLimits, [LedgerNext]_ledger
               PROVE  PendingWithinLimits'
    OBVIOUS
  <2> USE LedgerAssumption
  <2>1. /\ PendingNotional \in Nat /\ PositionNotional \in Nat
        /\ PendingCount \in Nat /\ PositionCount \in Nat
        /\ \A s : PendingNotionalOf(s) \in Nat /\ PositionNotionalOf(s) \in Nat
    BY SumsAreNumbers, MapsAreFinite
  <2>2. CASE ReservationsShrink
    BY <2>1, <2>2, SumsAfterShrinking DEF PendingWithinLimits
  <2>3. ASSUME NEW symbol \in Symbols, NEW notional \in Nat, ReservationGranted(symbol, notional)
        PROVE  PendingWithinLimits'
    <3>1. /\ PendingCount + PositionCount < maxOpenPositions
          /\ PendingNotional + PositionNotional + notional <= maxPositionNotional
          /\ PendingNotionalOf(symbol) + PositionNotionalOf(symbol) + notional <= maxSymbolNotional
      BY <2>1, <2>3 DEF ReservationGranted, Fits, CommittedNotional, CommittedNotionalOf, CommittedCount
    <3> QED
      BY <2>1, <2>3, <3>1, SumsAfterGrant DEF PendingWithinLimits
  <2> QED
    BY <2>2, <2>3, StepOfReservations
<1> QED
  BY <1>1, <1>2, LedgerTypeCorrect, PTL DEF LedgerSpec

\* A caller is granted budget only when positions and reservations together stay
\* within every limit: deciding and reserving are one step, so that no other
\* caller's order comes between them (PositionManager::reserveNotional).
THEOREM GrantsAreWithinLimits == LedgerSpec => GrantsRespectCommitments
<1>1. ASSUME LedgerTypeOK, [LedgerNext]_ledger,
             DOMAIN m_pendingReservations' \ DOMAIN m_pendingReservations # {}
      PROVE  /\ CommittedNotional' <= maxPositionNotional
             /\ \A id \in DOMAIN m_pendingReservations' \ DOMAIN m_pendingReservations :
                  CommittedNotionalOf(m_pendingReservations[id].symbol)' <= maxSymbolNotional
             /\ CommittedCount' <= maxOpenPositions
  <2> USE LedgerAssumption
  <2>1. ~ ReservationsShrink
    BY <1>1 DEF ReservationsShrink
  <2>2. PICK symbol \in Symbols, notional \in Nat : ReservationGranted(symbol, notional)
    BY <1>1, <2>1, StepOfReservations
  <2>3. /\ PendingNotional \in Nat /\ PositionNotional \in Nat
        /\ PendingCount \in Nat /\ PositionCount \in Nat
        /\ PendingNotionalOf(symbol) \in Nat /\ PositionNotionalOf(symbol) \in Nat
    BY <1>1, SumsAreNumbers, MapsAreFinite
  <2>4. /\ PositionNotional' = PositionNotional
        /\ PositionNotionalOf(symbol)' = PositionNotionalOf(symbol)
        /\ PositionCount' = PositionCount
    BY <2>2 DEF ReservationGranted, PositionNotional, PositionNotionalOf, PositionCount
  <2>5. /\ PositionCount + PendingCount < maxOpenPositions
        /\ PositionNotional + PendingNotional + notional <= maxPositionNotional
        /\ PositionNotionalOf(symbol) + PendingNotionalOf(symbol) + notional <= maxSymbolNotional
    BY <2>2 DEF ReservationGranted, Fits, CommittedNotional, CommittedNotionalOf, CommittedCount
  <2>6. /\ PendingNotional' = PendingNotional + notional
        /\ PendingCount' = PendingCount + 1
        /\ PendingNotionalOf(symbol)' = PendingNotionalOf(symbol) + notional
    BY <1>1, <2>2, SumsAfterGrant
  <2>7. CommittedNotional' <= maxPositionNotional /\ CommittedCount' <= maxOpenPositions
    BY <2>3, <2>4, <2>5, <2>6 DEF CommittedNotional, CommittedCount
  <2>8. CommittedNotionalOf(symbol)' <= maxSymbolNotional
    BY <2>3, <2>4, <2>5, <2>6 DEF CommittedNotionalOf
  <2>9. ASSUME NEW id \in DOMAIN m_pendingReservations' \ DOMAIN m_pendingReservations
        PROVE  m_pendingReservations'[id].symbol = symbol
    <3> DEFINE entry == [symbol |-> symbol, notional |-> notional]
    <3>1. m_pendingReservations' = Insert(m_pendingReservations, m_nextReservationId, entry)
      BY <2>2 DEF ReservationGranted
    <3>2. entry.symbol = symbol
      OBVIOUS
    <3> HIDE DEF entry
    <3>3. DOMAIN m_pendingReservations' = DOMAIN m_pendingReservations \cup {m_nextReservationId}
      BY <3>1, InsertDomain
    <3>4. m_pendingReservations'[m_nextReservationId] = entry
      BY <3>1, InsertKey
    <3> QED
      BY <3>2, <3>3, <3>4
  <2> QED
    BY <2>7, <2>8, <2>9
<1> QED
  BY <1>1, LedgerTypeCorrect, PTL DEF LedgerSpec, GrantsRespectCommitments

\* The ledger never holds more positions than maxOpenPositions: openPosition
\* checks the count and inserts under one lock.
THEOREM PositionCountIsBounded == LedgerSpec => []PositionCountWithinLimit
<1>1. LedgerInit => PositionCountWithinLimit
  BY EmptyMapDomain, FS_EmptySet, LedgerAssumption DEF LedgerInit, PositionCountWithinLimit, PositionCount
<1>2. LedgerTypeOK /\ PositionCountWithinLimit /\ [LedgerNext]_ledger => PositionCountWithinLimit'
  <2> SUFFICES ASSUME LedgerTypeOK, PositionCountWithinLimit, [LedgerNext]_ledger
               PROVE  PositionCountWithinLimit'
    OBVIOUS
  <2> USE LedgerAssumption
  <2>1. IsFiniteSet(DOMAIN m_positions) /\ PositionCount \in Nat
    BY MapsAreFinite
  <2>2. ASSUME DOMAIN m_positions' \subseteq DOMAIN m_positions
        PROVE  PositionCountWithinLimit'
    <3>1. PositionCount' \in Nat /\ PositionCount' <= PositionCount
      BY <2>1, <2>2, FS_Subset, FS_CardinalityType DEF PositionCount
    <3> QED
      BY <2>1, <3>1 DEF PositionCountWithinLimit
  <2>3. ASSUME UNCHANGED m_positions
        PROVE  PositionCountWithinLimit'
    BY <2>2, <2>3
  <2>4. ASSUME NEW symbol, NEW qty, NEW price, openPosition(symbol, qty, price)
        PROVE  PositionCountWithinLimit'
    <3> DEFINE entry == [symbol |-> symbol, quantity |-> qty, notional |-> qty * price]
    <3>1. PositionCount < maxOpenPositions
      BY <2>1, <2>4 DEF openPosition, OpenRefused
    <3>2. m_positions' = Insert(m_positions, m_nextPositionId', entry)
      BY <2>4 DEF openPosition
    <3> HIDE DEF entry
    <3>3. DOMAIN m_positions' = DOMAIN m_positions \cup {m_nextPositionId'}
      BY <3>2, InsertDomain
    <3>4. PositionCount' \in Nat /\ PositionCount' <= PositionCount + 1
      BY <2>1, <3>3, FS_AddElement DEF PositionCount
    <3> QED
      BY <2>1, <3>1, <3>4 DEF PositionCountWithinLimit
  <2>5. ASSUME NEW id, NEW qty, NEW price, closePosition(id, qty, price)
        PROVE  PositionCountWithinLimit'
    <3>1. DOMAIN m_positions' \subseteq DOMAIN m_positions
      BY <2>5, EraseDomain DEF closePosition
    <3> QED
      BY <2>2, <3>1
  <2>6. ASSUME NEW id, NEW price, updatePrice(id, price)
        PROVE  PositionCountWithinLimit'
    <3>1. DOMAIN m_positions' \subseteq DOMAIN m_positions
      BY <2>6 DEF updatePrice
    <3> QED
      BY <2>2, <3>1
  <2>7. ASSUME NEW symbol, NEW qty, NEW price, reserveNotional(symbol, qty, price)
        PROVE  PositionCountWithinLimit'
    BY <2>3, <2>7 DEF reserveNotional
  <2>8. ASSUME NEW id, consumeReservation(id) \/ cancelReservation(id)
        PROVE  PositionCountWithinLimit'
    BY <2>3, <2>8 DEF consumeReservation, cancelReservation
  <2>9. CASE UNCHANGED ledger
    BY <2>3, <2>9 DEF ledger
  <2> QED
    BY <2>4, <2>5, <2>6, <2>7, <2>8, <2>9 DEF LedgerNext
<1> QED
  BY <1>1, <1>2, LedgerTypeCorrect, PTL DEF LedgerSpec

\* An order is cut or rejected only when one lot more would not fit: the quantity
\* reserveNotional grants is the largest the limits allow.
THEOREM GrantsAreAlwaysMaximal == LedgerSpec => []GrantsAreMaximal
<1>1. LedgerTypeOK => GrantsAreMaximal
  <2> SUFFICES ASSUME LedgerTypeOK, NEW symbol \in Symbols, NEW qty \in Quantities, NEW price \in Prices,
                      GrantedQuantity(symbol, qty, price) < qty,
                      CommittedCount < maxOpenPositions
               PROVE  ~ Fits(symbol, (GrantedQuantity(symbol, qty, price) + 1) * price)
    <3>1. LedgerTypeOK => CommittedCount \in Nat
      BY MapsAreFinite DEF CommittedCount
    <3> QED
      BY <3>1, LedgerAssumption DEF GrantsAreMaximal
  <2> DEFINE granted == GrantedQuantity(symbol, qty, price)
             budget == Budget(symbol)
  <2> USE LedgerAssumption
  <2>1. /\ CommittedNotional \in Nat /\ CommittedNotionalOf(symbol) \in Nat
        /\ CommittedCount \in Nat /\ qty \in Nat /\ price \in Nat
    BY SumsAreNumbers, MapsAreFinite DEF CommittedNotional, CommittedNotionalOf, CommittedCount
  <2>2. /\ budget \in Int
        /\ \/ budget = maxPositionNotional - CommittedNotional
           \/ budget = maxSymbolNotional - CommittedNotionalOf(symbol)
    BY <2>1 DEF Budget
  <2>3. ASSUME NEW notional \in Nat, Fits(symbol, notional)
        PROVE  notional <= budget
    <3> HIDE DEF budget
    <3> QED
      BY <2>1, <2>2, <2>3 DEF Fits
  <2>4. ~ Fits(symbol, qty * price)
    BY <2>1 DEF GrantedQuantity
  <2>5. CASE price > 0 /\ budget > 0 /\ budget \div price < qty
    <3>1. granted = budget \div price
      BY <2>1, <2>4, <2>5 DEF GrantedQuantity
    <3> HIDE DEF granted, budget
    <3>2. granted \in Nat /\ (granted + 1) * price > budget
      BY <2>1, <2>2, <2>5, <3>1, Quotient
    <3>3. (granted + 1) * price \in Nat
      BY <2>1, <3>2
    <3> QED
      BY <2>2, <2>3, <3>2, <3>3 DEF granted
  <2>6. CASE price = 0
    <3>1. qty * price = 0 /\ (granted + 1) * price = 0
      BY <2>1, <2>6, GrantFits
    <3> QED
      BY <2>4, <3>1
  <2>7. CASE price > 0 /\ budget <= 0
    <3>1. granted = 0
      BY <2>1, <2>2, <2>4, <2>7 DEF GrantedQuantity
    <3>2. (granted + 1) * price = price
      BY <2>1, <3>1
    <3> QED
      BY <2>1, <2>2, <2>3, <2>7, <3>2
  <2>8. CASE price > 0 /\ budget > 0 /\ budget \div price >= qty
    <3>1. /\ budget <= maxPositionNotional - CommittedNotional
          /\ budget <= maxSymbolNotional - CommittedNotionalOf(symbol)
      BY <2>1 DEF Budget
    <3> HIDE DEF budget
    <3>2. qty * price <= budget /\ qty * price \in Nat
      BY <2>1, <2>2, <2>8, QuotientIsLargest
    <3>3. Fits(symbol, qty * price)
      BY <2>1, <2>2, <3>1, <3>2 DEF Fits
    <3> QED
      BY <2>4, <3>3
  <2> QED
    BY <2>1, <2>2, <2>5, <2>6, <2>7, <2>8
<1> QED
  BY <1>1, LedgerTypeCorrect, PTL

=============================================================================
