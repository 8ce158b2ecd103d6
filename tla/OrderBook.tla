------------------------------ MODULE OrderBook ------------------------------
(***************************************************************************)
(* The order books kept per symbol (src/market/OrderBookManager).  A book  *)
(* maps price levels, each of one side, to the quantity offered there; a   *)
(* frame of the exchange replaces it or changes some of its levels.        *)
(*                                                                         *)
(* A frame is a record: its symbol, its event ("all" or "update"), the     *)
(* number lastUpdateId, whether it has all the fields the code asks for,   *)
(* and its levels, a function from the levels it names to quantities.      *)
(***************************************************************************)
EXTENDS Integers, FiniteSets

CONSTANTS
  BookSymbols,
  Levels,          \* the price levels, of both sides
  BookQuantities   \* the quantities at a level; 0 is none

ASSUME BookAssumption == 0 \in BookQuantities /\ BookQuantities \subseteq Nat

VARIABLE m_books  \* symbol -> its book, or NoBook

NoBook == [sequence_id |-> 0, levels |-> << >>]

contains(symbol) == m_books[symbol] # NoBook

BooksInit == m_books = [s \in BookSymbols |-> NoBook]

\* The entries of a book with some quantity; an empty level is no entry.
Entries(f) ==
  LET filled == {p \in DOMAIN f : f[p] > 0}
  IN  [p \in filled |-> f[p]]

\* Fault: a level that became empty stays in the book.
ChangedLevels_KeepsEmpty(levels, changes) ==
  LET named == {p \in DOMAIN changes : changes[p] > 0}
  IN  [p \in DOMAIN levels \cup named |-> IF p \in named THEN changes[p] ELSE levels[p]]

\* The levels of a book after a delta: quantity 0 removes a level.
ChangedLevels(levels, changes) ==
  Entries([p \in DOMAIN levels \cup DOMAIN changes |->
             IF p \in DOMAIN changes THEN changes[p] ELSE levels[p]])

\* A frame without all of its fields is ignored.
applySnapshot(frame) ==
  m_books' = IF ~ frame.complete THEN m_books
             ELSE [m_books EXCEPT ![frame.symbol] =
                     [sequence_id |-> frame.lastUpdateId, levels |-> Entries(frame.levels)]]

\* A delta the book is past already.
Stale(frame) ==
  LET last == m_books[frame.symbol].sequence_id
  IN  frame.lastUpdateId <= last /\ last # 0

\* A delta is applied whatever was between it and the last one: the numbers are
\* shared by all symbols, and a gap is normal.
applyDelta(frame) ==
  m_books' =
    IF ~ frame.complete \/ ~ contains(frame.symbol) \/ Stale(frame) THEN m_books
    ELSE [m_books EXCEPT ![frame.symbol] =
            [sequence_id |-> frame.lastUpdateId,
             levels |-> ChangedLevels(@.levels, frame.levels)]]
=============================================================================
