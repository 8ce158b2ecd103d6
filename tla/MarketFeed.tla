------------------------------ MODULE MarketFeed ------------------------------
(***************************************************************************)
(* The market feed (src/market/MarketFeed) between a connection of the     *)
(* WebSocket client and the order books.  The main thread starts and stops *)
(* it; the I/O thread hands it the frames in the order they arrive.  The   *)
(* tickers, the candles and the metadata of the symbols are left out.      *)
(*                                                                         *)
(* The exchange is external: every change of one of its books gets the     *)
(* next number of one counter and is streamed to the connection when the   *)
(* symbol is subscribed.  A connection that drops takes its frames along,  *)
(* and the next one has the subscriptions the channel registry kept.       *)
(***************************************************************************)
EXTENDS OrderBook, Sequences, SequencesExt

CONSTANTS
  symbols,     \* the symbols of start, a sequence
  MayLackFields, \* whether frames may lack fields the code asks for
  MaxUpdates,  \* bound of a run: the numbers the exchange gives
  MaxWire,     \* bound of a run: frames on the way
  MaxDrops     \* bound of a run: connections that drop

ASSUME FeedAssumption == BookSymbols = Range(symbols) /\ symbols # << >>

VARIABLES
  feed,            \* "created", "started" or "stopped"
  channel,         \* the symbols of the payload kept for the order book channel
  pending,         \* symbols whose subscription waits for a connection
  connected,
  subscribed,      \* symbols whose books are streamed to this connection
  wire,            \* frames on the way, oldest first
  drops,           \* how often the connection dropped
  books,           \* the books of the exchange, one for every number
  missed           \* symbols of which a change never arrived since their book
                   \* was last replaced

registry == <<channel, pending>>
connection == <<connected, subscribed, wire, drops>>
feedVars == <<m_books, feed, registry, connection, books, missed>>

EmptyBook == [p \in Levels |-> 0]

FeedInit ==
  /\ BooksInit
  /\ feed = "created"
  /\ channel = {}
  /\ pending = {}
  /\ connected = FALSE
  /\ subscribed = {}
  /\ wire = << >>
  /\ drops = 0
  /\ books = <<[s \in BookSymbols |-> EmptyBook]>>
  /\ missed = {}

-----------------------------------------------------------------------------
(* The exchange and the connection                                         *)

Update(symbol, n, complete, levels) ==
  [symbol |-> symbol, event |-> "update", lastUpdateId |-> n,
   complete |-> complete, levels |-> levels]

Snapshot(symbol) ==
  [symbol |-> symbol, event |-> "all", lastUpdateId |-> Len(books),
   complete |-> TRUE, levels |-> Last(books)[symbol]]

\* The symbols of a set that have a book, which a lost change makes incomplete.
WithBook(S) == {s \in S : contains(s)}

\* A level changes, and subscribers of the symbol are told; a frame may lack fields.
\* What changes before start or after stop reaches no handler and is left out.
exchangeChanges(symbol, p, q, complete) ==
  /\ feed = "started" /\ Len(books) < MaxUpdates
  /\ complete \/ MayLackFields
  /\ Last(books)[symbol][p] # q
  /\ books' = Append(books, [Last(books) EXCEPT ![symbol][p] = q])
  /\ IF symbol \in subscribed
     THEN /\ Len(wire) < MaxWire
          /\ wire' = Append(wire, Update(symbol, Len(books'), complete, [l \in {p} |-> q]))
          /\ missed' = missed
     ELSE /\ missed' = missed \cup WithBook({symbol})
          /\ wire' = wire
          /\ complete
  /\ UNCHANGED <<m_books, feed, registry, connected, subscribed, drops>>

\* The exchange may send the whole book of a symbol it streams.
exchangeSnapshot(symbol) ==
  /\ feed = "started" /\ symbol \in subscribed /\ Len(wire) < MaxWire
  /\ wire' = Append(wire, Snapshot(symbol))
  /\ UNCHANGED <<m_books, feed, registry, connected, subscribed,
                 drops, books, missed>>

\* A change may be sent twice: the first connection subscribes a symbol twice.
exchangeRepeats ==
  /\ feed = "started" /\ Len(wire) < MaxWire
  /\ \E i \in DOMAIN wire :
       /\ wire[i].event = "update"
       /\ wire' = Append(wire, wire[i])
  /\ UNCHANGED <<m_books, feed, registry, connected, subscribed,
                 drops, books, missed>>

\* A new connection subscribes the channels of the registry, and then what waited.
open ==
  /\ ~ connected
  /\ connected' = TRUE
  /\ subscribed' = channel \cup pending
  /\ pending' = {}
  /\ UNCHANGED <<m_books, feed, channel, wire, drops, books, missed>>

drop ==
  /\ connected /\ drops < MaxDrops
  /\ connected' = FALSE
  /\ subscribed' = {}
  /\ wire' = << >>
  /\ drops' = drops + 1
  /\ missed' = missed \cup WithBook({wire[i].symbol : i \in DOMAIN wire})
  /\ UNCHANGED <<m_books, feed, registry, books>>

-----------------------------------------------------------------------------
(* The feed                                                                *)

\* The symbols start subscribes the order book channel for, one after the other.
Subscriptions == Range(symbols)

\* start: the registry of channels keeps one payload a channel, the last one.
start ==
  /\ feed = "created"
  /\ feed' = "started"
  /\ channel' = {Last(symbols)}
  /\ IF connected THEN subscribed' = Subscriptions /\ pending' = pending
                  ELSE pending' = Subscriptions /\ subscribed' = subscribed
  /\ UNCHANGED <<m_books, connected, wire, drops, books, missed>>

\* stop removes the channels: frames that still arrive find no handler.  Their
\* payload is removed with them, so that the exchange is not told which symbol.
stop ==
  /\ feed = "started"
  /\ feed' = "stopped"
  /\ channel' = {}
  /\ UNCHANGED <<m_books, pending, connection, books, missed>>

\* The first frame of a symbol replaces its book, whatever its event.
IsSnapshot(frame) == frame.event = "all" \/ ~ contains(frame.symbol)

onOrderbookUpdate(frame) ==
  /\ IF IsSnapshot(frame) THEN applySnapshot(frame) ELSE applyDelta(frame)
  /\ missed' = IF frame.complete
               THEN IF IsSnapshot(frame) THEN missed \ {frame.symbol} ELSE missed
               ELSE missed \cup WithBook({frame.symbol})

deliverFrame ==
  /\ wire # << >>
  /\ wire' = Tail(wire)
  /\ LET frame == Head(wire)
     IN  IF feed = "started" THEN onOrderbookUpdate(frame) ELSE UNCHANGED <<m_books, missed>>
  /\ UNCHANGED <<feed, registry, connected, subscribed, drops, books>>

-----------------------------------------------------------------------------
FeedNext ==
  \/ \E s \in BookSymbols, p \in Levels, q \in BookQuantities, c \in BOOLEAN : exchangeChanges(s, p, q, c)
  \/ \E s \in BookSymbols : exchangeSnapshot(s)
  \/ exchangeRepeats
  \/ open \/ drop
  \/ start \/ stop \/ deliverFrame

FeedSpec == FeedInit /\ [][FeedNext]_feedVars

-----------------------------------------------------------------------------
(* Properties                                                              *)

\* The quantity the book of a symbol gives for a level.
Quantity(s, p) == IF p \in DOMAIN m_books[s].levels THEN m_books[s].levels[p] ELSE 0

\* What a book says of a level is what the exchange offered there at the number
\* of the book.
RightAt(s, p) == Quantity(s, p) = books[m_books[s].sequence_id][s][p]

\* Unless a change of a symbol was lost, every level in its book is the
\* exchange's of the moment of its number, though the book may have begun with a
\* change, frames come twice and the numbers have gaps.
BooksFollowTheExchange ==
  \A s \in BookSymbols : contains(s) /\ s \notin missed =>
    \A p \in DOMAIN m_books[s].levels : RightAt(s, p)

-----------------------------------------------------------------------------
(* Claims of the repository that the code breaks                           *)

\* "Validates sequence numbers and requests re-subscription on gaps": a book has
\* no level the exchange did not offer.
BooksAreRight ==
  \A s \in BookSymbols : contains(s) => \A p \in DOMAIN m_books[s].levels : RightAt(s, p)

\* A connection has the subscriptions the feed asked for.
ConnectionsAreFed == (feed = "started" /\ connected) => subscribed = BookSymbols
=============================================================================
