----------------------------- MODULE MarketProofs -----------------------------
(***************************************************************************)
(* The market data and the dashboard: books follow the exchange, snapshots *)
(* are consistent, browsers get the latest picture.                        *)
(*                                                                         *)
(* Books: the frames on the way of a connection cover what changed since   *)
(* the number of each book that lost nothing, in an order in which they    *)
(* can be applied.  Ring: a copy is valid while the sequence number is     *)
(* even and the one it began with; every store of a push ends that.        *)
(* Dashboard: a client that has not got the latest snapshot is about to,   *)
(* from a deferred call or from the timer, or its loop is on its way down. *)
(***************************************************************************)
EXTENDS MarketFeed, KlineBuffer, WebUi, Facts, SequenceTheorems

(* The feed and the books                                                  *)

\* The books of the exchange, and the types of frames and of kept books.
Books == [BookSymbols -> [Levels -> BookQuantities]]
SomeLevels == UNION {[D -> BookQuantities] : D \in SUBSET Levels}
Frames == [symbol : BookSymbols, event : {"all", "update"}, lastUpdateId : Nat, complete : BOOLEAN,
           levels : SomeLevels]
KeptBooks == [sequence_id : Nat, levels : SomeLevels]

\* The types of the feed's variables.
FeedTypeOK ==
  /\ books \in Seq(Books) /\ Len(books) >= 1
  /\ wire \in Seq(Frames)
  /\ m_books \in [BookSymbols -> KeptBooks \cup {NoBook}]
  /\ feed \in {"created", "started", "stopped"}

\* An update of a symbol.
IsUpdate(f, s) == f.event = "update" /\ f.symbol = s

\* A frame says what the exchange's book was at its number.
FrameIsTrue(bs, f) ==
  LET n == f.lastUpdateId
  IN  /\ n \in 1 .. Len(bs)
      /\ f.event = "all" => f.complete /\ f.levels = bs[n][f.symbol]
      /\ f.event = "update" =>
           /\ n > 1
           /\ \E p \in Levels, q \in BookQuantities :
                /\ bs[n][f.symbol] = [bs[n - 1][f.symbol] EXCEPT ![p] = q]
                /\ f.levels = [l \in {p} |-> q]

\* Every frame on the way is true and of a subscribed symbol; a whole book is no older than
\* the frames before it; without a connection nothing is on the way.
WireInv ==
  /\ \A i \in 1 .. Len(wire) : FrameIsTrue(books, wire[i]) /\ wire[i].symbol \in subscribed
  /\ \A i, k \in 1 .. Len(wire) :
       i < k /\ wire[k].event = "all" => wire[i].lastUpdateId <= wire[k].lastUpdateId
  /\ ~ connected => subscribed = {} /\ wire = << >>
  /\ feed = "created" => wire = << >> /\ \A s \in BookSymbols : ~ contains(s)

\* The j-th frame tells of a change of s after the number a, up to the number b.
Within(w, s, a, b, j) ==
  IsUpdate(w[j], s) /\ a < w[j].lastUpdateId /\ w[j].lastUpdateId <= b

\* Whatever changed in the book of s from the number m on is told by a frame on the way,
\* and before any frame that tells of a later change.
Covers(w, bs, s, m) ==
  \A a, b \in 1 .. Len(bs) : m <= a /\ a <= b /\ bs[a][s] # bs[b][s] =>
    /\ \E j \in 1 .. Len(w) : Within(w, s, a, b, j)
    /\ \A k \in 1 .. Len(w) : IsUpdate(w[k], s) /\ w[k].lastUpdateId > b =>
         \E j \in 1 .. k - 1 : Within(w, s, a, b, j)

\* What a frame that makes a book of its symbol needs: the changes after it follow.
Begins(f) == f.event = "all" \/ (f.complete /\ ~ contains(f.symbol))

\* The frames on the way cover a book that lost nothing from its number on, and what a frame
\* that can begin a book leaves; an update that would come before an older one follows its twin.
CoverInv ==
  /\ \A s \in BookSymbols : contains(s) /\ s \notin missed =>
       Covers(wire, books, s, m_books[s].sequence_id)
  /\ \A i \in 1 .. Len(wire) :
       Begins(wire[i]) => Covers(wire, books, wire[i].symbol, wire[i].lastUpdateId)
  /\ \A k \in 1 .. Len(wire), i \in 1 .. Len(wire) :
       /\ wire[k].event = "update" /\ wire[k].complete /\ ~ contains(wire[k].symbol)
       /\ i < k /\ IsUpdate(wire[i], wire[k].symbol)
       /\ wire[i].lastUpdateId > wire[k].lastUpdateId
       => \E j \in 1 .. i - 1 : wire[j] = wire[k]

\* The number of a book is one of the exchange's, and its levels are those of that number.
BookInv == \A s \in BookSymbols : contains(s) =>
   /\ m_books[s].sequence_id \in 1 .. Len(books)
   /\ s \notin missed => \A p \in DOMAIN m_books[s].levels : RightAt(s, p)

\* The inductive invariant of the feed.
FeedInv ==
  FeedTypeOK /\ WireInv /\ BookInv /\ (feed = "started" => CoverInv)

\* The positions of a sequence that became longer by one.
LEMMA OneMore ==
  ASSUME NEW l \in Nat, NEW i \in 1 .. l + 1
  PROVE  i \in 1 .. l \/ i = l + 1
  OBVIOUS

\* Frames that cover the changes from one number on cover those from a later one on.
LEMMA CoversLater ==
  ASSUME NEW w, NEW bs, NEW s, NEW m \in Nat, NEW n \in Nat, m <= n, Len(bs) \in Nat,
         Covers(w, bs, s, m)
  PROVE  Covers(w, bs, s, n)
<1> SUFFICES ASSUME NEW a \in 1 .. Len(bs), NEW b \in 1 .. Len(bs), n <= a, a <= b,
                    bs[a][s] # bs[b][s]
             PROVE  /\ \E j \in 1 .. Len(w) : Within(w, s, a, b, j)
                    /\ \A k \in 1 .. Len(w) : IsUpdate(w[k], s) /\ w[k].lastUpdateId > b =>
                         \E j \in 1 .. k - 1 : Within(w, s, a, b, j)
  BY DEF Covers
<1>1. m <= a OBVIOUS
<1> QED BY <1>1 DEF Covers

\* Nothing of a book changed since the last number.
LEMMA CoversNow ==
  ASSUME NEW w, NEW bs, NEW s, Len(bs) \in Nat
  PROVE  Covers(w, bs, s, Len(bs))
  BY DEF Covers

\* Frames that are gone were not needed.
LEMMA CoversTail ==
  ASSUME NEW w \in Seq(Frames), w # << >>, NEW bs, Len(bs) \in Nat, NEW s, NEW m \in Nat,
         Covers(w, bs, s, m), IsUpdate(w[1], s) => w[1].lastUpdateId <= m
  PROVE  Covers(Tail(w), bs, s, m)
<1> DEFINE t == Tail(w)
<1>1. Len(w) \in Nat /\ Len(w) >= 1 /\ Len(t) = Len(w) - 1 /\ \A i \in 1 .. Len(t) : t[i] = w[i + 1]
  BY HeadTailProperties
<1>2. \A i \in 1 .. Len(w) : w[i].lastUpdateId \in Nat
  <2>1. \A i \in 1 .. Len(w) : w[i] \in Frames BY ElementOfSeq
  <2> QED BY <2>1 DEF Frames
<1> HIDE DEF t
<1>3. SUFFICES ASSUME NEW a \in 1 .. Len(bs), NEW b \in 1 .. Len(bs), m <= a, a <= b,
                    bs[a][s] # bs[b][s]
             PROVE  /\ \E j \in 1 .. Len(t) : Within(t, s, a, b, j)
                    /\ \A k \in 1 .. Len(t) : IsUpdate(t[k], s) /\ t[k].lastUpdateId > b =>
                         \E j \in 1 .. k - 1 : Within(t, s, a, b, j)
  BY DEF Covers, t
<1>4. ~ Within(w, s, a, b, 1) BY <1>1, <1>2, <1>3 DEF Within
<1>5. ASSUME NEW j \in 1 .. Len(w), Within(w, s, a, b, j)
      PROVE  j - 1 \in 1 .. Len(t) /\ Within(t, s, a, b, j - 1)
  <2>1. j # 1 BY <1>4, <1>5
  <2>2. j - 1 \in 1 .. Len(t) /\ (j - 1) + 1 = j BY <1>1, <2>1
  <2>3. t[j - 1] = w[j] BY <1>1, <2>2
  <2> QED BY <1>5, <2>2, <2>3 DEF Within
<1>6. \E j \in 1 .. Len(t) : Within(t, s, a, b, j) BY <1>3, <1>5 DEF Covers
<1>7. ASSUME NEW k \in 1 .. Len(t), IsUpdate(t[k], s), t[k].lastUpdateId > b
      PROVE  \E j \in 1 .. k - 1 : Within(t, s, a, b, j)
  <2>1. k + 1 \in 1 .. Len(w) /\ t[k] = w[k + 1] BY <1>1
  <2>2. PICK j \in 1 .. (k + 1) - 1 : Within(w, s, a, b, j) BY <1>3, <1>7, <2>1 DEF Covers
  <2>3. j \in 1 .. Len(w) /\ j # 1 BY <1>1, <1>4, <2>2
  <2>4. j - 1 \in 1 .. k - 1 BY <2>3
  <2> QED BY <1>5, <2>2, <2>3, <2>4
<1> QED BY <1>6, <1>7

\* A frame sent again, or a book sent whole, comes last and takes nothing away.
LEMMA CoversAppend ==
  ASSUME NEW w \in Seq(Frames), NEW f \in Frames, NEW bs, Len(bs) \in Nat, NEW s, NEW m \in Nat,
         Covers(w, bs, s, m)
  PROVE  Covers(Append(w, f), bs, s, m)
<1> DEFINE v == Append(w, f)
<1>1. Len(w) \in Nat /\ Len(v) = Len(w) + 1 /\ \A i \in 1 .. Len(w) : v[i] = w[i]
  BY AppendProperties
<1> HIDE DEF v
<1>2. SUFFICES ASSUME NEW a \in 1 .. Len(bs), NEW b \in 1 .. Len(bs), m <= a, a <= b,
                    bs[a][s] # bs[b][s]
             PROVE  /\ \E j \in 1 .. Len(v) : Within(v, s, a, b, j)
                    /\ \A k \in 1 .. Len(v) : IsUpdate(v[k], s) /\ v[k].lastUpdateId > b =>
                         \E j \in 1 .. k - 1 : Within(v, s, a, b, j)
  BY DEF Covers, v
<1>3. \A j \in 1 .. Len(w) : Within(w, s, a, b, j) => Within(v, s, a, b, j) BY <1>1 DEF Within
<1>4. \E j \in 1 .. Len(w) : Within(v, s, a, b, j) BY <1>2, <1>3 DEF Covers
<1>5. ASSUME NEW k \in 1 .. Len(v), IsUpdate(v[k], s), v[k].lastUpdateId > b
      PROVE  \E j \in 1 .. k - 1 : Within(v, s, a, b, j)
  <2>1. CASE k \in 1 .. Len(w)
    <3>1. \E j \in 1 .. k - 1 : Within(w, s, a, b, j) BY <1>1, <1>2, <1>5, <2>1 DEF Covers
    <3> QED BY <1>1, <1>3, <2>1, <3>1
  <2>2. CASE k = Len(w) + 1 BY <1>1, <1>4, <2>2
  <2> QED BY <1>1, <2>1, <2>2
<1> QED BY <1>1, <1>4, <1>5

\* The exchange's next book: subscribers of the symbol that changed are told last.
LEMMA CoversChange ==
  ASSUME NEW w, NEW v, NEW bs, NEW nb, NEW t, NEW m \in Nat, NEW n \in Nat \ {0}, NEW l \in Nat,
         Len(bs) = n, Len(nb) = n + 1, \A i \in 1 .. n : nb[i] = bs[i],
         Len(w) = l, Len(v) \in {l, l + 1}, \A i \in 1 .. l : v[i] = w[i],
         \A i \in 1 .. l : w[i].lastUpdateId \in 1 .. n,
         Len(v) = l + 1 => v[l + 1].lastUpdateId = n + 1,
         nb[n + 1][t] # nb[n][t] => Len(v) = l + 1 /\ IsUpdate(v[l + 1], t),
         Covers(w, bs, t, m)
  PROVE  Covers(v, nb, t, m)
<1>1. SUFFICES ASSUME NEW a \in 1 .. n + 1, NEW b \in 1 .. n + 1, m <= a, a <= b,
                      nb[a][t] # nb[b][t]
               PROVE  /\ \E j \in 1 .. Len(v) : Within(v, t, a, b, j)
                      /\ \A k \in 1 .. Len(v) : IsUpdate(v[k], t) /\ v[k].lastUpdateId > b =>
                           \E j \in 1 .. k - 1 : Within(v, t, a, b, j)
  BY DEF Covers
<1>2. a \in 1 .. n /\ nb[a] = bs[a] BY <1>1
<1>3. CASE b \in 1 .. n
  <2>1. nb[b] = bs[b] BY <1>3
  <2>2. /\ \E j \in 1 .. l : Within(w, t, a, b, j)
        /\ \A k \in 1 .. l : IsUpdate(w[k], t) /\ w[k].lastUpdateId > b =>
             \E j \in 1 .. k - 1 : Within(w, t, a, b, j)
    BY <1>1, <1>2, <1>3, <2>1 DEF Covers
  <2>3. \A j \in 1 .. l : Within(w, t, a, b, j) => Within(v, t, a, b, j) BY DEF Within
  <2>4. \E j \in 1 .. l : Within(v, t, a, b, j) BY <2>2, <2>3
  <2>5. ASSUME NEW k \in 1 .. Len(v), IsUpdate(v[k], t), v[k].lastUpdateId > b
        PROVE  \E j \in 1 .. k - 1 : Within(v, t, a, b, j)
    <3>1. CASE k \in 1 .. l
      <4>1. v[k] = w[k] BY <3>1
      <4>2. \E j \in 1 .. k - 1 : Within(w, t, a, b, j) BY <2>2, <2>5, <3>1, <4>1
      <4>3. PICK j \in 1 .. k - 1 : Within(w, t, a, b, j) BY <4>2
      <4>4. j \in 1 .. l BY <3>1
      <4> QED BY <2>3, <4>3, <4>4
    <3>2. CASE k = l + 1
      <4>1. k - 1 = l BY <3>2
      <4> QED BY <2>4, <4>1
    <3> QED BY <3>1, <3>2
  <2> QED BY <2>4, <2>5
<1>4. CASE b = n + 1
  <2>1. \A k \in 1 .. Len(v) : v[k].lastUpdateId \in 1 .. n + 1
    <3> TAKE k \in 1 .. Len(v)
    <3>1. CASE k \in 1 .. l BY <3>1
    <3>2. CASE k = l + 1 BY <3>2
    <3> QED BY <3>1, <3>2
  <2>2. CASE bs[a][t] # bs[n][t]
    <3>1. PICK j \in 1 .. l : Within(w, t, a, n, j) BY <1>1, <1>2, <2>2 DEF Covers
    <3>2. Within(v, t, a, b, j) BY <1>4, <3>1 DEF Within
    <3> QED BY <1>4, <2>1, <3>2
  <2>3. CASE bs[a][t] = bs[n][t]
    <3>1. nb[n + 1][t] # nb[n][t] BY <1>1, <1>2, <1>4, <2>3
    <3>2. Within(v, t, a, b, l + 1) BY <1>2, <1>4, <3>1 DEF Within
    <3> QED BY <1>4, <2>1, <3>1, <3>2
  <2> QED BY <2>2, <2>3
<1> QED BY <1>3, <1>4

-----------------------------------------------------------------------------

\* Before start nothing is known and nothing is on the way.
LEMMA InitFeed == FeedInit => FeedInv
<1> SUFFICES ASSUME FeedInit PROVE FeedInv OBVIOUS
<1>1. books = <<[s \in BookSymbols |-> EmptyBook]>> /\ [s \in BookSymbols |-> EmptyBook] \in Books
  BY BookAssumption DEF FeedInit, EmptyBook, Books
<1>2. books \in Seq(Books) /\ Len(books) = 1 BY <1>1
<1>3. wire = << >> /\ wire \in Seq(Frames) /\ Len(wire) = 0 BY DEF FeedInit
<1>4. \A s \in BookSymbols : ~ contains(s) BY DEF FeedInit, BooksInit, contains
<1>5. FeedTypeOK BY <1>2, <1>3 DEF FeedTypeOK, FeedInit, BooksInit
<1>6. WireInv BY <1>3, <1>4 DEF WireInv, FeedInit
<1> QED BY <1>4, <1>5, <1>6 DEF FeedInv, BookInv, FeedInit

\* The facts of the sequences that every step needs.
LEMMA Lengths ==
  ASSUME FeedInv
  PROVE  /\ books \in Seq(Books) /\ Len(books) \in Nat \ {0}
         /\ \A n \in 1 .. Len(books) : books[n] \in Books
         /\ wire \in Seq(Frames) /\ Len(wire) \in Nat
         /\ \A i \in 1 .. Len(wire) : /\ wire[i] \in Frames
                                      /\ wire[i].lastUpdateId \in 1 .. Len(books)
                                      /\ wire[i].event \in {"all", "update"}
                                      /\ wire[i].symbol \in BookSymbols
<1>1. books \in Seq(Books) /\ Len(books) >= 1 /\ wire \in Seq(Frames)
  BY DEF FeedInv, FeedTypeOK
<1>2. /\ \A n \in 1 .. Len(books) : books[n] \in Books
      /\ \A i \in 1 .. Len(wire) : wire[i] \in Frames
  BY <1>1, ElementOfSeq
<1>3. \A i \in 1 .. Len(wire) : wire[i].lastUpdateId \in 1 .. Len(books)
  BY DEF FeedInv, WireInv, FrameIsTrue
<1>4. \A i \in 1 .. Len(wire) : wire[i].event \in {"all", "update"} /\ wire[i].symbol \in BookSymbols
  BY <1>2 DEF Frames
<1> QED BY <1>1, <1>2, <1>3, <1>4, LenProperties

\* A frame that tells nothing new comes last.
LEMMA FrameAdded ==
  ASSUME FeedInv, feed = "started", NEW f \in Frames, FrameIsTrue(books, f),
         f.symbol \in subscribed, wire' = Append(wire, f),
         UNCHANGED <<m_books, feed, connected, subscribed, books, missed>>,
         f.event = "all" => f.lastUpdateId = Len(books),
         Begins(f) => Covers(wire, books, f.symbol, f.lastUpdateId),
         f.event = "update" => \E i \in 1 .. Len(wire) : wire[i] = f
  PROVE  FeedInv'
<1> DEFINE l == Len(wire)
<1>1. /\ wire' \in Seq(Frames) /\ Len(wire') = l + 1 /\ wire'[l + 1] = f
      /\ \A i \in 1 .. l : wire'[i] = wire[i]
  BY Lengths, AppendProperties
<1>2. l \in Nat /\ Len(books) \in Nat
      /\ \A i \in 1 .. l : wire[i].lastUpdateId \in 1 .. Len(books)
  BY Lengths
<1> HIDE DEF l
<1>3. \A s : contains(s)' = contains(s) BY DEF contains
<1>4. FeedTypeOK' BY <1>1 DEF FeedInv, FeedTypeOK
<1>5. BookInv' BY <1>3 DEF FeedInv, BookInv, RightAt, Quantity
<1>6. WireInv'
  <2>1. ASSUME NEW i \in 1 .. l + 1
        PROVE  FrameIsTrue(books, wire'[i]) /\ wire'[i].symbol \in subscribed
    BY <1>1, <1>2 DEF FeedInv, WireInv, l
  <2>2. ASSUME NEW i \in 1 .. l + 1, NEW k \in 1 .. l + 1, i < k, wire'[k].event = "all"
        PROVE  wire'[i].lastUpdateId <= wire'[k].lastUpdateId
    <3>1. i \in 1 .. l /\ wire'[i] = wire[i] BY <1>1, <1>2, <2>2
    <3>2. CASE k \in 1 .. l BY <1>1, <2>2, <3>1, <3>2 DEF FeedInv, WireInv, l
    <3>3. CASE k = l + 1 BY <1>1, <1>2, <2>2, <3>1, <3>3
    <3> QED BY <1>2, <3>2, <3>3, OneMore
  <2>3. connected /\ feed # "created" BY DEF FeedInv, WireInv
  <2>4. \A g : FrameIsTrue(books, g)' = FrameIsTrue(books, g) BY DEF FrameIsTrue
  <2>5. Len(wire') = l + 1 BY <1>1
  <2> QED BY <2>1, <2>2, <2>3, <2>4, <2>5 DEF WireInv
<1>7. CoverInv'
  <2> \A g : Begins(g)' = Begins(g) BY <1>3 DEF Begins
  <2>1. ASSUME NEW s, NEW m \in Nat, Covers(wire, books, s, m)
        PROVE  Covers(wire', books, s, m)
    BY <2>1, Lengths, CoversAppend
  <2>2. ASSUME NEW s \in BookSymbols, contains(s), s \notin missed
        PROVE  Covers(wire', books, s, m_books[s].sequence_id)
    <3>1. m_books[s].sequence_id \in Nat /\ Covers(wire, books, s, m_books[s].sequence_id)
      BY <2>2, <1>2 DEF FeedInv, BookInv, CoverInv
    <3> QED BY <2>1, <3>1
  <2>3. ASSUME NEW i \in 1 .. l + 1, Begins(wire'[i])
        PROVE  Covers(wire', books, wire'[i].symbol, wire'[i].lastUpdateId)
    <3>1. CASE i \in 1 .. l
      <4>1. wire'[i] = wire[i] /\ wire[i].lastUpdateId \in Nat BY <1>1, <1>2, <3>1
      <4>2. Covers(wire, books, wire[i].symbol, wire[i].lastUpdateId)
        BY <2>3, <3>1, <4>1 DEF FeedInv, CoverInv, l
      <4> QED BY <2>1, <4>1, <4>2
    <3>2. CASE i = l + 1
      <4>1. f.lastUpdateId \in Nat BY DEF Frames
      <4> QED BY <1>1, <2>1, <2>3, <3>2, <4>1
    <3> QED BY <1>2, <3>1, <3>2, OneMore
  <2>4. ASSUME NEW k \in 1 .. l + 1, NEW i \in 1 .. l + 1,
               wire'[k].event = "update", wire'[k].complete, ~ contains(wire'[k].symbol),
               i < k, IsUpdate(wire'[i], wire'[k].symbol),
               wire'[i].lastUpdateId > wire'[k].lastUpdateId
        PROVE  \E j \in 1 .. i - 1 : wire'[j] = wire'[k]
    <3>1. i \in 1 .. l /\ wire'[i] = wire[i] BY <1>1, <1>2, <2>4
    <3>2. PICK o \in 1 .. l : wire[o] = wire'[k]
      BY <1>1, <1>2, <2>4 DEF l
    <3>3. CASE i < o
      <4>0. /\ wire[o].event = "update" /\ wire[o].complete /\ ~ contains(wire[o].symbol)
            /\ IsUpdate(wire[i], wire[o].symbol) /\ wire[i].lastUpdateId > wire[o].lastUpdateId
        BY <2>4, <3>1, <3>2
      <4>1. PICK j \in 1 .. i - 1 : wire[j] = wire[o]
        BY <3>1, <3>3, <4>0 DEF FeedInv, CoverInv, l
      <4>2. j \in 1 .. l /\ wire'[j] = wire[j] BY <1>1, <1>2, <3>1, <4>1
      <4> QED BY <3>2, <4>1, <4>2
    <3>4. CASE i = o
      <4>1. wire'[i] = wire'[k] BY <3>1, <3>2, <3>4
      <4>2. wire[o].lastUpdateId \in Nat BY <1>2
      <4>3. ~ (wire[o].lastUpdateId > wire[o].lastUpdateId) BY <4>2
      <4> QED BY <2>4, <3>2, <4>1, <4>3
    <3>5. CASE o < i
      <4>1. o \in 1 .. i - 1 /\ wire'[o] = wire[o] BY <1>1, <1>2, <3>2, <3>5
      <4> QED BY <3>2, <4>1
    <3>6. i < o \/ i = o \/ o < i BY <1>2
    <3> QED BY <3>3, <3>4, <3>5, <3>6
  <2> QED BY <1>1, <1>3, <2>2, <2>3, <2>4 DEF CoverInv
<1> QED BY <1>4, <1>5, <1>6, <1>7 DEF FeedInv

\* A whole book comes after every change it contains.
LEMMA exchangeSnapshotKeeps ==
  ASSUME FeedInv, NEW symbol \in BookSymbols, exchangeSnapshot(symbol)
  PROVE  FeedInv'
<1> DEFINE f == Snapshot(symbol)
<1>1. /\ f.symbol = symbol /\ f.event = "all" /\ f.complete /\ f.lastUpdateId = Len(books)
      /\ f.levels = books[Len(books)][symbol]
  BY DEF Snapshot, Last
<1>2. f \in Frames
  <2>1. books[Len(books)][symbol] \in [Levels -> BookQuantities] BY Lengths DEF Books
  <2>2. books[Len(books)][symbol] \in SomeLevels BY <2>1 DEF SomeLevels
  <2> QED BY <2>2, Lengths DEF Snapshot, Last, Frames
<1>3. FrameIsTrue(books, f) BY <1>1, Lengths DEF FrameIsTrue
<1>4. Covers(wire, books, f.symbol, f.lastUpdateId) BY <1>1, Lengths, CoversNow
<1> HIDE DEF f
<1> QED BY <1>1, <1>2, <1>3, <1>4, FrameAdded DEF exchangeSnapshot, f

\* A repeated change follows the change.
LEMMA exchangeRepeatsKeeps ==
  ASSUME FeedInv, exchangeRepeats
  PROVE  FeedInv'
<1>1. PICK i \in 1 .. Len(wire) : wire[i].event = "update" /\ wire' = Append(wire, wire[i])
  BY Lengths DEF exchangeRepeats
<1>2. /\ wire[i] \in Frames /\ FrameIsTrue(books, wire[i]) /\ wire[i].symbol \in subscribed
      /\ Begins(wire[i]) => Covers(wire, books, wire[i].symbol, wire[i].lastUpdateId)
  BY Lengths DEF FeedInv, WireInv, CoverInv, exchangeRepeats
<1> QED BY <1>1, <1>2, FrameAdded DEF exchangeRepeats

\* What a change appends to the exchange's books, and to the wire of a subscriber.
Appended(symbol, p, q, complete, n, l) ==
  /\ n = Len(books) /\ n \in Nat \ {0} /\ l = Len(wire) /\ l \in Nat
  /\ books' \in Seq(Books) /\ Len(books') = n + 1 /\ books[n] \in Books
  /\ \A i \in 1 .. n : books'[i] = books[i]
  /\ books'[n + 1] = [books[n] EXCEPT ![symbol][p] = q]
  /\ wire' \in Seq(Frames)
  /\ Len(wire') = IF symbol \in subscribed THEN l + 1 ELSE l
  /\ \A i \in 1 .. l : wire'[i] = wire[i]
  /\ symbol \in subscribed => wire'[l + 1] = Update(symbol, n + 1, complete, [x \in {p} |-> q])

\* A change appends one book, and one frame when its symbol is subscribed.
LEMMA ChangeAppends ==
  ASSUME FeedInv, NEW symbol \in BookSymbols, NEW p \in Levels, NEW q \in BookQuantities,
         NEW complete \in BOOLEAN, exchangeChanges(symbol, p, q, complete)
  PROVE  Appended(symbol, p, q, complete, Len(books), Len(wire))
<1>1. [books[Len(books)] EXCEPT ![symbol][p] = q] \in Books
  BY Lengths DEF Books
<1>2. books' = Append(books, [books[Len(books)] EXCEPT ![symbol][p] = q])
  BY DEF exchangeChanges, Last
<1>3. /\ books' \in Seq(Books) /\ Len(books') = Len(books) + 1
      /\ \A n \in 1 .. Len(books) : books'[n] = books[n]
      /\ books'[Len(books) + 1] = [books[Len(books)] EXCEPT ![symbol][p] = q]
  BY <1>1, <1>2, Lengths, AppendProperties
<1>4. ASSUME symbol \in subscribed
      PROVE  /\ wire' \in Seq(Frames) /\ Len(wire') = Len(wire) + 1
             /\ \A i \in 1 .. Len(wire) : wire'[i] = wire[i]
             /\ wire'[Len(wire) + 1]
                  = Update(symbol, Len(books) + 1, complete, [l \in {p} |-> q])
  <2> DEFINE f == Update(symbol, Len(books) + 1, complete, [l \in {p} |-> q])
  <2>1. [l \in {p} |-> q] \in SomeLevels
    <3>1. [l \in {p} |-> q] \in [{p} -> BookQuantities] /\ {p} \in SUBSET Levels OBVIOUS
    <3> QED BY <3>1 DEF SomeLevels
  <2>2. f \in Frames BY <2>1, Lengths DEF Frames, Update
  <2>3. wire' = Append(wire, f) BY <1>3, <1>4 DEF exchangeChanges
  <2> HIDE DEF f
  <2> QED BY <2>2, <2>3, Lengths, AppendProperties DEF f
<1>5. symbol \notin subscribed => wire' = wire BY DEF exchangeChanges
<1>6. /\ Len(wire') = IF symbol \in subscribed THEN Len(wire) + 1 ELSE Len(wire)
      /\ \A i \in 1 .. Len(wire) : wire'[i] = wire[i]
      /\ wire' \in Seq(Frames)
  BY <1>4, <1>5, Lengths
<1>7. /\ Len(books) \in Nat \ {0} /\ Len(wire) \in Nat /\ books[Len(books)] \in Books
  BY Lengths
<1> QED BY <1>3, <1>4, <1>6, <1>7 DEF Appended

\* A change leaves covered what was, unless it is one of a symbol that is not subscribed.
LEMMA ChangeCovers ==
  ASSUME FeedInv, NEW symbol \in BookSymbols, NEW p \in Levels, NEW q \in BookQuantities,
         NEW complete \in BOOLEAN, exchangeChanges(symbol, p, q, complete),
         NEW t \in BookSymbols, NEW m \in Nat, Covers(wire, books, t, m),
         t = symbol => symbol \in subscribed
  PROVE  Covers(wire', books', t, m)
<1> DEFINE n == Len(books)  l == Len(wire)
<1>0. Appended(symbol, p, q, complete, n, l) BY ChangeAppends
<1>1. /\ n \in Nat \ {0} /\ l \in Nat
      /\ Len(books') = n + 1 /\ \A i \in 1 .. n : books'[i] = books[i]
      /\ \A i \in 1 .. l : wire[i].lastUpdateId \in 1 .. n
  BY <1>0, Lengths DEF Appended
<1> HIDE DEF n, l
<1>2. books'[n + 1][t] # books'[n][t] => t = symbol
  <2>1. books'[n] = books[n] BY <1>1
  <2>2. books'[n + 1] = [books[n] EXCEPT ![symbol][p] = q] /\ books[n] \in Books
    BY <1>0 DEF Appended
  <2> QED BY <2>1, <2>2 DEF Books
<1>3. CASE symbol \in subscribed
  <2>1. /\ Len(wire') = l + 1 /\ \A i \in 1 .. l : wire'[i] = wire[i]
        /\ wire'[l + 1].lastUpdateId = n + 1
        /\ t = symbol => IsUpdate(wire'[l + 1], t)
    BY <1>0, <1>3 DEF Appended, Update, IsUpdate
  <2>2. Covers(wire, books, t, m) /\ Len(books) = n /\ Len(wire) = l BY DEF n, l
  <2> QED BY <1>1, <1>2, <2>1, <2>2, CoversChange
<1>4. CASE symbol \notin subscribed
  <2>1. wire' = wire /\ t # symbol BY <1>4 DEF exchangeChanges
  <2>2. Covers(wire, books, t, m) /\ Len(books) = n /\ Len(wire') = l /\ Len(wire) = l
    BY <2>1 DEF n, l
  <2>3. l # l + 1 /\ \A i \in 1 .. l : wire'[i] = wire[i] BY <1>1, <2>1
  <2> QED BY <1>1, <1>2, <2>1, <2>2, <2>3, CoversChange
<1> QED BY <1>3, <1>4

\* A change either reaches the wire or makes the book of its symbol incomplete.
LEMMA exchangeChangesKeeps ==
  ASSUME FeedInv, NEW symbol \in BookSymbols, NEW p \in Levels, NEW q \in BookQuantities,
         NEW complete \in BOOLEAN, exchangeChanges(symbol, p, q, complete)
  PROVE  FeedInv'
<1> DEFINE n == Len(books)  l == Len(wire)
<1>0. Appended(symbol, p, q, complete, n, l) BY ChangeAppends
<1>1. /\ n \in Nat \ {0} /\ l \in Nat
      /\ books' \in Seq(Books) /\ Len(books') = n + 1 /\ \A i \in 1 .. n : books'[i] = books[i]
      /\ books'[n + 1] = [books[n] EXCEPT ![symbol][p] = q] /\ books[n] \in Books
      /\ \A i \in 1 .. l : /\ wire[i].lastUpdateId \in 1 .. n /\ wire[i].symbol \in BookSymbols
                            /\ wire[i].event \in {"all", "update"}
  BY <1>0, Lengths DEF Appended
<1>2. /\ feed = "started" /\ UNCHANGED <<m_books, feed, connected, subscribed>>
      /\ missed \subseteq missed'
      /\ symbol \notin subscribed /\ contains(symbol) => symbol \in missed'
  BY DEF exchangeChanges, WithBook
<1>3. \A s : contains(s)' = contains(s) BY <1>2 DEF contains
<1>4. /\ wire' \in Seq(Frames) /\ \A i \in 1 .. l : wire'[i] = wire[i]
      /\ Len(wire') = (IF symbol \in subscribed THEN l + 1 ELSE l)
      /\ symbol \in subscribed =>
           wire'[l + 1] = Update(symbol, n + 1, complete, [x \in {p} |-> q])
  BY <1>0 DEF Appended
<1>5. \A i \in 1 .. l : /\ FrameIsTrue(books, wire[i]) /\ wire[i].symbol \in subscribed
  BY DEF FeedInv, WireInv
<1>6. \A i, k \in 1 .. l :
        i < k /\ wire[k].event = "all" => wire[i].lastUpdateId <= wire[k].lastUpdateId
  BY DEF FeedInv, WireInv
<1> HIDE DEF n, l
<1>7. FeedTypeOK' BY <1>1, <1>2, <1>4 DEF FeedInv, FeedTypeOK
<1>8. BookInv'
  <2> SUFFICES ASSUME NEW s \in BookSymbols, contains(s)
               PROVE  /\ m_books[s].sequence_id \in 1 .. n + 1
                      /\ s \notin missed' => \A x \in DOMAIN m_books[s].levels : RightAt(s, x)'
    BY <1>1, <1>2, <1>3 DEF BookInv
  <2>1. /\ m_books[s].sequence_id \in 1 .. n
        /\ s \notin missed => \A x \in DOMAIN m_books[s].levels : RightAt(s, x)
    BY DEF FeedInv, BookInv, n
  <2>2. books'[m_books[s].sequence_id] = books[m_books[s].sequence_id] BY <1>1, <2>1
  <2>3. \A x : RightAt(s, x)' = RightAt(s, x) BY <1>2, <2>2 DEF RightAt, Quantity
  <2> QED BY <1>1, <1>2, <2>1, <2>3
<1>9. WireInv'
  <2>1. ASSUME NEW g, FrameIsTrue(books, g) PROVE FrameIsTrue(books', g)
    <3>1. g.lastUpdateId \in 1 .. n /\ books'[g.lastUpdateId] = books[g.lastUpdateId]
      BY <1>1, <2>1 DEF FrameIsTrue, n
    <3>2. g.lastUpdateId > 1 => books'[g.lastUpdateId - 1] = books[g.lastUpdateId - 1]
      <4>1. g.lastUpdateId > 1 => g.lastUpdateId - 1 \in 1 .. n BY <1>1, <3>1
      <4> QED BY <1>1, <4>1
    <3>3. g.lastUpdateId \in 1 .. n + 1 BY <1>1, <3>1
    <3>4. Len(books') = n + 1 BY <1>1
    <3>5. g.event = "update" =>
            /\ g.lastUpdateId > 1
            /\ \E x \in Levels, y \in BookQuantities :
                 /\ books'[g.lastUpdateId][g.symbol]
                      = [books'[g.lastUpdateId - 1][g.symbol] EXCEPT ![x] = y]
                 /\ g.levels = [z \in {x} |-> y]
      <4> SUFFICES ASSUME g.event = "update"
                   PROVE  /\ g.lastUpdateId > 1
                          /\ \E x \in Levels, y \in BookQuantities :
                               /\ books'[g.lastUpdateId][g.symbol]
                                    = [books'[g.lastUpdateId - 1][g.symbol] EXCEPT ![x] = y]
                               /\ g.levels = [z \in {x} |-> y]
        OBVIOUS
      <4>1. g.lastUpdateId > 1 BY <2>1 DEF FrameIsTrue
      <4>2. PICK x \in Levels, y \in BookQuantities :
                 /\ books[g.lastUpdateId][g.symbol]
                      = [books[g.lastUpdateId - 1][g.symbol] EXCEPT ![x] = y]
                 /\ g.levels = [z \in {x} |-> y]
        BY <2>1 DEF FrameIsTrue
      <4>3. books'[g.lastUpdateId][g.symbol]
              = [books'[g.lastUpdateId - 1][g.symbol] EXCEPT ![x] = y]
        BY <3>1, <3>2, <4>1, <4>2
      <4> QED BY <4>1, <4>2, <4>3
    <3>6. g.event = "all" => g.complete /\ g.levels = books'[g.lastUpdateId][g.symbol]
      BY <2>1, <3>1 DEF FrameIsTrue
    <3> QED BY <3>3, <3>4, <3>5, <3>6 DEF FrameIsTrue
  <2>2. ASSUME symbol \in subscribed PROVE FrameIsTrue(books', wire'[l + 1])
    <3> DEFINE f == wire'[l + 1]
    <3>1. /\ f.symbol = symbol /\ f.event = "update" /\ f.lastUpdateId = n + 1
          /\ f.levels = [x \in {p} |-> q]
      BY <1>4, <2>2 DEF Update
    <3>2. books'[n + 1][symbol] = [books'[n][symbol] EXCEPT ![p] = q]
      <4>1. books'[n] = books[n] BY <1>1
      <4>2. [books[n] EXCEPT ![symbol][p] = q][symbol] = [books[n][symbol] EXCEPT ![p] = q]
        BY <1>1 DEF Books
      <4> QED BY <1>1, <4>1, <4>2
    <3>3. n + 1 > 1 /\ (n + 1) - 1 = n /\ n + 1 \in 1 .. n + 1 BY <1>1
    <3> HIDE DEF f
    <3>4. /\ books'[f.lastUpdateId][f.symbol] = [books'[f.lastUpdateId - 1][f.symbol] EXCEPT ![p] = q]
          /\ f.lastUpdateId \in 1 .. Len(books') /\ f.lastUpdateId > 1
      BY <1>1, <3>1, <3>2, <3>3
    <3> QED BY <3>1, <3>4 DEF FrameIsTrue, f
  <2>3. ASSUME NEW i \in 1 .. Len(wire')
        PROVE  FrameIsTrue(books', wire'[i]) /\ wire'[i].symbol \in subscribed
    <3>1. CASE i \in 1 .. l BY <1>4, <1>5, <2>1, <3>1
    <3>2. CASE i = l + 1 /\ symbol \in subscribed BY <1>4, <2>2, <3>2 DEF Update
    <3> QED BY <1>1, <1>4, <3>1, <3>2, OneMore
  <2>4. ASSUME NEW i \in 1 .. Len(wire'), NEW k \in 1 .. Len(wire'), i < k, wire'[k].event = "all"
        PROVE  wire'[i].lastUpdateId <= wire'[k].lastUpdateId
    <3>1. k \in 1 .. l
      <4>1. ~ (k = l + 1 /\ symbol \in subscribed) BY <1>4, <2>4 DEF Update
      <4> QED BY <1>1, <1>4, <4>1, OneMore
    <3>2. i \in 1 .. l BY <1>1, <2>4, <3>1
    <3>3. wire'[i] = wire[i] /\ wire'[k] = wire[k] BY <1>4, <3>1, <3>2
    <3> QED BY <1>6, <2>4, <3>1, <3>2, <3>3
  <2>5. connected' => connected BY <1>2
  <2>6. ~ connected => subscribed = {} /\ wire' = wire
    BY DEF FeedInv, WireInv, exchangeChanges
  <2>7. ~ connected => wire = << >> BY DEF FeedInv, WireInv
  <2> QED BY <1>2, <2>3, <2>4, <2>5, <2>6, <2>7 DEF WireInv
<1>10. CoverInv'
  <2> \A g : Begins(g)' = Begins(g) BY <1>3 DEF Begins
  <2>1. ASSUME NEW s \in BookSymbols, contains(s), s \notin missed'
        PROVE  Covers(wire', books', s, m_books[s].sequence_id)
    <3>1. m_books[s].sequence_id \in Nat /\ Covers(wire, books, s, m_books[s].sequence_id)
      BY <1>1, <1>2, <2>1 DEF FeedInv, BookInv, CoverInv, n
    <3> QED BY <1>2, <2>1, <3>1, ChangeCovers
  <2>2. ASSUME NEW i \in 1 .. Len(wire'), Begins(wire'[i])
        PROVE  Covers(wire', books', wire'[i].symbol, wire'[i].lastUpdateId)
    <3>1. CASE i \in 1 .. l
      <4>1. /\ wire'[i] = wire[i] /\ wire[i].lastUpdateId \in Nat
            /\ wire[i].symbol \in BookSymbols /\ wire[i].symbol \in subscribed
        BY <1>1, <1>4, <1>5, <3>1
      <4>2. Covers(wire, books, wire[i].symbol, wire[i].lastUpdateId)
        BY <1>2, <2>2, <3>1, <4>1 DEF FeedInv, CoverInv, l
      <4> QED BY <4>1, <4>2, ChangeCovers
    <3>2. CASE i = l + 1 /\ symbol \in subscribed
      <4>1. wire'[i].lastUpdateId = Len(books') /\ Len(books') \in Nat
        BY <1>1, <1>4, <3>2 DEF Update
      <4> QED BY <4>1, CoversNow
    <3> QED BY <1>1, <1>4, <3>1, <3>2, OneMore
  <2>3. ASSUME NEW k \in 1 .. Len(wire'), NEW i \in 1 .. Len(wire'),
               wire'[k].event = "update", wire'[k].complete, ~ contains(wire'[k].symbol),
               i < k, IsUpdate(wire'[i], wire'[k].symbol),
               wire'[i].lastUpdateId > wire'[k].lastUpdateId
        PROVE  \E j \in 1 .. i - 1 : wire'[j] = wire'[k]
    <3>1. i \in 1 .. l /\ wire'[i] = wire[i] /\ wire[i].lastUpdateId \in 1 .. n
      <4>1. Len(wire') \in {l, l + 1} BY <1>4
      <4>2. i \in 1 .. l BY <1>1, <2>3, <4>1
      <4> QED BY <1>1, <1>4, <4>2
    <3>2. k \in 1 .. l
      <4>1. ~ (k = l + 1 /\ symbol \in subscribed)
        <5> SUFFICES ASSUME k = l + 1, symbol \in subscribed PROVE FALSE OBVIOUS
        <5>1. wire'[k].lastUpdateId = n + 1 BY <1>4 DEF Update
        <5> QED BY <1>1, <2>3, <3>1, <5>1
      <4> QED BY <1>1, <1>4, <4>1, OneMore
    <3>3. wire'[k] = wire[k] BY <1>4, <3>2
    <3>4. PICK j \in 1 .. i - 1 : wire[j] = wire[k]
      BY <1>2, <2>3, <3>1, <3>2, <3>3 DEF FeedInv, CoverInv, l
    <3>5. i \in Int /\ i <= l BY <1>1, <3>1
    <3>6. j \in 1 .. l BY <1>1, <3>5
    <3> QED BY <1>4, <3>3, <3>4, <3>6
  <2> QED BY <1>2, <1>3, <2>1, <2>2, <2>3 DEF CoverInv
<1> QED BY <1>7, <1>8, <1>9, <1>10 DEF FeedInv

\* Steps that leave the wire, the books and what is lost alone.
LEMMA openKeeps == FeedInv /\ open => FeedInv'
<1> SUFFICES ASSUME FeedInv, open PROVE FeedInv' OBVIOUS
<1>1. wire = << >> /\ UNCHANGED <<m_books, feed, wire, books, missed>> /\ connected'
  BY DEF FeedInv, WireInv, open
<1>2. Len(wire') = 0 /\ \A s : contains(s)' = contains(s) BY <1>1 DEF contains
<1>3. FeedTypeOK' BY <1>1 DEF FeedInv, FeedTypeOK
<1>4. WireInv' BY <1>1, <1>2 DEF FeedInv, WireInv
<1>5. BookInv' BY <1>1, <1>2 DEF FeedInv, BookInv, RightAt, Quantity
<1>6. CoverInv => CoverInv' BY <1>1, <1>2 DEF CoverInv, Begins
<1> QED BY <1>1, <1>3, <1>4, <1>5, <1>6 DEF FeedInv

\* start finds no book and no frame on the way.
LEMMA startKeeps == FeedInv /\ start => FeedInv'
<1> SUFFICES ASSUME FeedInv, start PROVE FeedInv' OBVIOUS
<1>1. /\ wire = << >> /\ UNCHANGED <<m_books, connected, wire, books, missed>>
      /\ feed' = "started" /\ (~ connected => subscribed' = subscribed)
  BY DEF FeedInv, WireInv, start
<1>2. /\ Len(wire') = 0 /\ \A s \in BookSymbols : ~ contains(s)
      /\ \A s : contains(s)' = contains(s)
  BY <1>1 DEF FeedInv, WireInv, start, contains
<1>3. FeedTypeOK'
  <2>1. UNCHANGED <<m_books, books, wire>> /\ feed' = "started" BY DEF start
  <2> QED BY <2>1 DEF FeedInv, FeedTypeOK
<1>4. WireInv'
  <2>1. ~ connected => subscribed = {} BY DEF FeedInv, WireInv
  <2>2. feed' # "created" /\ wire' = << >> /\ (~ connected' => subscribed' = {})
    BY <1>1, <2>1
  <2> QED BY <1>2, <2>2 DEF WireInv
<1>5. BookInv' BY <1>1, <1>2 DEF FeedInv, BookInv, RightAt, Quantity
<1>6. CoverInv' BY <1>1, <1>2 DEF CoverInv, Begins
<1> QED BY <1>1, <1>3, <1>4, <1>5, <1>6 DEF FeedInv

\* stop leaves books and frames; frames are no longer applied.
LEMMA stopKeeps == FeedInv /\ stop => FeedInv'
<1> SUFFICES ASSUME FeedInv, stop PROVE FeedInv' OBVIOUS
<1>1. UNCHANGED <<m_books, connected, subscribed, wire, books, missed>> /\ feed' = "stopped"
  BY DEF stop, connection
<1>2. \A s : contains(s)' = contains(s) BY <1>1 DEF contains
<1>3. FeedTypeOK' BY <1>1 DEF FeedInv, FeedTypeOK
<1>4. WireInv'
  <2>1. \A g : FrameIsTrue(books, g)' = FrameIsTrue(books, g) BY <1>1 DEF FrameIsTrue
  <2> QED BY <1>1, <1>2, <2>1 DEF FeedInv, WireInv
<1>5. BookInv' BY <1>1, <1>2 DEF FeedInv, BookInv, RightAt, Quantity
<1> QED BY <1>1, <1>3, <1>4, <1>5 DEF FeedInv

\* What was on the way is lost: books it would have changed are incomplete.
LEMMA dropKeeps == FeedInv /\ drop => FeedInv'
<1> SUFFICES ASSUME FeedInv, drop PROVE FeedInv' OBVIOUS
<1>1. /\ UNCHANGED <<m_books, feed, books>> /\ wire' = << >> /\ subscribed' = {}
      /\ missed \subseteq missed' /\ ~ connected'
  BY DEF drop
<1>2. Len(wire') = 0 /\ \A s : contains(s)' = contains(s) BY <1>1 DEF contains
<1>3. FeedTypeOK' BY <1>1 DEF FeedInv, FeedTypeOK
<1>4. WireInv' BY <1>1, <1>2 DEF FeedInv, WireInv, drop
<1>5. BookInv' BY <1>1, <1>2 DEF FeedInv, BookInv, RightAt, Quantity
<1>6. ASSUME CoverInv, NEW s \in BookSymbols, contains(s), s \notin missed'
      PROVE  Covers(wire', books, s, m_books[s].sequence_id)
  <2>1. \A i \in 1 .. Len(wire) : ~ IsUpdate(wire[i], s)
    BY <1>6, Lengths DEF drop, WithBook, IsUpdate
  <2>2. Covers(wire, books, s, m_books[s].sequence_id) BY <1>1, <1>6 DEF CoverInv
  <2> QED BY <2>1, <2>2 DEF Covers, Within
<1>7. CoverInv => CoverInv' BY <1>1, <1>2, <1>6 DEF CoverInv
<1> QED BY <1>1, <1>3, <1>4, <1>5, <1>7 DEF FeedInv

-----------------------------------------------------------------------------
\* The frames after the first one.
LEMMA TailFrames ==
  ASSUME FeedInv, wire # << >>
  PROVE  /\ Tail(wire) \in Seq(Frames) /\ Len(Tail(wire)) = Len(wire) - 1 /\ 1 \in 1 .. Len(wire)
         /\ \A i \in 1 .. Len(Tail(wire)) :
              Tail(wire)[i] = wire[i + 1] /\ i + 1 \in 1 .. Len(wire) /\ i + 1 > 1
<1>1. Len(wire) \in Nat /\ wire \in Seq(Frames) BY Lengths
<1> QED BY <1>1, HeadTailProperties

\* What is behind the first frame is as true as before.
LEMMA DeliveredWire ==
  ASSUME FeedInv, wire # << >>, wire' = Tail(wire),
         UNCHANGED <<feed, connected, subscribed, books>>
  PROVE  WireInv' /\ wire' \in Seq(Frames)
<1>1. feed # "created" /\ connected BY DEF FeedInv, WireInv
<1>2. ASSUME NEW i \in 1 .. Len(wire')
      PROVE  FrameIsTrue(books, wire'[i]) /\ wire'[i].symbol \in subscribed
  <2>1. wire'[i] = wire[i + 1] /\ i + 1 \in 1 .. Len(wire) BY TailFrames
  <2> QED BY <2>1 DEF FeedInv, WireInv
<1>3. ASSUME NEW i \in 1 .. Len(wire'), NEW k \in 1 .. Len(wire'), i < k, wire'[k].event = "all"
      PROVE  wire'[i].lastUpdateId <= wire'[k].lastUpdateId
  <2>1. /\ wire'[i] = wire[i + 1] /\ i + 1 \in 1 .. Len(wire)
        /\ wire'[k] = wire[k + 1] /\ k + 1 \in 1 .. Len(wire)
    BY TailFrames
  <2>2. i + 1 < k + 1 BY <1>3
  <2> QED BY <1>3, <2>1, <2>2 DEF FeedInv, WireInv
<1>4. \A g : FrameIsTrue(books, g)' = FrameIsTrue(books, g) BY DEF FrameIsTrue
<1> QED BY <1>1, <1>2, <1>3, <1>4, TailFrames DEF WireInv

\* A frame that is delivered leaves the frames behind it covering what they covered.
LEMMA DeliveredCovers ==
  ASSUME FeedInv, CoverInv, wire # << >>, wire' = Tail(wire), UNCHANGED books,
         NEW f, f = wire[1],
         \A s \in BookSymbols : s # f.symbol => m_books'[s] = m_books[s],
         \A s \in BookSymbols : contains(s) => contains(s)',
         contains(f.symbol)' \/ (~ f.complete /\ m_books' = m_books),
         \A s \in BookSymbols : s # f.symbol /\ s \notin missed' => s \notin missed,
         contains(f.symbol)' /\ f.symbol \notin missed' =>
           /\ m_books'[f.symbol].sequence_id \in Nat
           /\ f.lastUpdateId <= m_books'[f.symbol].sequence_id
           /\ Covers(wire, books, f.symbol, m_books'[f.symbol].sequence_id)
  PROVE  CoverInv'
<1>1. /\ f \in Frames /\ f.symbol \in BookSymbols /\ f.lastUpdateId \in Nat
      /\ Len(books) \in Nat /\ wire \in Seq(Frames)
      /\ \A i \in 1 .. Len(wire) : wire[i].lastUpdateId \in Nat /\ wire[i].symbol \in BookSymbols
                                   /\ wire[i].event \in {"all", "update"}
  BY Lengths, TailFrames
<1>2. ASSUME NEW s \in BookSymbols, NEW m \in Nat, Covers(wire, books, s, m),
             IsUpdate(f, s) => f.lastUpdateId <= m
      PROVE  Covers(wire', books, s, m)
  BY <1>1, <1>2, CoversTail
<1>3. ASSUME NEW s \in BookSymbols, contains(s)', s \notin missed'
      PROVE  Covers(wire', books, s, m_books'[s].sequence_id)
  <2>1. CASE s = f.symbol BY <1>1, <1>2, <1>3, <2>1
  <2>2. CASE s # f.symbol
    <3>1. m_books'[s] = m_books[s] /\ contains(s) /\ s \notin missed
      BY <1>3, <2>2 DEF contains
    <3>2. Covers(wire, books, s, m_books[s].sequence_id) /\ m_books[s].sequence_id \in Nat
      BY <1>1, <3>1 DEF CoverInv, FeedInv, BookInv
    <3>3. ~ IsUpdate(f, s) BY <2>2 DEF IsUpdate
    <3> QED BY <1>2, <3>1, <3>2, <3>3
  <2> QED BY <2>1, <2>2
<1>4. ASSUME NEW i \in 1 .. Len(wire'), NEW g, g = wire'[i], Begins(g)'
      PROVE  Covers(wire', books, g.symbol, g.lastUpdateId)
  <2>1. wire[i + 1] = g /\ i + 1 \in 1 .. Len(wire) /\ i + 1 > 1 /\ 1 \in 1 .. Len(wire)
    BY <1>4, TailFrames
  <2>2. g.symbol \in BookSymbols /\ g.lastUpdateId \in Nat /\ g.event \in {"all", "update"}
    BY <1>1, <2>1
  <2>3. g.event = "all" \/ (g.complete /\ ~ contains(g.symbol)') BY <1>4 DEF Begins
  <2>4. Begins(g) BY <2>2, <2>3 DEF Begins
  <2>5. Covers(wire, books, g.symbol, g.lastUpdateId) BY <2>1, <2>4 DEF CoverInv
  <2>6. IsUpdate(f, g.symbol) => f.lastUpdateId <= g.lastUpdateId
    <3>1. CASE g.event = "all" BY <2>1, <3>1 DEF FeedInv, WireInv
    <3>2. CASE g.event = "update" /\ g.complete /\ ~ contains(g.symbol)'
      <4> SUFFICES ASSUME IsUpdate(f, g.symbol), f.lastUpdateId > g.lastUpdateId PROVE FALSE
        BY <1>1, <2>2
      <4>1. ~ contains(g.symbol) BY <2>2, <3>2
      <4>2. \E j \in 1 .. 1 - 1 : wire[j] = g
        BY <2>1, <3>2, <4>1 DEF CoverInv
      <4> QED BY <4>2
    <3> QED BY <2>2, <2>3, <3>1, <3>2
  <2> QED BY <1>2, <2>2, <2>5, <2>6
<1>5. \A i \in 1 .. Len(wire') : Begins(wire[i])' =>
        Covers(wire', books', wire'[i].symbol, wire'[i].lastUpdateId)
  BY <1>4 DEF Begins
<1>6. \A k \in 1 .. Len(wire'), i \in 1 .. Len(wire') :
        /\ wire'[k].event = "update" /\ wire'[k].complete /\ ~ contains(wire[k].symbol)'
        /\ i < k /\ IsUpdate(wire'[i], wire'[k].symbol)
        /\ wire'[i].lastUpdateId > wire'[k].lastUpdateId
        => \E j \in 1 .. i - 1 : wire'[j] = wire'[k]
  <2> TAKE k \in 1 .. Len(wire'), i \in 1 .. Len(wire')
  <2> HAVE /\ wire'[k].event = "update" /\ wire'[k].complete /\ ~ contains(wire[k].symbol)'
           /\ i < k /\ IsUpdate(wire'[i], wire'[k].symbol)
           /\ wire'[i].lastUpdateId > wire'[k].lastUpdateId
  <2>1. PICK g : g = wire'[k] OBVIOUS
  <2>2. ~ contains(g.symbol)' BY <2>1 DEF contains
  <2>3. /\ g.event = "update" /\ g.complete /\ i < k
        /\ IsUpdate(wire'[i], g.symbol) /\ wire'[i].lastUpdateId > g.lastUpdateId
    BY ONLY <2>1, i < k, wire'[k].event = "update", wire'[k].complete, IsUpdate(wire'[i], wire'[k].symbol),
            wire'[i].lastUpdateId > wire'[k].lastUpdateId
  <2>4. /\ wire'[i] = wire[i + 1] /\ i + 1 \in 1 .. Len(wire)
        /\ g = wire[k + 1] /\ k + 1 \in 1 .. Len(wire) /\ i + 1 < k + 1
    BY <2>1, <2>3, TailFrames
  <2>5. g.symbol \in BookSymbols /\ ~ contains(g.symbol) BY <1>1, <2>2, <2>4
  <2>6. PICK j \in 1 .. (i + 1) - 1 : wire[j] = g
    BY <2>3, <2>4, <2>5 DEF CoverInv
  <2>7. j # 1 BY <1>1, <2>2, <2>3, <2>4, <2>5, <2>6
  <2>8. j - 1 \in 1 .. i - 1 /\ j - 1 \in 1 .. Len(wire') /\ (j - 1) + 1 = j BY <2>4, <2>6
  <2>9. wire'[j - 1] = wire[j] BY <2>8, TailFrames
  <2> QED BY <2>1, <2>6, <2>8, <2>9
<1> QED BY <1>3, <1>5, <1>6 DEF CoverInv

\* The levels of a book that a frame replaces, or changes, are those of its number.
LEMMA FrameReplaces ==
  ASSUME FeedInv, NEW f \in Frames, FrameIsTrue(books, f)
  PROVE  /\ Entries(f.levels) \in SomeLevels
         /\ \A p \in DOMAIN Entries(f.levels) :
              Entries(f.levels)[p] = books[f.lastUpdateId][f.symbol][p]
<1>1. PICK D \in SUBSET Levels : f.levels \in [D -> BookQuantities] BY DEF Frames, SomeLevels
<1> DEFINE filled == {p \in DOMAIN f.levels : f.levels[p] > 0}
<1>2. Entries(f.levels) = [p \in filled |-> f.levels[p]] BY DEF Entries
<1>3. filled \in SUBSET Levels /\ Entries(f.levels) \in [filled -> BookQuantities] BY <1>1, <1>2
<1>4. Entries(f.levels) \in SomeLevels BY <1>3 DEF SomeLevels
<1>5. ASSUME NEW p \in DOMAIN f.levels
      PROVE  f.levels[p] = books[f.lastUpdateId][f.symbol][p]
  <2>1. CASE f.event = "all" BY <2>1 DEF FrameIsTrue
  <2>2. CASE f.event = "update"
    <3>1. PICK x \in Levels, y \in BookQuantities :
            /\ books[f.lastUpdateId][f.symbol]
                 = [books[f.lastUpdateId - 1][f.symbol] EXCEPT ![x] = y]
            /\ f.levels = [z \in {x} |-> y]
      BY <2>2 DEF FrameIsTrue
    <3>2. books[f.lastUpdateId - 1][f.symbol] \in [Levels -> BookQuantities]
      <4>1. f.lastUpdateId - 1 \in 1 .. Len(books) BY <2>2, Lengths DEF FrameIsTrue
      <4> QED BY <4>1, Lengths DEF Books, Frames
    <3> QED BY <1>5, <3>1, <3>2
  <2> QED BY <2>1, <2>2 DEF Frames
<1> QED BY <1>2, <1>4, <1>5

\* A change applied to the levels of the number before gives those of its number.
LEMMA FrameChanges ==
  ASSUME FeedInv, NEW f \in Frames, FrameIsTrue(books, f), f.event = "update",
         NEW levels \in SomeLevels,
         \A p \in DOMAIN levels : levels[p] = books[f.lastUpdateId - 1][f.symbol][p]
  PROVE  \A p \in DOMAIN ChangedLevels(levels, f.levels) :
           ChangedLevels(levels, f.levels)[p] = books[f.lastUpdateId][f.symbol][p]
<1>1. PICK x \in Levels, y \in BookQuantities :
        /\ books[f.lastUpdateId][f.symbol]
             = [books[f.lastUpdateId - 1][f.symbol] EXCEPT ![x] = y]
        /\ f.levels = [z \in {x} |-> y]
  BY DEF FrameIsTrue
<1>2. books[f.lastUpdateId - 1][f.symbol] \in [Levels -> BookQuantities]
  <2>1. f.lastUpdateId - 1 \in 1 .. Len(books) BY Lengths DEF FrameIsTrue
  <2> QED BY <2>1, Lengths DEF Books, Frames
<1>3. DOMAIN levels \subseteq Levels BY DEF SomeLevels
<1> DEFINE changed == [p \in DOMAIN levels \cup DOMAIN f.levels |->
                         IF p \in DOMAIN f.levels THEN f.levels[p] ELSE levels[p]]
<1>4. ChangedLevels(levels, f.levels) = Entries(changed) BY DEF ChangedLevels
<1>5. ASSUME NEW p \in DOMAIN changed
      PROVE  changed[p] = books[f.lastUpdateId][f.symbol][p]
  BY <1>1, <1>2, <1>3
<1> HIDE DEF changed
<1> QED BY <1>4, <1>5 DEF Entries

\* A changed book has levels of the exchange.
LEMMA ChangedType ==
  ASSUME NEW levels \in SomeLevels, NEW altered \in SomeLevels
  PROVE  ChangedLevels(levels, altered) \in SomeLevels
<1>1. PICK D \in SUBSET Levels : levels \in [D -> BookQuantities] BY DEF SomeLevels
<1>2. PICK E \in SUBSET Levels : altered \in [E -> BookQuantities] BY DEF SomeLevels
<1> DEFINE both == [p \in DOMAIN levels \cup DOMAIN altered |->
                      IF p \in DOMAIN altered THEN altered[p] ELSE levels[p]]
           filled == {p \in DOMAIN both : both[p] > 0}
<1>3. both \in [D \cup E -> BookQuantities] BY <1>1, <1>2
<1>4. ChangedLevels(levels, altered) = [p \in filled |-> both[p]] BY DEF ChangedLevels, Entries
<1> HIDE DEF both
<1>5. filled \in SUBSET Levels /\ [p \in filled |-> both[p]] \in [filled -> BookQuantities] BY <1>3
<1> QED BY <1>4, <1>5 DEF SomeLevels

\* The book of every other symbol is as it was.
LEMMA OtherBooks ==
  ASSUME FeedInv, NEW f \in Frames, UNCHANGED books, NEW s \in BookSymbols,
         m_books'[s] = m_books[s], s \notin missed' => s \notin missed, contains(s)'
  PROVE  /\ m_books'[s].sequence_id \in 1 .. Len(books)
         /\ s \notin missed' => \A p \in DOMAIN m_books'[s].levels : RightAt(s, p)'
<1>1. contains(s) BY DEF contains
<1>2. \A p : RightAt(s, p)' = RightAt(s, p) BY DEF RightAt, Quantity
<1> QED BY <1>1, <1>2 DEF FeedInv, BookInv

\* The changes of a book between its number and that of the first frame on the way.
LEMMA NothingBetween ==
  ASSUME FeedInv, CoverInv, wire # << >>, NEW s \in BookSymbols, IsUpdate(wire[1], s),
         contains(s), s \notin missed, wire[1].lastUpdateId > m_books[s].sequence_id
  PROVE  books[wire[1].lastUpdateId - 1][s] = books[m_books[s].sequence_id][s]
<1> DEFINE a == m_books[s].sequence_id  b == wire[1].lastUpdateId - 1
<1>1. /\ a \in 1 .. Len(books) /\ 1 \in 1 .. Len(wire) /\ Len(books) \in Nat
      /\ wire[1].lastUpdateId \in 1 .. Len(books)
  BY Lengths, TailFrames DEF FeedInv, BookInv
<1>2. b \in 1 .. Len(books) /\ a <= b /\ wire[1].lastUpdateId > b BY <1>1
<1>3. Covers(wire, books, s, a) BY DEF CoverInv
<1> HIDE DEF a, b
<1>4. SUFFICES ASSUME books[a][s] # books[b][s] PROVE FALSE BY DEF a, b
<1>5. \E j \in 1 .. 1 - 1 : Within(wire, s, a, b, j)
  BY <1>1, <1>2, <1>3, <1>4 DEF Covers
<1> QED BY <1>5

\* A frame without all of its fields makes its book, if there is one, incomplete.
LEMMA IncompleteDelivered ==
  ASSUME FeedInv, feed = "started", deliverFrame, ~ Head(wire).complete
  PROVE  FeedInv'
<1> PICK f : f = Head(wire) /\ f = wire[1] BY DEF deliverFrame
<1>1. /\ wire # << >> /\ wire' = Tail(wire) /\ UNCHANGED <<feed, connected, subscribed, books>>
      /\ m_books' = m_books /\ missed' = missed \cup WithBook({f.symbol})
  BY DEF deliverFrame, onOrderbookUpdate, applySnapshot, applyDelta
<1>2. f \in Frames /\ f.symbol \in BookSymbols BY <1>1, Lengths, TailFrames
<1>3. /\ ~ f.complete /\ missed \subseteq missed'
      /\ contains(f.symbol) => f.symbol \in missed'
  BY <1>1, <1>2 DEF WithBook
<1>4. \A s : contains(s)' = contains(s) BY <1>1 DEF contains
<1>5. CoverInv'
  <2>1. CoverInv /\ f = wire[1] BY DEF FeedInv
  <2> QED BY <1>1, <1>3, <1>4, <2>1, DeliveredCovers
<1>6. BookInv' BY <1>1, <1>2, <1>3, <1>4, OtherBooks DEF BookInv
<1>7. WireInv' /\ FeedTypeOK' BY <1>1, DeliveredWire DEF FeedInv, FeedTypeOK
<1> QED BY <1>5, <1>6, <1>7 DEF FeedInv

\* A complete frame that is the first of its symbol, or a whole book, replaces the book.
LEMMA SnapshotDelivered ==
  ASSUME FeedInv, feed = "started", deliverFrame, Head(wire).complete, IsSnapshot(Head(wire))
  PROVE  FeedInv'
<1> PICK f : f = Head(wire) /\ f = wire[1] BY DEF deliverFrame
<1> DEFINE book == [sequence_id |-> f.lastUpdateId, levels |-> Entries(f.levels)]
<1>1. /\ wire # << >> /\ wire' = Tail(wire) /\ UNCHANGED <<feed, connected, subscribed, books>>
      /\ m_books' = [m_books EXCEPT ![f.symbol] = book] /\ missed' = missed \ {f.symbol}
  BY DEF deliverFrame, onOrderbookUpdate, applySnapshot
<1>2. /\ f \in Frames /\ f.symbol \in BookSymbols /\ FrameIsTrue(books, f)
      /\ f.lastUpdateId \in 1 .. Len(books) /\ Len(books) \in Nat /\ 1 \in 1 .. Len(wire)
  BY <1>1, Lengths, TailFrames DEF FeedInv, WireInv
<1>3. Begins(f) BY DEF deliverFrame, IsSnapshot, Begins
<1>4. CoverInv /\ Covers(wire, books, f.symbol, f.lastUpdateId)
  BY <1>2, <1>3 DEF FeedInv, CoverInv
<1>5. /\ Entries(f.levels) \in SomeLevels
      /\ \A p \in DOMAIN Entries(f.levels) :
           Entries(f.levels)[p] = books[f.lastUpdateId][f.symbol][p]
  BY <1>2, FrameReplaces
<1>6. /\ book.sequence_id = f.lastUpdateId /\ book.levels = Entries(f.levels)
      /\ book \in KeptBooks /\ book # NoBook
  BY <1>2, <1>5 DEF KeptBooks, NoBook
<1> HIDE DEF book
<1>7. m_books \in [BookSymbols -> KeptBooks \cup {NoBook}] BY DEF FeedInv, FeedTypeOK
<1>8. /\ m_books'[f.symbol] = book
      /\ \A s \in BookSymbols : s # f.symbol => m_books'[s] = m_books[s]
      /\ m_books' \in [BookSymbols -> KeptBooks \cup {NoBook}]
  BY <1>1, <1>2, <1>6, <1>7
<1>9. WireInv' /\ FeedTypeOK' BY <1>1, <1>8, DeliveredWire DEF FeedInv, FeedTypeOK
<1>10. contains(f.symbol)' /\ \A s \in BookSymbols : contains(s) => contains(s)'
  BY <1>6, <1>8 DEF contains
<1>11. CoverInv'
  <2>1. f = wire[1] /\ f.lastUpdateId \in Nat BY <1>2
  <2> QED BY <1>1, <1>4, <1>6, <1>8, <1>10, <2>1, DeliveredCovers
<1>12. BookInv'
  <2>1. ASSUME NEW p \in DOMAIN m_books'[f.symbol].levels PROVE RightAt(f.symbol, p)'
    BY <1>1, <1>5, <1>6, <1>8, <2>1 DEF RightAt, Quantity
  <2>2. m_books'[f.symbol].sequence_id \in 1 .. Len(books) BY <1>2, <1>6, <1>8
  <2>3. \A s \in BookSymbols : s # f.symbol /\ s \notin missed' => s \notin missed BY <1>1
  <2> QED BY <1>1, <1>2, <1>8, <2>1, <2>2, <2>3, OtherBooks DEF BookInv
<1> QED BY <1>9, <1>11, <1>12 DEF FeedInv

\* A change that is not stale finds the book as the exchange had it just before.
LEMMA DeltaDelivered ==
  ASSUME FeedInv, feed = "started", deliverFrame, Head(wire).complete, ~ IsSnapshot(Head(wire)),
         ~ Stale(Head(wire))
  PROVE  FeedInv'
<1> PICK f : f = Head(wire) /\ f = wire[1] BY DEF deliverFrame
<1> DEFINE old == m_books[f.symbol]
           book == [sequence_id |-> f.lastUpdateId, levels |-> ChangedLevels(old.levels, f.levels)]
<1>1. /\ wire # << >> /\ wire' = Tail(wire) /\ UNCHANGED <<feed, connected, subscribed, books, missed>>
      /\ m_books' = [m_books EXCEPT ![f.symbol] = book] /\ contains(f.symbol) /\ f.event # "all"
  BY DEF deliverFrame, onOrderbookUpdate, applyDelta, IsSnapshot
<1>2. /\ f \in Frames /\ f.symbol \in BookSymbols /\ FrameIsTrue(books, f) /\ f.event = "update"
      /\ f.lastUpdateId \in 1 .. Len(books) /\ Len(books) \in Nat /\ 1 \in 1 .. Len(wire)
  BY <1>1, Lengths, TailFrames DEF FeedInv, WireInv
<1>3. CoverInv BY DEF FeedInv
<1>4. m_books \in [BookSymbols -> KeptBooks \cup {NoBook}] BY DEF FeedInv, FeedTypeOK
<1>5. /\ old \in KeptBooks /\ old.sequence_id \in 1 .. Len(books) /\ old.levels \in SomeLevels
      /\ old.sequence_id < f.lastUpdateId
  <2>1. old \in KeptBooks /\ old.sequence_id \in 1 .. Len(books)
    BY <1>1, <1>2, <1>4 DEF FeedInv, BookInv, contains
  <2>2. ~ (f.lastUpdateId <= old.sequence_id /\ old.sequence_id # 0)
    BY DEF Stale, deliverFrame
  <2> QED BY <1>2, <2>1, <2>2 DEF KeptBooks
<1>6. ASSUME f.symbol \notin missed
      PROVE  \A p \in DOMAIN ChangedLevels(old.levels, f.levels) :
               ChangedLevels(old.levels, f.levels)[p] = books[f.lastUpdateId][f.symbol][p]
  <2>1. IsUpdate(wire[1], f.symbol) BY <1>2 DEF IsUpdate
  <2>2. books[f.lastUpdateId - 1][f.symbol] = books[old.sequence_id][f.symbol]
    BY <1>1, <1>2, <1>3, <1>5, <1>6, <2>1, NothingBetween
  <2>3. \A p \in DOMAIN old.levels : RightAt(f.symbol, p) BY <1>1, <1>2, <1>6 DEF FeedInv, BookInv
  <2>4. \A p \in DOMAIN old.levels : old.levels[p] = books[f.lastUpdateId - 1][f.symbol][p]
    BY <2>2, <2>3 DEF RightAt, Quantity
  <2> HIDE DEF old
  <2> QED BY <1>2, <1>5, <2>4, FrameChanges
<1>7. /\ book.sequence_id = f.lastUpdateId
      /\ book.levels = ChangedLevels(old.levels, f.levels)
      /\ book \in KeptBooks /\ book # NoBook
  <2>1. f.levels \in SomeLevels BY <1>2 DEF Frames
  <2>2. ChangedLevels(old.levels, f.levels) \in SomeLevels BY <1>5, <2>1, ChangedType
  <2> QED BY <1>2, <2>2 DEF KeptBooks, NoBook
<1> HIDE DEF book
<1>8. /\ m_books'[f.symbol] = book
      /\ \A s \in BookSymbols : s # f.symbol => m_books'[s] = m_books[s]
      /\ m_books' \in [BookSymbols -> KeptBooks \cup {NoBook}]
  BY <1>1, <1>2, <1>4, <1>7
<1>9. WireInv' /\ FeedTypeOK' BY <1>1, <1>8, DeliveredWire DEF FeedInv, FeedTypeOK
<1>10. contains(f.symbol)' /\ \A s \in BookSymbols : contains(s) => contains(s)'
  BY <1>7, <1>8 DEF contains
<1>11. CoverInv'
  <2>1. ASSUME f.symbol \notin missed PROVE Covers(wire, books, f.symbol, f.lastUpdateId)
    <3>1. Covers(wire, books, f.symbol, old.sequence_id) BY <1>1, <1>2, <1>3, <2>1 DEF CoverInv
    <3> QED BY <1>2, <1>5, <3>1, CoversLater
  <2>2. f = wire[1] /\ f.lastUpdateId \in Nat /\ f.lastUpdateId <= f.lastUpdateId BY <1>2
  <2> QED BY <1>1, <1>3, <1>7, <1>8, <1>10, <2>1, <2>2, DeliveredCovers
<1>12. BookInv'
  <2>1. ASSUME f.symbol \notin missed, NEW p \in DOMAIN m_books'[f.symbol].levels
        PROVE  RightAt(f.symbol, p)'
    BY <1>1, <1>6, <1>7, <1>8, <2>1 DEF RightAt, Quantity
  <2>2. m_books'[f.symbol].sequence_id \in 1 .. Len(books) BY <1>2, <1>7, <1>8
  <2> QED BY <1>1, <1>2, <1>8, <2>1, <2>2, OtherBooks DEF BookInv
<1> QED BY <1>9, <1>11, <1>12 DEF FeedInv

\* A change the book is past is ignored, and was not needed.
LEMMA StaleDelivered ==
  ASSUME FeedInv, feed = "started", deliverFrame, Head(wire).complete, ~ IsSnapshot(Head(wire)),
         Stale(Head(wire))
  PROVE  FeedInv'
<1> PICK f : f = Head(wire) /\ f = wire[1] BY DEF deliverFrame
<1>1. /\ wire # << >> /\ wire' = Tail(wire) /\ UNCHANGED <<feed, connected, subscribed, books, missed, m_books>>
      /\ contains(f.symbol) /\ f.lastUpdateId <= m_books[f.symbol].sequence_id
  BY DEF deliverFrame, onOrderbookUpdate, applyDelta, IsSnapshot, Stale
<1>2. f \in Frames /\ f.symbol \in BookSymbols /\ Len(books) \in Nat
  BY <1>1, Lengths, TailFrames
<1>3. CoverInv BY DEF FeedInv
<1>4. /\ m_books[f.symbol].sequence_id \in Nat
      /\ f.symbol \notin missed => Covers(wire, books, f.symbol, m_books[f.symbol].sequence_id)
  BY <1>1, <1>2, <1>3 DEF FeedInv, BookInv, CoverInv
<1>5. \A s : contains(s)' = contains(s) BY <1>1 DEF contains
<1>6. CoverInv'
  <2>1. f = wire[1] OBVIOUS
  <2> QED BY <1>1, <1>3, <1>4, <1>5, <2>1, DeliveredCovers
<1>7. BookInv' BY <1>1, <1>5 DEF FeedInv, BookInv, RightAt, Quantity
<1>8. WireInv' /\ FeedTypeOK' BY <1>1, DeliveredWire DEF FeedInv, FeedTypeOK
<1> QED BY <1>6, <1>7, <1>8 DEF FeedInv

\* A frame is handled in one of these ways, or finds no handler after stop.
LEMMA deliverKeeps == FeedInv /\ deliverFrame => FeedInv'
<1> SUFFICES ASSUME FeedInv, deliverFrame PROVE FeedInv' OBVIOUS
<1>1. CASE feed = "started"
  BY <1>1, IncompleteDelivered, SnapshotDelivered, DeltaDelivered, StaleDelivered
<1>2. CASE feed # "started"
  <2>1. /\ wire # << >> /\ wire' = Tail(wire)
        /\ UNCHANGED <<feed, connected, subscribed, books, missed, m_books>>
    BY <1>2 DEF deliverFrame
  <2>2. \A s : contains(s)' = contains(s) BY <2>1 DEF contains
  <2>3. BookInv' BY <2>1, <2>2 DEF FeedInv, BookInv, RightAt, Quantity
  <2>4. WireInv' /\ FeedTypeOK' BY <2>1, DeliveredWire DEF FeedInv, FeedTypeOK
  <2> QED BY <1>2, <2>1, <2>3, <2>4 DEF FeedInv
<1> QED BY <1>1, <1>2

\* Every step of the exchange, the connection and the feed preserves the invariant.
LEMMA FeedNextKeeps == FeedInv /\ [FeedNext]_feedVars => FeedInv'
<1> SUFFICES ASSUME FeedInv, [FeedNext]_feedVars PROVE FeedInv' OBVIOUS
<1>1. CASE FeedNext
  BY <1>1, exchangeChangesKeeps, exchangeSnapshotKeeps, exchangeRepeatsKeeps, openKeeps, dropKeeps,
     startKeeps, stopKeeps, deliverKeeps DEF FeedNext
<1>2. CASE UNCHANGED feedVars
  <2>1. UNCHANGED <<m_books, feed, connected, subscribed, wire, books, missed>>
    BY <1>2 DEF feedVars, connection
  <2>2. \A s : contains(s)' = contains(s) BY <2>1 DEF contains
  <2>3. \A g : FrameIsTrue(books, g)' = FrameIsTrue(books, g) BY <2>1 DEF FrameIsTrue
  <2>4. FeedTypeOK' BY <2>1 DEF FeedInv, FeedTypeOK
  <2>5. WireInv' BY <2>1, <2>2, <2>3 DEF FeedInv, WireInv
  <2>6. BookInv' BY <2>1, <2>2 DEF FeedInv, BookInv, RightAt, Quantity
  <2>7. CoverInv => CoverInv' BY <2>1, <2>2 DEF CoverInv, Begins
  <2> QED BY <2>1, <2>4, <2>5, <2>6, <2>7 DEF FeedInv
<1> QED BY <1>1, <1>2

\* A book that lost no change shows, at every level it has, what the exchange offered there at
\* the number of the book: MarketFeed::onOrderbookUpdate with OrderBook::applySnapshot and
\* applyDelta, for all symbols, levels, gaps, repeats and dropped connections.
THEOREM BooksFollow == FeedSpec => []BooksFollowTheExchange
<1>1. FeedInv => BooksFollowTheExchange BY DEF FeedInv, BookInv, BooksFollowTheExchange
<1> QED BY InitFeed, FeedNextKeeps, <1>1, PTL DEF FeedSpec

-----------------------------------------------------------------------------
(* The ring of candles                                                     *)

\* The remainder is the one that division leaves.
LEMMA ModUnique ==
  ASSUME NEW n \in Nat \ {0}, NEW a \in Int, NEW q \in Int, NEW r \in 0 .. n - 1, a = q * n + r
  PROVE  a % n = r
  OBVIOUS
\* Division with remainder.
LEMMA DivMod ==
  ASSUME NEW n \in Nat \ {0}, NEW a \in Int
  PROVE  /\ a = (a \div n) * n + (a % n)
         /\ a % n \in 0 .. n - 1 
         /\ a \div n \in Int
  OBVIOUS
\* A remainder may be taken before an addition.
LEMMA ModAdd ==
  ASSUME NEW n \in Nat \ {0}, NEW a \in Int, NEW b \in Int
  PROVE  ((a % n) + b) % n = (a + b) % n
<1> DEFINE q == (a + b) \div n  r == (a + b) % n
<1>1. a + b = q * n + r /\ r \in 0 .. n - 1 /\ q \in Int  BY DivMod
<1>2. a = (a \div n) * n + (a % n) /\ a % n \in Int /\ a \div n \in Int BY DivMod
<1> HIDE DEF q, r
<1>3. (a % n) + b = (q - (a \div n)) * n + r BY <1>1, <1>2
<1>4. q - (a \div n) \in Int BY <1>1, <1>2
<1>5. (a % n) + b \in Int BY <1>2
<1>6. ((a % n) + b) % n = r BY <1>1, <1>3, <1>4, <1>5, ModUnique
<1> QED BY <1>6 DEF r
\* A whole turn of the ring changes no position.
LEMMA ModPlus ==
  ASSUME NEW n \in Nat \ {0}, NEW a \in Int
  PROVE  (a + n) % n = a % n
<1> DEFINE q == a \div n  r == a % n
<1>1. a = q * n + r /\ r \in 0 .. n - 1 /\ q \in Int  BY DivMod
<1> HIDE DEF q, r
<1>2. a + n = (q + 1) * n + r BY <1>1
<1>3. (a + n) % n = r BY <1>1, <1>2, ModUnique, q + 1 \in Int
<1> QED BY <1>3 DEF r
\* Numbers less than a turn apart have different positions.
LEMMA ModApart ==
  ASSUME NEW n \in Nat \ {0}, NEW a \in Int, NEW b \in Int, a < b, b < a + n
  PROVE  a % n # b % n
<1>1. a = (a \div n) * n + (a % n) /\ a % n \in Int /\ a \div n \in Int BY DivMod
<1>2. b = (b \div n) * n + (b % n) /\ b % n \in Int /\ b \div n \in Int BY DivMod
<1> DEFINE p == a \div n  q == b \div n
<1>3. SUFFICES ASSUME a % n = b % n PROVE FALSE OBVIOUS
<1>4. b - a = (q - p) * n BY <1>1, <1>2, <1>3
<1>5. p \in Int /\ q \in Int BY <1>1, <1>2
<1> HIDE DEF p, q
<1>6. CASE q - p <= 0 
  <2>1. (q-p)*n <= 0 BY <1>5, <1>6
  <2> QED BY <2>1, <1>4
<1>7. CASE q - p >= 1 
  <2>1. (q-p)*n >= n BY <1>5, <1>7
  <2> QED BY <2>1, <1>4
<1> QED BY <1>5, <1>6, <1>7

\* Pushes that have ended.
Pushed == m_seqlock \div 2

\* The candles of a ring after p pushes, and how many of them a snapshot of n has.
Held(p) == IF p < m_capacity THEN p ELSE m_capacity
Size(p, n) == IF n = 0 \/ n > Held(p) THEN Held(p) ELSE n

Halves == Nat \X Nat
\* Where a push and a snapshot can be.
WriterSteps == {"idle", "first", "second", "head", "count", "end"}
CopySteps == {"count", "locate", "head", "first", "second", "verify"}
ReaderSteps == {"idle", "begin", "returned"} \cup CopySteps

\* What a reader keeps of its snapshot.
Snapshots == [step : ReaderSteps, n : Nat, seq1 : Nat, logical : Int, left : Int,
              place : Int, first : Nat, result : Seq(Halves)]

\* The types of the buffer's variables.
BufferTypeOK ==
  /\ m_buffer \in [Positions -> Halves]
  /\ m_head \in Positions
  /\ m_count \in 0 .. m_capacity
  /\ m_seqlock \in Nat
  /\ writer \in WriterSteps
  /\ reader \in [Readers -> Snapshots]

\* The ring of a push under way: the oldest candle is given up with the first store.
WriterInv ==
  /\ writer = "idle" => m_seqlock = 2 * Pushed
  /\ writer # "idle" => m_seqlock = 2 * Pushed + 1
  /\ m_head = (IF writer \in {"count", "end"} THEN Pushed + 1 ELSE Pushed) % m_capacity
  /\ m_count = IF writer = "end" THEN Held(Pushed + 1) ELSE Held(Pushed)
  /\ \A k \in 1 .. Pushed :
       k > Pushed + 1 - m_capacity => m_buffer[(k - 1) % m_capacity] = <<k, k>>
  /\ writer \in {"idle", "first"} => \A k \in 1 .. Pushed :
       k > Pushed - m_capacity => m_buffer[(k - 1) % m_capacity] = <<k, k>>
  /\ writer \in {"second", "head", "count", "end"} => m_buffer[Pushed % m_capacity][1] = Pushed + 1
  /\ writer \in {"head", "count", "end"} => m_buffer[Pushed % m_capacity][2] = Pushed + 1

\* What a copy that is still valid has done: the candles before those that are left.
CopyIsValid(c) ==
  LET p    == c.seq1 \div 2
      size == Size(p, c.n)
      done == size - c.left
  IN  c.step # "count" =>
        /\ c.left \in 0 .. size /\ (c.step = "verify" <=> c.left = 0)
        /\ c.logical = Held(p) - c.left
        /\ Len(c.result) = done
        /\ \A i \in 1 .. done : c.result[i] = <<p - size + i, p - size + i>>
        /\ c.step = "head" => c.place = Held(p)
        /\ c.step \in {"first", "second"} => c.place = (p - c.left) % m_capacity
        /\ c.step = "second" => c.first = p - c.left + 1

\* A copy began with an even number, and while that is still the number it is valid.
CopyOK(c) ==
  /\ c.step \in {"begin", "count"} => c.result = << >>
  /\ c.step \in CopySteps =>
       /\ c.seq1 % 2 = 0
       /\ c.seq1 <= m_seqlock
       /\ c.step \in {"first", "second"} => c.place \in Positions
       /\ c.seq1 = m_seqlock => CopyIsValid(c)

\* What a snapshot that returned must contain.
Whole(c) ==
  c.step = "returned" =>
    LET window == Window(c.seq1 \div 2, c.n)
    IN  c.result = [i \in DOMAIN window |-> <<window[i], window[i]>>]

\* Every copy under way is as it should be.
CopiesAreValid == \A r \in Readers : CopyOK(reader[r])

\* The inductive invariant of the buffer.
BufferInv == BufferTypeOK /\ WriterInv /\ CopiesAreValid /\ SnapshotsAreConsistent

USE BufferAssumption

\* Halves of even and odd numbers.
LEMMA Halving ==
  ASSUME NEW a \in Nat
  PROVE  /\ a \div 2 \in Nat
         /\ a % 2 = 0 => a = 2 * (a \div 2)
         /\ a % 2 # 0 => a = 2 * (a \div 2) + 1
         /\ (2 * a) \div 2 = a /\ (2 * a + 1) \div 2 = a /\ (2 * a) % 2 = 0
         /\ (2 * a + 1) % 2 = 1
  OBVIOUS

\* A store to one half of a candle leaves the other.
LEMMA HalfStored ==
  ASSUME NEW t \in Halves, NEW v \in Nat
  PROVE  [t EXCEPT ![1] = v] = <<v, t[2]>> /\ [t EXCEPT ![2] = v] = <<t[1], v>>
<1> PICK a \in Nat, b \in Nat : t = <<a, b>> BY DEF Halves
<1>1. [<<a, b>> EXCEPT ![1] = v] = <<v, b>> OBVIOUS
<1>2. [<<a, b>> EXCEPT ![2] = v] = <<a, v>> OBVIOUS
<1> QED BY <1>1, <1>2

\* A store to one half of a slot gives the slot a pair.
LEMMA SlotStored ==
  ASSUME m_buffer \in [Positions -> Halves], NEW p \in Positions, NEW v \in Nat
  PROVE  /\ [m_buffer EXCEPT ![p][1] = v] = [m_buffer EXCEPT ![p] = <<v, m_buffer[p][2]>>]
         /\ [m_buffer EXCEPT ![p][2] = v] = [m_buffer EXCEPT ![p] = <<m_buffer[p][1], v>>]
<1>1. [m_buffer[p] EXCEPT ![1] = v] = <<v, m_buffer[p][2]>> BY HalfStored
<1>2. [m_buffer[p] EXCEPT ![2] = v] = <<m_buffer[p][1], v>> BY HalfStored
<1>3. [m_buffer EXCEPT ![p][1] = v] = [m_buffer EXCEPT ![p] = [m_buffer[p] EXCEPT ![1] = v]] OBVIOUS
<1>4. [m_buffer EXCEPT ![p][2] = v] = [m_buffer EXCEPT ![p] = [m_buffer[p] EXCEPT ![2] = v]] OBVIOUS
<1>5. [m_buffer EXCEPT ![p][1] = v] = [m_buffer EXCEPT ![p] = <<v, m_buffer[p][2]>>] BY <1>1, <1>3
<1>6. [m_buffer EXCEPT ![p][2] = v] = [m_buffer EXCEPT ![p] = <<m_buffer[p][1], v>>] BY <1>2, <1>4
<1> QED BY <1>5, <1>6

\* A candle is the pair of its halves.
LEMMA Pair ==
  ASSUME NEW t \in Halves
  PROVE  t = <<t[1], t[2]>> /\ t[1] \in Nat /\ t[2] \in Nat
  BY DEF Halves

\* An empty ring and readers at rest.
LEMMA InitBuffer == BufferInit => BufferInv
<1> SUFFICES ASSUME BufferInit PROVE BufferInv OBVIOUS
<1>1. Pushed = 0 BY DEF Pushed, BufferInit
<1>2. BufferTypeOK
  BY DEF BufferInit, BufferTypeOK, NoSnapshot, Positions, Halves, WriterSteps, ReaderSteps, Snapshots
<1>3. WriterInv
  BY <1>1, ModUnique DEF BufferInit, WriterInv, Held
<1>4. CopiesAreValid /\ SnapshotsAreConsistent
  BY DEF BufferInit, CopiesAreValid, CopyOK, SnapshotsAreConsistent, NoSnapshot, at, CopySteps
<1> QED BY <1>2, <1>3, <1>4 DEF BufferInv

\* A step of the writer leaves no copy valid, for the sequence number has moved on or is odd.
LEMMA WriterMoves ==
  ASSUME BufferInv, UNCHANGED reader, m_seqlock' \in Nat, m_seqlock <= m_seqlock',
         m_seqlock = m_seqlock' => m_seqlock % 2 = 1
  PROVE  CopiesAreValid' /\ SnapshotsAreConsistent'
<1>1. SnapshotsAreConsistent'
  BY DEF BufferInv, SnapshotsAreConsistent, at
<1>2. ASSUME NEW r \in Readers, reader[r].step \in CopySteps
      PROVE  reader[r].seq1 < m_seqlock' /\ reader[r].seq1 \in Nat
  BY <1>2 DEF BufferInv, BufferTypeOK, CopiesAreValid, CopyOK, Snapshots
<1>3. CopiesAreValid'
  BY <1>2 DEF BufferInv, CopiesAreValid, CopyOK
<1> QED BY <1>1, <1>3


\* The parity and the number of pushes of a sequence number.
LEMMA Parity ==
  ASSUME BufferInv
  PROVE  /\ Pushed \in Nat
         /\ m_seqlock % 2 = 0 <=> writer = "idle"
         /\ m_seqlock % 2 = 0 => m_seqlock = 2 * Pushed
         /\ m_seqlock = 2 * Pushed + 1 => m_seqlock % 2 = 1
  BY Halving DEF BufferInv, BufferTypeOK, WriterInv, Pushed

\* A push begins: the number becomes odd and no copy is valid.
LEMMA beginPushKeeps == BufferInv /\ beginPush => BufferInv'
<1> SUFFICES ASSUME BufferInv, beginPush PROVE BufferInv' OBVIOUS
<1>1. Pushed' = Pushed /\ m_seqlock' = 2 * Pushed + 1 /\ Pushed \in Nat
  BY Parity, Halving DEF beginPush, BufferInv, WriterInv, Pushed
<1>2. BufferTypeOK' BY DEF BufferInv, BufferTypeOK, beginPush, WriterSteps
<1>3. WriterInv' BY <1>1 DEF BufferInv, WriterInv, beginPush, Held
<1>4. CopiesAreValid' /\ SnapshotsAreConsistent'
  BY WriterMoves DEF beginPush, BufferInv, BufferTypeOK
<1> QED BY <1>2, <1>3, <1>4 DEF BufferInv

\* The slot that is written is not one of the candles the ring keeps.
LEMMA SlotIsFree ==
  ASSUME BufferInv, NEW k \in 1 .. Pushed, k > Pushed + 1 - m_capacity
  PROVE  (k - 1) % m_capacity # Pushed % m_capacity
<1>1. k - 1 < Pushed /\ Pushed < (k - 1) + m_capacity /\ k - 1 \in Int /\ Pushed \in Int
  BY Parity
<1> QED BY <1>1, ModApart

\* The first half is written to the free slot.
LEMMA writeFirstKeeps == BufferInv /\ writeFirst => BufferInv'
<1> SUFFICES ASSUME BufferInv, writeFirst PROVE BufferInv' OBVIOUS
<1>1. Pushed' = Pushed /\ Pushed \in Nat /\ NextCandle = Pushed + 1
  BY Parity DEF writeFirst, Pushed, NextCandle
<1>2. m_head = Pushed % m_capacity /\ m_head \in Positions
  BY DEF BufferInv, WriterInv, BufferTypeOK, writeFirst
<1>3. m_buffer[m_head] \in Halves BY <1>2 DEF BufferInv, BufferTypeOK
<1>4. m_buffer' = [m_buffer EXCEPT ![m_head] = <<Pushed + 1, m_buffer[m_head][2]>>]
  <2>1. m_buffer \in [Positions -> Halves] /\ Pushed + 1 \in Nat
    BY <1>1 DEF BufferInv, BufferTypeOK
  <2>2. m_buffer' = [m_buffer EXCEPT ![m_head][1] = Pushed + 1] BY <1>1 DEF writeFirst
  <2> QED BY <1>2, <2>1, <2>2, SlotStored
<1>5. BufferTypeOK'
  <2>1. <<Pushed + 1, m_buffer[m_head][2]>> \in Halves BY <1>1, <1>3, Pair DEF Halves
  <2>2. m_buffer' \in [Positions -> Halves]
    BY <1>4, <2>1 DEF BufferInv, BufferTypeOK
  <2> QED BY <2>2 DEF BufferInv, BufferTypeOK, writeFirst, WriterSteps
<1>6. ASSUME NEW k \in 1 .. Pushed, k > Pushed + 1 - m_capacity
      PROVE  m_buffer'[(k - 1) % m_capacity] = <<k, k>>
  <2>1. (k - 1) % m_capacity # m_head BY <1>2, <1>6, SlotIsFree
  <2>2. (k - 1) % m_capacity \in Positions BY DivMod DEF Positions
  <2>3. m_buffer[(k - 1) % m_capacity] = <<k, k>>
    BY <1>1, <1>6 DEF BufferInv, WriterInv, writeFirst
  <2> QED BY <1>4, <2>1, <2>2, <2>3 DEF BufferInv, BufferTypeOK
<1>7. WriterInv'
  <2>1. m_buffer'[Pushed % m_capacity][1] = Pushed + 1
    BY <1>2, <1>3, <1>4 DEF BufferInv, BufferTypeOK
  <2> QED BY <1>1, <1>6, <2>1 DEF BufferInv, WriterInv, writeFirst, Held
<1>8. CopiesAreValid' /\ SnapshotsAreConsistent'
  BY WriterMoves, Parity DEF writeFirst, BufferInv, BufferTypeOK
<1> QED BY <1>5, <1>7, <1>8 DEF BufferInv

\* The second half completes the candle.
LEMMA writeSecondKeeps == BufferInv /\ writeSecond => BufferInv'
<1> SUFFICES ASSUME BufferInv, writeSecond PROVE BufferInv' OBVIOUS
<1>1. Pushed' = Pushed /\ Pushed \in Nat /\ NextCandle = Pushed + 1
  BY Parity DEF writeSecond, Pushed, NextCandle
<1>2. m_head = Pushed % m_capacity /\ m_head \in Positions
  BY DEF BufferInv, WriterInv, BufferTypeOK, writeSecond
<1>3. m_buffer[m_head] \in Halves BY <1>2 DEF BufferInv, BufferTypeOK
<1>4. m_buffer' = [m_buffer EXCEPT ![m_head] = <<m_buffer[m_head][1], Pushed + 1>>]
  <2>1. m_buffer \in [Positions -> Halves] /\ Pushed + 1 \in Nat
    BY <1>1 DEF BufferInv, BufferTypeOK
  <2>2. m_buffer' = [m_buffer EXCEPT ![m_head][2] = Pushed + 1] BY <1>1 DEF writeSecond
  <2> QED BY <1>2, <2>1, <2>2, SlotStored
<1>5. BufferTypeOK'
  <2>1. <<m_buffer[m_head][1], Pushed + 1>> \in Halves BY <1>1, <1>3, Pair DEF Halves
  <2>2. m_buffer' \in [Positions -> Halves]
    BY <1>4, <2>1 DEF BufferInv, BufferTypeOK
  <2> QED BY <2>2 DEF BufferInv, BufferTypeOK, writeSecond, WriterSteps
<1>6. ASSUME NEW k \in 1 .. Pushed, k > Pushed + 1 - m_capacity
      PROVE  m_buffer'[(k - 1) % m_capacity] = <<k, k>>
  <2>1. (k - 1) % m_capacity # m_head BY <1>2, <1>6, SlotIsFree
  <2>2. (k - 1) % m_capacity \in Positions BY DivMod DEF Positions
  <2>3. m_buffer[(k - 1) % m_capacity] = <<k, k>>
    BY <1>1, <1>6 DEF BufferInv, WriterInv, writeSecond
  <2> QED BY <1>4, <2>1, <2>2, <2>3 DEF BufferInv, BufferTypeOK
<1>7. WriterInv'
  <2>1. m_buffer'[Pushed % m_capacity] = <<Pushed + 1, Pushed + 1>>
    BY <1>2, <1>3, <1>4 DEF BufferInv, BufferTypeOK, WriterInv, writeSecond
  <2> QED BY <1>1, <1>6, <2>1 DEF BufferInv, WriterInv, writeSecond, Held
<1>8. CopiesAreValid' /\ SnapshotsAreConsistent'
  BY WriterMoves, Parity DEF writeSecond, BufferInv, BufferTypeOK
<1> QED BY <1>5, <1>7, <1>8 DEF BufferInv

\* The head moves on, around the ring.
LEMMA advanceHeadKeeps == BufferInv /\ advanceHead => BufferInv'
<1> SUFFICES ASSUME BufferInv, advanceHead PROVE BufferInv' OBVIOUS
<1>1. Pushed' = Pushed /\ Pushed \in Nat
  BY Parity DEF advanceHead, Pushed
<1>2. m_head' = (Pushed + 1) % m_capacity
  <2>1. m_head' = ((Pushed % m_capacity) + 1) % m_capacity
    BY DEF advanceHead, BufferInv, WriterInv
  <2>2. \A a, b \in Int : ((a % m_capacity) + b) % m_capacity = (a + b) % m_capacity
    BY ModAdd
  <2>3. Pushed \in Int /\ 1 \in Int BY <1>1
  <2>4. ((Pushed % m_capacity) + 1) % m_capacity = (Pushed + 1) % m_capacity
    BY <2>2, <2>3, Zenon
  <2> QED BY <2>1, <2>4
<1>3. BufferTypeOK'
  BY <1>1, <1>2, DivMod DEF BufferInv, BufferTypeOK, advanceHead, WriterSteps, Positions
<1>4. WriterInv' BY <1>1, <1>2 DEF BufferInv, WriterInv, advanceHead, Held
<1>5. CopiesAreValid' /\ SnapshotsAreConsistent'
  BY WriterMoves, Parity DEF advanceHead, BufferInv, BufferTypeOK
<1> QED BY <1>3, <1>4, <1>5 DEF BufferInv

\* The count grows to the capacity.
LEMMA advanceCountKeeps == BufferInv /\ advanceCount => BufferInv'
<1> SUFFICES ASSUME BufferInv, advanceCount PROVE BufferInv' OBVIOUS
<1>1. Pushed' = Pushed /\ Pushed \in Nat
  BY Parity DEF advanceCount, Pushed
<1>2. m_count' = Held(Pushed + 1)
  BY <1>1 DEF advanceCount, BufferInv, WriterInv, Held
<1>3. BufferTypeOK'
  BY <1>1, <1>2 DEF BufferInv, BufferTypeOK, advanceCount, WriterSteps, Held
<1>4. WriterInv' BY <1>1, <1>2 DEF BufferInv, WriterInv, advanceCount
<1>5. CopiesAreValid' /\ SnapshotsAreConsistent'
  BY WriterMoves, Parity DEF advanceCount, BufferInv, BufferTypeOK
<1> QED BY <1>3, <1>4, <1>5 DEF BufferInv

\* The push ends: the number is even, and the candle is one of those kept.
LEMMA endPushKeeps == BufferInv /\ endPush => BufferInv'
<1> SUFFICES ASSUME BufferInv, endPush PROVE BufferInv' OBVIOUS
<1>1. Pushed \in Nat /\ m_seqlock = 2 * Pushed + 1
  BY Parity DEF endPush, BufferInv, WriterInv
<1>2. m_seqlock' = 2 * (Pushed + 1) /\ Pushed' = Pushed + 1
  BY <1>1, Halving DEF endPush, Pushed
<1>3. BufferTypeOK'
  BY <1>1, <1>2 DEF BufferInv, BufferTypeOK, endPush, WriterSteps
<1>4. ASSUME NEW k \in 1 .. Pushed + 1, k > Pushed + 1 - m_capacity
      PROVE  m_buffer[(k - 1) % m_capacity] = <<k, k>>
  <2>1. CASE k \in 1 .. Pushed
    <3>1. \A j \in 1 .. Pushed :
            j > Pushed + 1 - m_capacity => m_buffer[(j - 1) % m_capacity] = <<j, j>>
      BY DEF BufferInv, WriterInv, endPush
    <3> QED BY <1>4, <2>1, <3>1
  <2>2. CASE k = Pushed + 1
    <3>1. m_buffer[Pushed % m_capacity] \in Halves
      BY <1>1, DivMod DEF BufferInv, BufferTypeOK, Positions
    <3>2. m_buffer[Pushed % m_capacity] = <<Pushed + 1, Pushed + 1>>
      BY <3>1, Pair DEF BufferInv, WriterInv, endPush
    <3>3. k - 1 = Pushed BY <1>1, <2>2
    <3>4. m_buffer[(k - 1) % m_capacity] = m_buffer[Pushed % m_capacity] BY <3>3, Zenon
    <3>5. <<Pushed + 1, Pushed + 1>> = <<k, k>> BY <2>2
    <3> QED BY <3>2, <3>4, <3>5, Zenon
  <2> QED BY <1>1, <2>1, <2>2
<1>5. WriterInv'
  <2>1. m_head = (Pushed + 1) % m_capacity /\ m_count = Held(Pushed + 1) /\ writer' = "idle"
    BY DEF BufferInv, WriterInv, endPush
  <2>2. m_head' = Pushed' % m_capacity /\ m_count' = Held(Pushed')
    BY <1>2, <2>1 DEF endPush
  <2>3. \A k \in 1 .. Pushed' :
          k > Pushed' - m_capacity => m_buffer'[(k - 1) % m_capacity] = <<k, k>>
    <3>1. m_buffer' = m_buffer /\ Pushed' = Pushed + 1 BY <1>2 DEF endPush
    <3>2. \A k \in 1 .. Pushed + 1 :
            k > Pushed + 1 - m_capacity => m_buffer[(k - 1) % m_capacity] = <<k, k>>
      BY <1>4
    <3>3. TAKE k \in 1 .. Pushed'
    <3>4. k \in 1 .. Pushed + 1 BY <3>1
    <3>5. k > Pushed' - m_capacity => k > Pushed + 1 - m_capacity BY <1>1, <3>1, <3>4
    <3>6. m_buffer'[(k - 1) % m_capacity] = m_buffer[(k - 1) % m_capacity] BY <3>1
    <3> QED BY <3>2, <3>4, <3>5, <3>6
  <2>4. Held(Pushed)' = Held(Pushed') BY DEF Held
  <2> QED BY <1>2, <2>1, <2>2, <2>3, <2>4 DEF WriterInv
<1>6. CopiesAreValid' /\ SnapshotsAreConsistent'
  BY <1>1, <1>2, WriterMoves DEF endPush, BufferInv, BufferTypeOK
<1> QED BY <1>3, <1>5, <1>6 DEF BufferInv

\* A step of a reader changes its own snapshot only.
LEMMA ReaderMoves ==
  ASSUME BufferInv, NEW r \in Readers, NEW next \in Snapshots, goes(r, next),
         CopyOK(next), Whole(next)
  PROVE  BufferInv'
<1>1. BufferTypeOK' BY DEF BufferInv, BufferTypeOK, goes, shared
<1>2. WriterInv' BY DEF BufferInv, WriterInv, goes, shared, Pushed, Held
<1>3. reader' = [reader EXCEPT ![r] = next] /\ m_seqlock' = m_seqlock BY DEF goes, shared
<1>4. \A q \in Readers : reader'[q] = IF q = r THEN next ELSE reader[q]
  BY <1>3 DEF BufferInv, BufferTypeOK
<1>5. \A c : CopyOK(c) => CopyOK(c)' BY <1>3 DEF CopyOK, CopyIsValid, Held, Size
<1>6. CopiesAreValid' BY <1>4, <1>5 DEF BufferInv, CopiesAreValid
<1>7. SnapshotsAreConsistent'
  BY <1>4 DEF BufferInv, SnapshotsAreConsistent, at, Whole
<1> QED BY <1>1, <1>2, <1>6, <1>7 DEF BufferInv

\* While a copy is valid no push is under way, and the ring is that of its pushes.
LEMMA ValidCopy ==
  ASSUME BufferInv, NEW r \in Readers, reader[r].step \in CopySteps, reader[r].seq1 = m_seqlock
  PROVE  /\ reader[r].seq1 \div 2 = Pushed
         /\ Pushed \in Nat
         /\ writer = "idle"
         /\ m_head = Pushed % m_capacity
         /\ m_count = Held(Pushed)
         /\ \A k \in 1 .. Pushed : k > Pushed - m_capacity
              => m_buffer[(k - 1) % m_capacity] = <<k, k>>
         /\ CopyIsValid(reader[r])
<1>1. reader[r].seq1 % 2 = 0 /\ CopyIsValid(reader[r]) BY DEF BufferInv, CopiesAreValid, CopyOK
<1>2. writer = "idle" /\ Pushed \in Nat BY <1>1, Parity
<1>3. m_head = Pushed % m_capacity /\ m_count = Held(Pushed) BY <1>2 DEF BufferInv, WriterInv
<1>4. \A k \in 1 .. Pushed : k > Pushed - m_capacity => m_buffer[(k - 1) % m_capacity] = <<k, k>>
  BY <1>2 DEF BufferInv, WriterInv
<1> QED BY <1>1, <1>2, <1>3, <1>4 DEF Pushed

\* The candle a valid copy reads is still in its slot.
LEMMA CandleIsKept ==
  ASSUME BufferInv, NEW r \in Readers, reader[r].step \in {"first", "second"},
         reader[r].seq1 = m_seqlock
  PROVE  /\ m_buffer[reader[r].place][1] = Pushed - reader[r].left + 1
         /\ m_buffer[reader[r].place][2] = Pushed - reader[r].left + 1
<1> DEFINE p == Pushed  left == reader[r].left  k == p - left + 1
<1>1. /\ reader[r].seq1 \div 2 = p /\ p \in Nat /\ CopyIsValid(reader[r])
      /\ \A j \in 1 .. p : j > p - m_capacity => m_buffer[(j - 1) % m_capacity] = <<j, j>>
  BY ValidCopy DEF CopySteps
<1>2. /\ reader[r].place = (p - left) % m_capacity /\ left \in 0 .. Size(p, reader[r].n)
      /\ left # 0
  BY <1>1 DEF CopyIsValid
<1>3. reader[r].n \in Nat /\ left \in Int BY DEF BufferInv, BufferTypeOK, Snapshots
<1> HIDE DEF p, left
<1>4. left <= p /\ left <= m_capacity BY <1>1, <1>2, <1>3 DEF Size, Held
<1>5. k \in 1 .. p /\ k > p - m_capacity /\ k - 1 = p - left BY <1>1, <1>2, <1>3, <1>4
<1>6. m_buffer[(k - 1) % m_capacity] = <<k, k>> BY <1>1, <1>5
<1>7. m_buffer[reader[r].place] = <<k, k>> BY <1>2, <1>5, <1>6, Zenon
<1> QED BY <1>7 DEF p, left

\* A snapshot begins with nothing copied.
LEMMA snapshotKeeps ==
  ASSUME BufferInv, NEW r \in Readers, NEW n \in 0 .. m_capacity, snapshot(r, n)
  PROVE  BufferInv'
<1> DEFINE next == [NoSnapshot EXCEPT !.step = "begin", !.n = n]
<1>1. NoSnapshot \in Snapshots BY DEF Snapshots, NoSnapshot, ReaderSteps
<1>2. next \in Snapshots /\ next.step = "begin" /\ next.result = << >>
  <2>1. n \in Nat OBVIOUS
  <2>2. next.step = "begin" /\ next.result = << >> BY DEF NoSnapshot
  <2>3. next \in Snapshots BY <1>1, <2>1 DEF Snapshots, ReaderSteps
  <2> QED BY <2>2, <2>3
<1>3. goes(r, next) BY DEF snapshot
<1>4. CopyOK(next) /\ Whole(next) BY <1>2 DEF CopyOK, Whole, CopySteps
<1> HIDE DEF next
<1> QED BY <1>2, <1>3, <1>4, ReaderMoves

\* It notes an even number.
LEMMA readSeqlockKeeps ==
  ASSUME BufferInv, NEW r \in Readers, readSeqlock(r)
  PROVE  BufferInv'
<1> DEFINE next == [reader[r] EXCEPT !.step = "count", !.seq1 = m_seqlock]
<1>1. reader[r] \in Snapshots /\ m_seqlock \in Nat BY DEF BufferInv, BufferTypeOK
<1>2. /\ next \in Snapshots /\ next.step = "count" /\ next.seq1 = m_seqlock
      /\ next.result = reader[r].result
  BY <1>1 DEF Snapshots, ReaderSteps, CopySteps
<1>3. goes(r, next) /\ m_seqlock % 2 = 0 /\ reader[r].result = << >>
  BY DEF readSeqlock, at, BufferInv, CopiesAreValid, CopyOK
<1>4. CopyOK(next) /\ Whole(next) BY <1>1, <1>2, <1>3 DEF CopyOK, CopyIsValid, Whole, CopySteps
<1> HIDE DEF next
<1> QED BY <1>2, <1>3, <1>4, ReaderMoves

\* It finds how many candles there are, and returns when there is none.
LEMMA readCountKeeps ==
  ASSUME BufferInv, NEW r \in Readers, readCount(r)
  PROVE  BufferInv'
<1> DEFINE n    == reader[r].n
           num  == IF n = 0 \/ n > m_count THEN m_count ELSE n
           next == [reader[r] EXCEPT !.step = IF m_count = 0 THEN "returned" ELSE "locate",
                                     !.logical = m_count - num, !.left = num]
<1>1. /\ reader[r] \in Snapshots /\ m_seqlock \in Nat /\ m_count \in Nat /\ n \in Nat
      /\ num \in Nat
  BY DEF BufferInv, BufferTypeOK, Snapshots
<1> HIDE DEF num
<1>2. /\ next \in Snapshots /\ next.step = (IF m_count = 0 THEN "returned" ELSE "locate")
      /\ next.seq1 = reader[r].seq1 /\ next.n = n /\ next.left = num
      /\ next.logical = m_count - num /\ next.result = reader[r].result
  <2>1. /\ (IF m_count = 0 THEN "returned" ELSE "locate") \in ReaderSteps
        /\ m_count - num \in Int /\ num \in Int
    BY <1>1 DEF ReaderSteps, CopySteps
  <2> QED BY <1>1, <2>1 DEF Snapshots
<1>3. goes(r, next) /\ at(r, "count") BY DEF readCount, num
<1>4. /\ reader[r].result = << >> /\ reader[r].seq1 % 2 = 0 /\ reader[r].seq1 <= m_seqlock
      /\ reader[r].seq1 \in Nat
  BY <1>1, <1>3 DEF at, BufferInv, CopiesAreValid, CopyOK, CopySteps, Snapshots
<1>5. ASSUME m_count # 0, reader[r].seq1 = m_seqlock PROVE CopyIsValid(next)
  <2>1. reader[r].seq1 \div 2 = Pushed /\ m_count = Held(Pushed) /\ Pushed \in Nat
    BY <1>3, <1>5, ValidCopy DEF at, CopySteps
  <2>2. num = Size(Pushed, n) BY <2>1 DEF Size, num
  <2>3. num > 0 BY <1>1, <1>5 DEF num
  <2> HIDE DEF n
  <2> QED BY <1>1, <1>2, <1>4, <1>5, <2>1, <2>2, <2>3 DEF CopyIsValid
<1>6. ASSUME m_count = 0 PROVE Whole(next)
  <2>1. reader[r].seq1 = 0
    <3>1. Pushed \in Nat /\ (writer = "end" => Held(Pushed + 1) = 0) /\ (writer # "end" => Held(Pushed) = 0)
      BY <1>6, Parity DEF BufferInv, WriterInv
    <3>2. Pushed = 0 BY <3>1 DEF Held
    <3>3. m_seqlock \in 0 .. 1 BY <1>1, <3>2 DEF Pushed
    <3> QED BY <1>4, <3>3
  <2>2. Held(0) = 0 /\ 0 \div 2 = 0 BY DEF Held
  <2>3. Window(0, n) = << >> BY <1>1 DEF Window
  <2> QED BY <1>2, <1>4, <2>1, <2>2, <2>3 DEF Whole
<1> HIDE DEF next
<1>7. CopyOK(next) /\ Whole(next)
  BY <1>2, <1>4, <1>5, <1>6 DEF CopyOK, Whole, CopySteps
<1> QED BY <1>2, <1>3, <1>7, ReaderMoves

\* It loads the count for the position.
LEMMA locateCountKeeps ==
  ASSUME BufferInv, NEW r \in Readers, locateCount(r)
  PROVE  BufferInv'
<1> DEFINE next == [reader[r] EXCEPT !.step = "head", !.place = m_count]
<1>1. reader[r] \in Snapshots /\ m_count \in Int /\ "head" \in ReaderSteps
  BY DEF BufferInv, BufferTypeOK, ReaderSteps, CopySteps
<1>2. /\ next \in Snapshots /\ next.step = "head" /\ next.place = m_count
      /\ next.seq1 = reader[r].seq1 /\ next.n = reader[r].n /\ next.left = reader[r].left
      /\ next.logical = reader[r].logical /\ next.result = reader[r].result
  BY <1>1 DEF Snapshots
<1>3. goes(r, next) /\ reader[r].step = "locate" BY DEF locateCount, at
<1>4. reader[r].seq1 % 2 = 0 /\ reader[r].seq1 <= m_seqlock
  BY <1>3 DEF BufferInv, CopiesAreValid, CopyOK, CopySteps
<1>5. ASSUME reader[r].seq1 = m_seqlock PROVE CopyIsValid(next)
  <2>1. /\ reader[r].seq1 \div 2 = Pushed /\ m_count = Held(Pushed) /\ Pushed \in Nat
        /\ CopyIsValid(reader[r])
    BY <1>3, <1>5, ValidCopy DEF CopySteps
  <2> HIDE DEF next
  <2> QED BY <1>2, <1>3, <2>1 DEF CopyIsValid
<1>6. CopyOK(next) /\ Whole(next) BY <1>2, <1>4, <1>5 DEF CopyOK, Whole, CopySteps
<1> HIDE DEF next
<1> QED BY <1>2, <1>3, <1>6, ReaderMoves

\* It computes the position of the next candle.
LEMMA locateHeadKeeps ==
  ASSUME BufferInv, NEW r \in Readers, locateHead(r)
  PROVE  BufferInv'
<1> DEFINE place == logicalToPhysical(m_head, reader[r].place, reader[r].logical)
           next  == [reader[r] EXCEPT !.step = "first", !.place = place]
<1>1. reader[r] \in Snapshots /\ m_head \in Nat
  BY DEF BufferInv, BufferTypeOK, Positions
<1>2. place \in Positions /\ place \in Int
  <2>1. reader[r].place \in Int /\ reader[r].logical \in Int BY <1>1 DEF Snapshots
  <2> DEFINE inner == (m_head + m_capacity - reader[r].place) % m_capacity
  <2>2. m_head + m_capacity - reader[r].place \in Int BY <1>1, <2>1
  <2>3. inner \in Int BY <2>2, DivMod
  <2>4. place = (inner + reader[r].logical) % m_capacity BY DEF logicalToPhysical
  <2> HIDE DEF inner, place
  <2>5. inner + reader[r].logical \in Int BY <2>1, <2>3
  <2>6. (inner + reader[r].logical) % m_capacity \in 0 .. m_capacity - 1 BY <2>5, DivMod
  <2> QED BY <2>4, <2>6 DEF Positions
<1>3. goes(r, next) /\ reader[r].step = "head" BY DEF locateHead, at
<1> HIDE DEF place
<1>4. /\ next \in Snapshots /\ next.step = "first" /\ next.place = place
      /\ next.seq1 = reader[r].seq1 /\ next.n = reader[r].n /\ next.left = reader[r].left
      /\ next.logical = reader[r].logical /\ next.result = reader[r].result
  BY <1>1, <1>2 DEF Snapshots, ReaderSteps, CopySteps
<1>5. reader[r].seq1 % 2 = 0 /\ reader[r].seq1 <= m_seqlock
  BY <1>3 DEF BufferInv, CopiesAreValid, CopyOK, CopySteps
<1>6. ASSUME reader[r].seq1 = m_seqlock PROVE CopyIsValid(next)
  <2> DEFINE p == Pushed  left == reader[r].left  held == Held(Pushed)
  <2>1. /\ reader[r].seq1 \div 2 = p /\ m_head = p % m_capacity /\ p \in Nat
        /\ CopyIsValid(reader[r])
    BY <1>3, <1>6, ValidCopy DEF CopySteps
  <2>2. reader[r].place = held /\ reader[r].logical = held - left
    BY <1>3, <2>1 DEF CopyIsValid
  <2>3. left \in Int /\ held \in Nat BY <1>1, <2>1 DEF Snapshots, Held
  <2> DEFINE gap == m_capacity - held  rest == held - left
  <2> HIDE DEF p, left, held
  <2>4. gap \in Int /\ rest \in Int /\ p \in Int /\ p + gap \in Int /\ p - left \in Int BY <2>1, <2>3
  <2>5. m_head + m_capacity - held = (p % m_capacity) + gap
    BY <1>1, <2>1, <2>3
  <2>6. place = ((((p % m_capacity) + gap) % m_capacity) + rest) % m_capacity
    BY <2>2, <2>5 DEF place, logicalToPhysical
  <2>7. (p + gap) + rest = (p - left) + m_capacity BY <2>1, <2>3
  <2> HIDE DEF gap, rest
  <2>8. ((p % m_capacity) + gap) % m_capacity = (p + gap) % m_capacity
    BY <2>4, ModAdd
  <2>9. (((p + gap) % m_capacity) + rest) % m_capacity = ((p + gap) + rest) % m_capacity
    BY <2>4, ModAdd
  <2>10. ((p - left) + m_capacity) % m_capacity = (p - left) % m_capacity
    BY <2>4, ModPlus
  <2>11. place = (p - left) % m_capacity BY <2>6, <2>7, <2>8, <2>9, <2>10
  <2> HIDE DEF next
  <2> QED BY <1>3, <1>4, <2>1, <2>11 DEF CopyIsValid, left
<1>7. CopyOK(next) /\ Whole(next) BY <1>2, <1>4, <1>5, <1>6 DEF CopyOK, Whole, CopySteps
<1> HIDE DEF next
<1> QED BY <1>3, <1>4, <1>7, ReaderMoves

\* It reads the first half, valid while the number has not moved.
LEMMA readFirstKeeps ==
  ASSUME BufferInv, NEW r \in Readers, readFirst(r)
  PROVE  BufferInv'
<1> DEFINE first == m_buffer[reader[r].place][1]
           next  == [reader[r] EXCEPT !.step = "second", !.first = first]
<1>1. reader[r] \in Snapshots /\ "second" \in ReaderSteps
  BY DEF BufferInv, BufferTypeOK, ReaderSteps, CopySteps
<1>2. goes(r, next) /\ reader[r].step = "first" BY DEF readFirst, at
<1>3. /\ reader[r].seq1 % 2 = 0 /\ reader[r].seq1 <= m_seqlock
      /\ reader[r].place \in Positions
  BY <1>2 DEF BufferInv, CopiesAreValid, CopyOK, CopySteps
<1>4. first \in Nat BY <1>3, Pair DEF BufferInv, BufferTypeOK
<1>5. ASSUME reader[r].seq1 = m_seqlock PROVE CopyIsValid(next)
  <2>1. /\ reader[r].seq1 \div 2 = Pushed /\ CopyIsValid(reader[r])
        /\ first = Pushed - reader[r].left + 1
    BY <1>2, <1>5, ValidCopy, CandleIsKept DEF CopySteps
  <2> HIDE DEF first
  <2>2. /\ next.step = "second" /\ next.first = first /\ next.place = reader[r].place
        /\ next.seq1 = reader[r].seq1 /\ next.n = reader[r].n /\ next.left = reader[r].left
        /\ next.logical = reader[r].logical /\ next.result = reader[r].result
    BY <1>1 DEF Snapshots
  <2> HIDE DEF next
  <2> QED BY <1>2, <2>1, <2>2 DEF CopyIsValid
<1> HIDE DEF first
<1>6. /\ next \in Snapshots /\ next.step = "second" /\ next.place = reader[r].place
      /\ next.seq1 = reader[r].seq1
  BY <1>1, <1>4 DEF Snapshots
<1> HIDE DEF next
<1>7. CopyOK(next) /\ Whole(next) BY <1>3, <1>5, <1>6 DEF CopyOK, Whole, CopySteps
<1> QED BY <1>2, <1>6, <1>7, ReaderMoves

\* The second half completes the copy of a candle.
LEMMA readSecondKeeps ==
  ASSUME BufferInv, NEW r \in Readers, readSecond(r)
  PROVE  BufferInv'
<1> DEFINE c      == reader[r]
           second == m_buffer[c.place][2]
           step   == IF c.left = 1 THEN "verify" ELSE "locate"
           result == Append(c.result, <<c.first, second>>)
           next   == [c EXCEPT !.step = step, !.logical = @ + 1, !.left = @ - 1,
                               !.result = result]
<1>1. c \in Snapshots /\ step \in ReaderSteps
  BY DEF BufferInv, BufferTypeOK, ReaderSteps, CopySteps
<1>2. goes(r, next) /\ c.step = "second" BY DEF readSecond, at
<1>3. c.seq1 % 2 = 0 /\ c.seq1 <= m_seqlock /\ c.place \in Positions
  BY <1>2 DEF BufferInv, CopiesAreValid, CopyOK, CopySteps
<1>4. second \in Nat BY <1>3, Pair DEF BufferInv, BufferTypeOK
<1>5. ASSUME c.seq1 = m_seqlock
      PROVE  /\ c.seq1 \div 2 = Pushed /\ CopyIsValid(c) /\ Pushed \in Nat
             /\ c.first = Pushed - c.left + 1 /\ second = Pushed - c.left + 1
  BY <1>2, <1>5, ValidCopy, CandleIsKept DEF CopySteps, CopyIsValid
<1>6. c.first \in Nat /\ c.result \in Seq(Halves) /\ c.left \in Int /\ c.logical \in Int
  BY <1>1 DEF Snapshots
<1> HIDE DEF c, second
<1>7. /\ result \in Seq(Halves) /\ Len(result) = Len(c.result) + 1
      /\ result[Len(c.result) + 1] = <<c.first, second>>
      /\ \A i \in 1 .. Len(c.result) : result[i] = c.result[i]
  BY <1>4, <1>6 DEF Halves
<1> HIDE DEF result, step
<1>8. /\ next \in Snapshots /\ next.step = step /\ next.result = result
      /\ next.seq1 = c.seq1 /\ next.n = c.n /\ next.left = c.left - 1
      /\ next.logical = c.logical + 1
  <2>1. c.left - 1 \in Int /\ c.logical + 1 \in Int BY <1>6
  <2> QED BY <1>1, <1>7, <2>1 DEF Snapshots
<1> HIDE DEF next
<1>9. ASSUME c.seq1 = m_seqlock PROVE CopyIsValid(next)
  <2> DEFINE p == Pushed  size == Size(p, c.n)  done == size - c.left
  <2>1. /\ c.left \in 0 .. size /\ c.left # 0 /\ c.logical = Held(p) - c.left
        /\ Len(c.result) = done /\ p \in Nat
        /\ \A i \in 1 .. done : c.result[i] = <<p - size + i, p - size + i>>
    BY <1>2, <1>5, <1>9 DEF CopyIsValid
  <2>2. size \in Nat /\ Held(p) \in Nat
    BY <1>1, <2>1 DEF Size, Held, Snapshots, c
  <2>3. p - size + (done + 1) = p - c.left + 1 BY <1>6, <2>1, <2>2
  <2> HIDE DEF p, size
  <2>4. ASSUME NEW i \in 1 .. done + 1 PROVE result[i] = <<p - size + i, p - size + i>>
    <3>1. CASE i = done + 1
      <4>1. result[i] = <<c.first, second>> BY <1>7, <2>1, <3>1
      <4>2. c.first = p - size + i /\ second = p - size + i
        BY <1>5, <1>9, <2>3, <3>1 DEF p
      <4> QED BY <4>1, <4>2
    <3>2. CASE i # done + 1
      <4>1. done \in Nat BY <1>6, <2>1, <2>2
      <4> HIDE DEF done
      <4>2. i \in 1 .. done BY <2>4, <3>2, <4>1
      <4> QED BY <1>7, <2>1, <4>2
    <3> QED BY <3>1, <3>2
  <2>5. size - (c.left - 1) = done + 1 BY <1>6, <2>2
  <2>6. Len(result) = size - (c.left - 1) BY <1>7, <2>1, <2>5
  <2>7. \A i \in 1 .. size - (c.left - 1) : result[i] = <<p - size + i, p - size + i>>
    BY <2>4, <2>5
  <2>8. /\ next.left \in 0 .. size /\ (next.step = "verify" <=> next.left = 0)
        /\ next.logical = Held(p) - next.left /\ next.step \in {"verify", "locate"}
    <3>1. next.left \in 0 .. size /\ next.logical = Held(p) - next.left
      BY <1>6, <1>8, <2>1, <2>2
    <3>2. next.step = (IF c.left = 1 THEN "verify" ELSE "locate") /\ (next.left = 0 <=> c.left = 1)
      BY <1>6, <1>8 DEF step
    <3> QED BY <3>1, <3>2
  <2>9. next.seq1 \div 2 = p /\ Size(p, next.n) = size BY <1>5, <1>8, <1>9 DEF p, size
  <2> QED BY <1>8, <2>6, <2>7, <2>8, <2>9 DEF CopyIsValid
<1>10. CopyOK(next) /\ Whole(next)
  <2>1. next.step \in {"verify", "locate"} BY <1>8 DEF step
  <2> QED BY <1>3, <1>8, <1>9, <2>1 DEF CopyOK, Whole, CopySteps
<1> QED BY <1>2, <1>8, <1>10, ReaderMoves DEF c

\* An unchanged number makes the copy the snapshot; another begins it again.
LEMMA verifyKeeps ==
  ASSUME BufferInv, NEW r \in Readers, verify(r)
  PROVE  BufferInv'
<1> DEFINE c == reader[r]
<1>1. c \in Snapshots /\ c.step = "verify" BY DEF BufferInv, BufferTypeOK, verify, at
<1>2. CASE Unmoved(r)
  <2> DEFINE next == [c EXCEPT !.step = "returned"]
  <2>1. goes(r, next) BY <1>2 DEF verify
  <2>2. /\ c.seq1 \div 2 = Pushed /\ CopyIsValid(c) /\ Pushed \in Nat
    BY <1>1, <1>2, ValidCopy DEF CopySteps, Unmoved
  <2>3. /\ next \in Snapshots /\ next.step = "returned" /\ next.result = c.result
        /\ next.seq1 = c.seq1 /\ next.n = c.n
    BY <1>1 DEF Snapshots, ReaderSteps
  <2> DEFINE p == Pushed  size == Size(p, c.n)
  <2>4. /\ Len(c.result) = size /\ size \in Nat
        /\ \A i \in 1 .. size : c.result[i] = <<p - size + i, p - size + i>>
    <3>1. size \in Nat BY <1>1, <2>2 DEF Size, Held, Snapshots
    <3>2. c.left = 0 /\ size - 0 = size BY <1>1, <2>2, <3>1 DEF CopyIsValid
    <3> QED BY <1>1, <2>2, <3>1, <3>2 DEF CopyIsValid
  <2>5. Window(p, c.n) = [i \in 1 .. size |-> p - size + i] BY DEF Window, Size, Held
  <2>6. c.result = [i \in 1 .. size |-> c.result[i]] BY <1>1, <2>4 DEF Snapshots
  <2> HIDE DEF next, p, size, c
  <2>7. c.result = [i \in DOMAIN Window(p, c.n) |-> <<Window(p, c.n)[i], Window(p, c.n)[i]>>]
    BY <2>4, <2>5, <2>6
  <2>8. CopyOK(next) /\ Whole(next) BY <2>2, <2>3, <2>7 DEF CopyOK, Whole, CopySteps, p
  <2> QED BY <2>1, <2>3, <2>8, ReaderMoves
<1>3. CASE ~ Unmoved(r)
  <2> DEFINE next == [NoSnapshot EXCEPT !.step = "begin", !.n = c.n]
  <2>1. goes(r, next) BY <1>3 DEF verify
  <2>2. NoSnapshot \in Snapshots BY DEF Snapshots, NoSnapshot, ReaderSteps
  <2>3. c.n \in Nat BY <1>1 DEF Snapshots
  <2>4. next.step = "begin" /\ next.result = << >> BY DEF NoSnapshot
  <2>5. next \in Snapshots BY <2>2, <2>3 DEF Snapshots, ReaderSteps
  <2>6. CopyOK(next) /\ Whole(next) BY <2>4 DEF CopyOK, Whole, CopySteps
  <2> HIDE DEF next
  <2> QED BY <2>1, <2>5, <2>6, ReaderMoves
<1> QED BY <1>2, <1>3

\* Every step of the writer and of every reader preserves the invariant.
LEMMA BufferNextKeeps == BufferInv /\ [BufferNext]_bufferVars => BufferInv'
<1> SUFFICES ASSUME BufferInv, [BufferNext]_bufferVars PROVE BufferInv' OBVIOUS
<1>1. CASE beginPush BY <1>1, beginPushKeeps
<1>2. CASE finishPush
  BY <1>2, writeFirstKeeps, writeSecondKeeps, advanceHeadKeeps, advanceCountKeeps, endPushKeeps
     DEF finishPush
<1>3. CASE \E r \in Readers, n \in 0 .. m_capacity : snapshot(r, n) BY <1>3, snapshotKeeps
<1>4. CASE \E r \in Readers : continueSnapshot(r)
  BY <1>4, readSeqlockKeeps, readCountKeeps, locateCountKeeps, locateHeadKeeps, readFirstKeeps,
     readSecondKeeps, verifyKeeps DEF continueSnapshot
<1>5. CASE UNCHANGED bufferVars
  <2> USE <1>5 DEF bufferVars, shared
  <2>1. BufferTypeOK' BY DEF BufferInv, BufferTypeOK
  <2>2. WriterInv' BY DEF BufferInv, WriterInv, Pushed, Held
  <2>3. \A c : CopyOK(c) => CopyOK(c)' BY DEF CopyOK, CopyIsValid, Held, Size
  <2>4. CopiesAreValid' BY <2>3 DEF BufferInv, CopiesAreValid
  <2>5. SnapshotsAreConsistent' BY DEF BufferInv, SnapshotsAreConsistent, at
  <2> QED BY <2>1, <2>2, <2>4, <2>5 DEF BufferInv
<1> QED BY <1>1, <1>2, <1>3, <1>4, <1>5 DEF BufferNext

\* A snapshot of the ring is untorn, complete and in order, of the moment its first load of the
\* sequence number saw: KlineBuffer::snapshot against KlineBuffer::push, for every capacity,
\* any number of readers and any number of wrap-arounds.
THEOREM BufferIsConsistent == BufferSpec => []SnapshotsAreConsistent
<1>1. BufferInv => SnapshotsAreConsistent BY DEF BufferInv
<1> QED BY InitBuffer, BufferNextKeeps, <1>1, PTL DEF BufferSpec

-----------------------------------------------------------------------------
(* The dashboard                                                           *)

Pushing == {"cache", "count", "send"}

\* Nobody has got, is sent or has cached a snapshot later than the latest.
NumbersOK ==
  /\ m_latestSnapshot \in Nat /\ m_lastJson \in Nat
  /\ "number" \in DOMAIN snap /\ snap.number = m_latestSnapshot
  /\ poll # "cache" => m_lastJson = m_latestSnapshot
  /\ m_lastJson <= m_latestSnapshot
  /\ received \in [Clients -> Nat] /\ newest \in [Clients -> Nat]
  /\ \A c \in Clients : received[c] <= newest[c] /\ newest[c] <= m_latestSnapshot
  /\ deferred \in Seq(Nat)
  /\ \A i \in DOMAIN deferred : deferred[i] <= m_latestSnapshot

\* Clients are counted, and served by a loop that runs.
ClientsOK ==
  /\ browsers \subseteq Clients /\ IsFiniteSet(browsers)
  /\ m_clientCount = Cardinality(browsers)
  /\ browsers # {} => loop \in {"run", "opening"}
  /\ loop \in {"listen", "run", "opening"} => m_publishFn /\ app = "alive"
  /\ loop = "opening" => opening \in browsers
  /\ owner = "dashboard" => poll = "off"
  /\ owner \in {"dashboard", "web"} => loop = "off"

\* A client that has not got the latest snapshot is going to, or is going to be closed.
LatestOK ==
  \A c \in browsers :
    \/ loop = "opening" /\ opening = c
    \/ newest[c] = m_latestSnapshot
    \/ poll \in Pushing
    \/ \E i \in DOMAIN deferred : deferred[i] \in {m_latestSnapshot, Close}

WebInv == NumbersOK /\ ClientsOK /\ LatestOK

LEMMA WebStarts == WebInit => WebInv
<1> SUFFICES ASSUME WebInit PROVE WebInv
  OBVIOUS
<1> USE DEF WebInit
<1>1. NumbersOK
  BY DEF NumbersOK, EmptySnapshot
<1>2. ClientsOK
  BY FS_EmptySet DEF ClientsOK
<1>3. LatestOK
  BY DEF LatestOK
<1> QED
  BY <1>1, <1>2, <1>3 DEF WebInv

\* What a step that concerns neither the numbers nor the clients leaves alone.
Kept == <<m_latestSnapshot, m_lastJson, received, newest, deferred, browsers, m_clientCount, opening>>

\* Steps between publications, and those of main that do not defer.
Aside == wakes \/ pollKlines \/ copyKlines \/ pollAccount \/ constructs \/ listens \/ leaves \/ resetsApp
           \/ startDashboard \/ startWeb \/ closesListenSocket \/ joinsLoop \/ stopsPolling
           \/ joinsPoll \/ candleChanges

LEMMA AsideKeeps ==
  ASSUME WebInv, Aside \/ UNCHANGED webVars
  PROVE  WebInv'
<1> USE DEF pollVars, sourceVars, clientVars, serverVars
<1>1. UNCHANGED Kept
  BY DEF Aside, Kept, webVars, wakes, pollKlines, copyKlines, pollAccount, constructs, listens, leaves, resetsApp,
         startDashboard, startWeb, closesListenSocket, joinsLoop, stopsPolling, joinsPoll, candleChanges
<1>2. "number" \in DOMAIN snap' /\ snap'.number = snap.number
  BY DEF Aside, webVars, wakes, pollKlines, copyKlines, pollAccount, constructs, listens, leaves, resetsApp,
         startDashboard, startWeb, closesListenSocket, joinsLoop, stopsPolling, joinsPoll, candleChanges, WebInv, NumbersOK
<1>3. poll' = poll \/ (poll \notin Pushing /\ poll' \notin Pushing)
  BY DEF Aside, webVars, wakes, pollKlines, copyKlines, pollAccount, constructs, listens, leaves, resetsApp,
         startDashboard, startWeb, closesListenSocket, joinsLoop, stopsPolling, joinsPoll, candleChanges, Pushing,
         WebInv, ClientsOK
<1>4. NumbersOK'
  BY <1>1, <1>2, <1>3 DEF WebInv, NumbersOK, Kept, Pushing
<1>5. /\ browsers # {} => loop' \in {"run", "opening"}
      /\ loop' \in {"listen", "run", "opening"} => m_publishFn' /\ app' = "alive"
      /\ loop' = "opening" <=> loop = "opening"
  BY DEF Aside, webVars, wakes, pollKlines, copyKlines, pollAccount, constructs, listens, leaves, resetsApp,
         startDashboard, startWeb, closesListenSocket, joinsLoop, stopsPolling, joinsPoll, candleChanges, WebInv, ClientsOK
<1>6. /\ owner' = "dashboard" => poll' = "off"
      /\ owner' \in {"dashboard", "web"} => loop' = "off"
  BY DEF Aside, webVars, wakes, pollKlines, copyKlines, pollAccount, constructs, listens, leaves, resetsApp,
         startDashboard, startWeb, closesListenSocket, joinsLoop, stopsPolling, joinsPoll, candleChanges, WebInv, ClientsOK
<1>7. ClientsOK'
  BY <1>1, <1>5, <1>6 DEF WebInv, ClientsOK, Kept
<1>8. LatestOK'
  BY <1>1, <1>3, <1>5 DEF WebInv, LatestOK, Kept, Pushing
<1> QED
  BY <1>4, <1>7, <1>8 DEF WebInv

LEMMA PublishKeeps ==
  ASSUME WebInv, publish \/ cachesJson \/ countsClients
  PROVE  WebInv'
<1> USE DEF pollVars, sourceVars, clientVars, serverVars
<1>1. UNCHANGED <<received, newest, deferred, browsers, m_clientCount, opening, loop, m_publishFn, app, owner>>
  BY DEF publish, cachesJson, countsClients
<1>2. CASE publish
  <2>1. "number" \in DOMAIN snap' /\ snap'.number = m_latestSnapshot + 1 /\ m_latestSnapshot' = m_latestSnapshot + 1
    BY <1>2 DEF publish, WebInv, NumbersOK
  <2>2. poll = "publish" /\ poll' = "cache" /\ m_lastJson' = m_lastJson
    BY <1>2 DEF publish
  <2>3. NumbersOK'
    BY <1>1, <2>1, <2>2 DEF WebInv, NumbersOK
  <2> QED
    BY <1>1, <2>2, <2>3 DEF WebInv, ClientsOK, LatestOK, Pushing
<1>3. CASE cachesJson
  <2>1. m_lastJson' = m_latestSnapshot /\ poll = "cache" /\ poll' = "count" /\ snap' = snap /\ m_latestSnapshot' = m_latestSnapshot
    BY <1>3 DEF cachesJson, WebInv, NumbersOK
  <2> QED
    BY <1>1, <2>1 DEF WebInv, NumbersOK, ClientsOK, LatestOK, Pushing
<1>4. CASE countsClients
  <2>1. m_lastJson' = m_lastJson /\ poll = "count" /\ snap' = snap /\ m_latestSnapshot' = m_latestSnapshot
    BY <1>4 DEF countsClients
  <2>2. poll' = "send" \/ (poll' = "sleep" /\ browsers = {})
    <3>1. poll' = "send" \/ (poll' = "sleep" /\ (m_clientCount = 0 \/ ~m_publishFn))
      BY <1>4 DEF countsClients
    <3>2. m_clientCount = 0 => browsers = {}
      BY FS_EmptySet DEF WebInv, ClientsOK
    <3> QED
      BY <3>1, <3>2 DEF WebInv, ClientsOK
  <2> QED
    BY <1>1, <2>1, <2>2 DEF WebInv, NumbersOK, ClientsOK, LatestOK, Pushing
<1> QED
  BY <1>2, <1>3, <1>4

LEMMA DeferKeeps ==
  ASSUME WebInv, sends \/ defersClose
  PROVE  WebInv'
<1> USE DEF pollVars, sourceVars, clientVars, serverVars
<1>1. /\ UNCHANGED <<received, newest, browsers, m_clientCount, opening, loop, m_publishFn, app,
                     snap, m_latestSnapshot, m_lastJson>>
      /\ owner' \in {owner, "join"} /\ (poll' = poll \/ (poll = "send" /\ poll' = "sleep"))
      /\ owner' = "dashboard" => poll' = poll
  BY DEF sends, defersClose, WebInv, ClientsOK
<1>2. PICK n \in {m_latestSnapshot, Close} :
        /\ deferred' = IF app = "alive" THEN Append(deferred, n) ELSE deferred
        /\ poll # poll' => n = m_latestSnapshot
  BY DEF sends, defersClose, WebInv, NumbersOK
<1>3. n \in Nat /\ n <= m_latestSnapshot /\ deferred \in Seq(Nat)
  BY DEF Close, WebInv, NumbersOK
<1>4. deferred' \in Seq(Nat) /\ \A i \in DOMAIN deferred' : deferred'[i] <= m_latestSnapshot
  BY <1>2, <1>3 DEF WebInv, NumbersOK
<1>5. /\ \A i \in DOMAIN deferred : i \in DOMAIN deferred' /\ deferred'[i] = deferred[i]
      /\ app = "alive" => \E i \in DOMAIN deferred' : deferred'[i] = n
  <2>1. Len(deferred) + 1 \in DOMAIN Append(deferred, n) /\ Append(deferred, n)[Len(deferred) + 1] = n
    BY <1>3
  <2> QED
    BY <1>2, <1>3, <2>1
<1>6. NumbersOK'
  BY <1>1, <1>4 DEF WebInv, NumbersOK
<1>7. ClientsOK'
  BY <1>1 DEF WebInv, ClientsOK
<1>8. LatestOK'
  <2> SUFFICES ASSUME NEW c \in browsers, ~ (loop = "opening" /\ opening = c), newest[c] # m_latestSnapshot, poll' \notin Pushing
               PROVE  \E i \in DOMAIN deferred' : deferred'[i] \in {m_latestSnapshot, Close}
    BY <1>1 DEF LatestOK
  <2>1. app = "alive"
    BY DEF WebInv, ClientsOK
  <2>2. CASE poll \in Pushing
    BY <1>1, <1>2, <1>5, <2>1, <2>2
  <2>3. CASE poll \notin Pushing
    BY <1>5, <2>3 DEF WebInv, LatestOK
  <2> QED
    BY <2>2, <2>3
<1> QED
  BY <1>6, <1>7, <1>8 DEF WebInv

LEMMA UpgradeKeeps ==
  ASSUME WebInv, NEW c \in Clients, upgrade(c)
  PROVE  WebInv'
<1> USE DEF upgrade, pollVars, sourceVars
<1>1. NumbersOK'
  BY DEF WebInv, NumbersOK
<1>2. IsFiniteSet(browsers') /\ Cardinality(browsers') = Cardinality(browsers) + 1
  BY FS_AddElement DEF WebInv, ClientsOK
<1>3. ClientsOK'
  BY <1>2 DEF WebInv, ClientsOK
<1>4. LatestOK'
  BY DEF WebInv, LatestOK, NumbersOK, ClientsOK
<1> QED
  BY <1>1, <1>3, <1>4 DEF WebInv

\* What a client gets it has got, and it keeps the newest.
LEMMA SentKeeps ==
  ASSUME NumbersOK, NEW socks, NEW n \in Nat, n <= m_latestSnapshot, Sent(socks, n)
  PROVE  /\ received' \in [Clients -> Nat] /\ newest' \in [Clients -> Nat]
         /\ \A c \in Clients : /\ received'[c] <= newest'[c] /\ newest'[c] <= m_latestSnapshot
                               /\ newest'[c] >= newest[c]
                               /\ c \in socks => newest'[c] >= n
<1>1. received' \in [Clients -> Nat] /\ \A c \in Clients : received'[c] = IF c \in socks THEN n ELSE received[c]
  BY DEF Sent, NumbersOK
<1>2. /\ newest' \in [Clients -> Nat]
      /\ \A c \in Clients : newest'[c] = IF received'[c] > newest[c] THEN received'[c] ELSE newest[c]
  BY <1>1 DEF Sent, NumbersOK
<1> QED
  BY <1>1, <1>2 DEF NumbersOK

LEMMA OpenKeeps ==
  ASSUME WebInv, sendsCached
  PROVE  WebInv'
<1> USE DEF sendsCached, pollVars, sourceVars
<1> DEFINE socks == IF m_lastJson = 0 THEN {} ELSE {opening}
<1>1. Sent(socks, m_lastJson) /\ m_lastJson \in Nat /\ m_lastJson <= m_latestSnapshot /\ NumbersOK
  BY DEF WebInv, NumbersOK
<1> HIDE DEF socks
<1>2. /\ received' \in [Clients -> Nat] /\ newest' \in [Clients -> Nat]
      /\ \A c \in Clients : /\ received'[c] <= newest'[c] /\ newest'[c] <= m_latestSnapshot
                            /\ newest'[c] >= newest[c]
                            /\ c \in socks => newest'[c] >= m_lastJson
  BY <1>1, SentKeeps
<1>3. NumbersOK'
  BY <1>2 DEF WebInv, NumbersOK
<1>4. ClientsOK'
  BY DEF WebInv, ClientsOK
<1>5. LatestOK'
  <2> SUFFICES ASSUME NEW c \in browsers, poll \notin Pushing, newest'[c] # m_latestSnapshot
               PROVE  \E i \in DOMAIN deferred : deferred[i] \in {m_latestSnapshot, Close}
    BY DEF LatestOK
  <2>1. c \in Clients /\ newest[c] \in Nat /\ newest'[c] \in Nat
    BY <1>2 DEF WebInv, ClientsOK, NumbersOK
  <2>2. c # opening
    <3> SUFFICES ASSUME c = opening PROVE FALSE
      OBVIOUS
    <3>1. m_lastJson = m_latestSnapshot /\ m_latestSnapshot \in Nat
      BY DEF WebInv, NumbersOK, Pushing
    <3>2. newest'[c] >= m_lastJson
      BY <1>2, <2>1, <3>1 DEF socks
    <3> QED
      BY <1>2, <2>1, <3>1, <3>2
  <2>3. newest[c] # m_latestSnapshot
    BY <1>2, <2>1 DEF WebInv, NumbersOK
  <2> QED
    BY <2>2, <2>3 DEF WebInv, LatestOK
<1> QED
  BY <1>3, <1>4, <1>5 DEF WebInv

LEMMA CloseKeeps ==
  ASSUME WebInv, NEW c \in Clients, closes(c)
  PROVE  WebInv'
<1> USE DEF closes, Closed, pollVars, sourceVars, serverVars
<1>1. browsers' = browsers \ {c} /\ m_clientCount' = m_clientCount - 1 /\ c \in browsers
  BY FS_Singleton
<1>2. IsFiniteSet(browsers') /\ Cardinality(browsers') = Cardinality(browsers) - 1
  BY <1>1, FS_RemoveElement DEF WebInv, ClientsOK
<1>3. NumbersOK'
  BY DEF WebInv, NumbersOK
<1>4. ClientsOK'
  BY <1>1, <1>2 DEF WebInv, ClientsOK
<1>5. LatestOK'
  BY <1>1 DEF WebInv, LatestOK
<1> QED
  BY <1>3, <1>4, <1>5 DEF WebInv

LEMMA DeferredKeeps ==
  ASSUME WebInv, runsDeferred
  PROVE  WebInv'
<1> USE DEF runsDeferred, pollVars, sourceVars
<1> DEFINE n == Head(deferred)
<1>1. /\ deferred \in Seq(Nat) /\ deferred # << >> /\ deferred' = Tail(deferred)
      /\ n \in Nat /\ n <= m_latestSnapshot /\ n = deferred[1]
  BY DEF WebInv, NumbersOK
<1>2. /\ deferred' \in Seq(Nat)
      /\ \A i \in DOMAIN deferred' : deferred'[i] = deferred[i + 1] /\ i + 1 \in DOMAIN deferred
      /\ \A i \in DOMAIN deferred \ {1} : i - 1 \in DOMAIN deferred' /\ deferred'[i - 1] = deferred[i]
  BY <1>1
<1>3. UNCHANGED <<snap, m_latestSnapshot, m_lastJson, poll, loop, app, m_publishFn, opening, owner>> /\ loop = "run"
  OBVIOUS
<1> HIDE DEF n
<1>4. CASE n = Close
  <2>1. browsers' = {} /\ m_clientCount' = m_clientCount - Cardinality(browsers) /\ UNCHANGED <<received, newest>>
    BY <1>4 DEF Closed, n
  <2>2. m_clientCount' = 0 /\ IsFiniteSet({}) /\ Cardinality({}) = 0
    BY <2>1, FS_EmptySet, FS_CardinalityType DEF WebInv, ClientsOK
  <2>3. NumbersOK'
    BY <1>1, <1>2, <1>3, <2>1 DEF WebInv, NumbersOK
  <2>4. ClientsOK'
    BY <1>3, <2>1, <2>2 DEF WebInv, ClientsOK
  <2> QED
    BY <2>1, <2>3, <2>4 DEF WebInv, LatestOK
<1>5. CASE n # Close
  <2>1. Sent(browsers, n) /\ UNCHANGED <<browsers, m_clientCount>> /\ NumbersOK
    BY <1>5 DEF n, WebInv
  <2>2. /\ received' \in [Clients -> Nat] /\ newest' \in [Clients -> Nat]
        /\ \A c \in Clients : /\ received'[c] <= newest'[c] /\ newest'[c] <= m_latestSnapshot
                              /\ newest'[c] >= newest[c]
                              /\ c \in browsers => newest'[c] >= n
    BY <1>1, <2>1, SentKeeps
  <2>3. NumbersOK'
    BY <1>2, <1>3, <2>2 DEF WebInv, NumbersOK
  <2>4. ClientsOK'
    BY <1>3, <2>1 DEF WebInv, ClientsOK
  <2>5. LatestOK'
    <3> SUFFICES ASSUME NEW c \in browsers, poll \notin Pushing, newest'[c] # m_latestSnapshot
                 PROVE  \E i \in DOMAIN deferred' : deferred'[i] \in {m_latestSnapshot, Close}
      BY <1>3, <2>1 DEF LatestOK
    <3>1. c \in Clients /\ newest[c] \in Nat /\ newest'[c] \in Nat /\ m_latestSnapshot \in Nat
      BY <2>2 DEF WebInv, ClientsOK, NumbersOK
    <3>2. n # m_latestSnapshot /\ newest[c] # m_latestSnapshot
      BY <1>1, <2>2, <3>1 DEF WebInv, NumbersOK
    <3>3. PICK i \in DOMAIN deferred : deferred[i] \in {m_latestSnapshot, Close}
      BY <1>3, <3>2 DEF WebInv, LatestOK
    <3>4. i # 1
      BY <1>1, <1>5, <3>2, <3>3
    <3> QED
      BY <1>2, <3>3, <3>4
  <2> QED
    BY <2>3, <2>4, <2>5 DEF WebInv
<1> QED
  BY <1>4, <1>5

\* No browsers client misses a snapshot that stays the latest, whether it came before, while or
\* after the poll thread cached it: DashboardState::pollLoop, WsServer::pushSnapshot and the open
\* handler, for any number of clients and snapshots.
THEOREM LatestReachesClients == WebSpec => []ClientsGetTheLatest
<1>1. WebInv /\ [WebNext]_webVars => WebInv'
  BY AsideKeeps, PublishKeeps, DeferKeeps, UpgradeKeeps, OpenKeeps, CloseKeeps, DeferredKeeps
     DEF WebNext, pollLoop, eventLoop, mainThread, Aside
<1>2. WebInv => ClientsGetTheLatest
  <2> SUFFICES ASSUME WebInv, poll = "sleep", loop = "run", deferred = << >>, NEW c \in browsers
               PROVE  newest[c] = m_latestSnapshot
    BY DEF ClientsGetTheLatest
  <2>1. DOMAIN deferred = {}
    OBVIOUS
  <2> QED
    BY <2>1 DEF WebInv, LatestOK, Pushing
<1> QED
  BY WebStarts, <1>1, <1>2, PTL DEF WebSpec
===============================================================================
