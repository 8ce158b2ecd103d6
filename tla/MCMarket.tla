------------------------------- MODULE MCMarket -------------------------------
(* What the channels of the exchange bring: the feed with its order books,   *)
(* the ring of candles, and the tracker of the application's orders.  They   *)
(* share no state: a run is one of them, the others at rest.                 *)
EXTENDS MarketFeed, KlineBuffer, OrderTracker, TLC

CONSTANTS BTC, ETH

MCSymbols == <<BTC, ETH>>

VARIABLE part  \* the component that runs: "feed", "ring" or "orders"

MarketInit ==
  /\ FeedInit
  /\ BufferInit
  /\ TrackerInit
  /\ part \in {"feed", "ring", "orders"}

OnlyFeed == part = "feed" /\ UNCHANGED <<bufferVars, trackerVars, part>>
OnlyRing == part = "ring" /\ UNCHANGED <<feedVars, trackerVars, part>>
OnlyOrders == part = "orders" /\ UNCHANGED <<feedVars, bufferVars, part>>

MarketNext ==
  \/ FeedNext /\ OnlyFeed
  \/ BufferNext /\ OnlyRing
  \/ TrackerNext /\ OnlyOrders

\* Of the feed and the tracker nothing has to happen; a push that began ends, a reader
\* goes on.
MarketSpec ==
  /\ MarketInit /\ [][MarketNext]_<<feedVars, bufferVars, trackerVars, part>>
  /\ WF_bufferVars(finishPush /\ OnlyRing)
  /\ \A r \in Readers : WF_bufferVars(continueSnapshot(r) /\ OnlyRing)
=============================================================================
