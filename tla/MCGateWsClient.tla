---------------------------- MODULE MCGateWsClient ----------------------------
(* Two threads, one that subscribes to public channels and one to a private  *)
(* channel, as the market feed and the order tracker of src/apps do.         *)
EXTENDS GateWsClient

CONSTANTS feed, tracker, tickers, books, orders

MCCallers == {feed, tracker}
MCChannels == [c \in MCCallers |-> IF c = feed THEN {tickers, books} ELSE {orders}]
MCPrivate == {orders}
MCRemovable == {books}

=============================================================================
