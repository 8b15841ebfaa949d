----------------------------- MODULE MCMarketData -----------------------------
(* Model checking of the two ways market data takes: ticks become bars and    *)
(* windows in the receiver, and bars become those of subscribers in the feed. *)
(* The two share no state, so a step of one cannot make the other's           *)
(* properties false: a behaviour here is one of either, chosen at the start,  *)
(* and the other rests.                                                       *)
EXTENDS MCReceiver, MCFeed

VARIABLE part       \* the part that moves

MarketDataInit ==
    /\ part \in {"receiver", "feed"} /\ ReceiverInit /\ FeedInit
    /\ part = "receiver" => policy = "DropNewest"

MarketDataNext ==
    \/ part = "receiver" /\ ReceiverNext /\ UNCHANGED <<part, feedVars>>
    \/ part = "feed" /\ FeedNext /\ UNCHANGED <<part, receiverVars>>

MarketDataSpec ==
    MarketDataInit /\ [][MarketDataNext]_<<part, receiverVars, feedVars>>

\* Who rests is in its initial state, in which all names are alike.
MCSymmetry == ProducerSymmetry \cup InstrumentSymmetry

=============================================================================
