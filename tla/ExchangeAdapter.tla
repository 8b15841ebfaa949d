--------------------------- MODULE ExchangeAdapter ---------------------------
(***************************************************************************)
(* What the ResilientAdapter may rely on in an ExchangeAdapter, whichever  *)
(* it wraps: the calls of the trait and what they may do to the adapter's  *)
(* connection.  A connection is "up", "down", or "silent": it died, or is  *)
(* taken for dead, and the calls need not say so.                          *)
(*                                                                         *)
(* Lifecycle is checked over this module; Binance is shown to implement it.*)
(* The defaults of the trait and the mock adapter do not: they subscribe   *)
(* and beat with success on no connection.                                 *)
(***************************************************************************)
CONSTANT Symbols      \* the symbols that may be subscribed

VARIABLES link,       \* the adapter's connection
          live,       \* the subscriptions that connection carries
          call        \* what the last call of the adapter returned:
                      \* a symbol is a subscription to it

adapterVars == <<link, live, call>>

AdapterInit == link = "down" /\ live = {} /\ call = "none"

Returned(r) == call' = r

LinkBecomes(l) == link' = l /\ live' = IF l = "down" THEN {} ELSE live

\* connect.  The new connection carries what the adapter chooses.
ConnectSucceeds == link' = "up" /\ live' \in SUBSET Symbols /\ Returned("connected")

\* poll_bar and heartbeat without an error: a silent connection passes both.
CallSucceeds == link # "down" /\ UNCHANGED <<link, live>> /\ Returned("ok")

\* Any call with an error, which may end the connection.
CallFails == \E l \in {link, "down"} : LinkBecomes(l) /\ Returned("error")

\* subscribe_symbol of an adapter that looks at its connection.  It may
\* replace a silent connection by a new one.
SubscribeSucceeds(s) ==
    /\ link # "down"
    /\ link' \in {link, "up"}
    /\ live' = live \cup {s}
    /\ Returned(s)

\* The connection breaks, by itself and between two calls.
LinkBreaks ==
    /\ link = "up"
    /\ \E l \in {"down", "silent"} : LinkBecomes(l)
    /\ UNCHANGED call

AdapterNext ==
    \/ ConnectSucceeds \/ CallSucceeds \/ CallFails
    \/ \E s \in Symbols : SubscribeSucceeds(s)
    \/ LinkBreaks

AdapterSpec == AdapterInit /\ [][AdapterNext]_adapterVars

=============================================================================
