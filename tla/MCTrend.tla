------------------------------- MODULE MCTrend -------------------------------
(* Model checking of Trend: swings between the few prices that a gap in the *)
(* movement against a trend and a pullback of three swings need.            *)
EXTENDS Trend

MCPrices == 0 .. 5
MCOpenings == {0}

=============================================================================
