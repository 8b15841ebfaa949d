------------------------------- MODULE MCSwing -------------------------------
(* Model checking of CBar and Swing together, on sequences of bars that are  *)
(* flat or one price step tall, between which fractals form, ties occur and  *)
(* swings could turn, and of one bar that contains all of them.              *)
EXTENDS Swing

MCPrices == 0 .. 3

MCBars == {b \in [high : MCPrices, low : MCPrices] :
              \/ b.low <= b.high /\ b.high <= b.low + 1
              \/ b.low = 0 /\ b.high = 3}

=============================================================================
