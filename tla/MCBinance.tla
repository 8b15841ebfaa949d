------------------------------ MODULE MCBinance ------------------------------
(* Model checking of Binance with three readers, so that a new one can start *)
(* while an old one is at any step, and trades that two readers can both get. *)
EXTENDS Binance

=============================================================================
