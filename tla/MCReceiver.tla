------------------------------ MODULE MCReceiver ------------------------------
(* Model checking of Receiver with timeframes of one and of two minutes that *)
(* may be registered again, and with two instruments, whose bars mix in the  *)
(* windows; minutes hold several ticks and sessions begin anew.              *)
EXTENDS Receiver

CONSTANTS m1, m2

MCWindow == [tf \in Timeframes |-> IF tf = m1 THEN 1 ELSE 2]

\* The instruments only differ in their names.
InstrumentSymmetry == Permutations(Instruments)

=============================================================================
