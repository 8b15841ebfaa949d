------------------------------ MODULE MCRuntime ------------------------------
(* Model checking of Runtime with more bars than the channel and the queue    *)
(* can keep, three names of which two differ in their case only, and fewer    *)
(* polls than the real hundred per bar.                                       *)
EXTENDS Runtime

CONSTANTS a, b, c

MCLowerCase == [s \in Names |-> IF s = a THEN b ELSE s]
MCAssessments == {[score |-> 80, quality |-> 20], [score |-> -50, quality |-> 20]}
MCZoneSignals == {[behavior |-> k, strength |-> 80] : k \in {"absent", "strongAccept", "breakoutFailure"}}

=============================================================================
