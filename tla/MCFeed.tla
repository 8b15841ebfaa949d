------------------------------- MODULE MCFeed -------------------------------
(* Model checking of Feed with two producers, so that two calls race for the *)
(* place one of them made in the queue, a consumer, and a subscriber that    *)
(* may fall behind: the queue keeps two bars, the channel one.               *)
EXTENDS Feed

\* The producers only differ in their names.
ProducerSymmetry == Permutations(Producers)

=============================================================================
