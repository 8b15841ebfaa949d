---------------------------- MODULE MCTrendIdentity ----------------------------
(* Model checking of the trends and of the generators that give them ids.     *)
(* Trend takes from IdGenerator that no id is issued twice, so that all rows  *)
(* of a rebuild are new, and shares no state with it: a step of one cannot    *)
(* make the other's properties false.  A behaviour here is one of either,     *)
(* chosen at the start, and the other rests.                                  *)
(*                                                                            *)
(* There are two generators, three numbers per millisecond, and a clock that  *)
(* is set back up to twice, so that a sequence runs out before, while and     *)
(* after the clock is behind.                                                 *)
EXTENDS MCTrend, IdGenerator

VARIABLE part       \* the part that moves

IdentityInit == part \in {"trends", "generators"} /\ TrendInit /\ GeneratorInit
                /\ (part = "trends" => clock = 0)

IdentityNext ==
    \/ part = "trends" /\ TrendNext /\ UNCHANGED <<part, generatorVars>>
    \/ part = "generators" /\ GeneratorNext /\ UNCHANGED <<part, trendVars>>

identityVars == <<part, trendVars, generatorVars>>

\* The fairness of the generators.
IdentitySpec ==
    /\ IdentityInit /\ [][IdentityNext]_identityVars
    /\ WF_identityVars(part = "generators" /\ Advance /\ UNCHANGED <<part, trendVars>>)
    /\ \A w \in Workers :
          WF_identityVars(part = "generators" /\ Resume(w) /\ UNCHANGED <<part, trendVars>>)

=============================================================================
