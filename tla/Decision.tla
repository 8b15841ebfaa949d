------------------------------ MODULE Decision ------------------------------
(***************************************************************************)
(* The decision table of the strategy crate, DecisionEngine::evaluate, and *)
(* the context in which Strategy::on_bar asks it.                          *)
(*                                                                         *)
(* Scores, qualities and strengths are in hundredths.  The quality is the  *)
(* weighted mean of dominance, efficiency and sustainability, which the    *)
(* code computes before it compares it.                                    *)
(***************************************************************************)
EXTENDS Integers

Positions == {"flat", "long", "short"}
Actions == {"buy", "sell", "short", "cover", "wait"}
TrendDirections == {"up", "down", "none"}
Stages == {"stable", "weakening", "critical", "failed"}
Accepts == {"strongAccept", "weakAccept", "secondPush"}
Rejects == {"strongReject", "weakReject"}
Behaviors == Accepts \cup Rejects \cup {"breakoutFailure"}

\* DecisionContext; a missing key zone signal is the behaviour "absent".
Context == [higher : TrendDirections, trade : TrendDirections, entry : TrendDirections,
            conflict : BOOLEAN, accept : BOOLEAN,
            behavior : Behaviors \cup {"absent"}, strength : Int,
            consistency : Nat, conflicts : Nat,
            secondPush : BOOLEAN, failure : BOOLEAN, cooldown : BOOLEAN, preferClose : BOOLEAN,
            position : Positions, stage : Stages, score : Int, quality : Int]

-----------------------------------------------------------------------------
(* The parts of the decision.                                              *)

Aligned(c) == c.higher = c.trade /\ c.trade = c.entry /\ c.higher # "none"

BaseThreshold(stage) ==
    CASE stage = "stable" -> 35 [] stage = "weakening" -> 45
      [] stage = "critical" -> 55 [] stage = "failed" -> 100

ThresholdShift(behavior) ==
    CASE behavior = "strongAccept" -> -10 [] behavior = "weakAccept" -> -5
      [] behavior = "secondPush" -> -8 [] behavior = "weakReject" -> 8
      [] behavior = "strongReject" -> 12 [] behavior = "breakoutFailure" -> 15
      [] behavior = "absent" -> 0

Clamp(x, lo, hi) == IF x < lo THEN lo ELSE IF x > hi THEN hi ELSE x

OpenThreshold(c) == Clamp(BaseThreshold(c.stage) + ThresholdShift(c.behavior), 20, 80)

\* The timeframes and the score agree with a position in direction d.
Signal(c, d) ==
    /\ Aligned(c) /\ c.higher = d
    /\ IF d = "up" THEN c.score >= OpenThreshold(c) ELSE c.score <= -OpenThreshold(c)
    /\ c.quality >= -10
    /\ c.accept

RiskBlocked(c) ==
    \/ c.consistency <= 4 \/ c.conflicts >= 3
    \/ c.strength > 70 /\ c.behavior \in {"strongReject", "breakoutFailure"}

GatePassed(c) == c.consistency >= 7 /\ ~RiskBlocked(c)

\* A position whose signal is gone is closed before anything is opened.
Degraded(c) ==
    /\ c.preferClose
    /\ \/ c.position = "long" /\ (~Signal(c, "up") \/ c.score < 0 \/ ~c.accept)
       \/ c.position = "short" /\ (~Signal(c, "down") \/ c.score > 0 \/ ~c.accept)

Closing(position) ==
    CASE position = "long" -> "sell" [] position = "short" -> "cover" [] position = "flat" -> "wait"

Following(c) ==
    CASE Signal(c, "up") /\ c.position = "flat"    -> "buy"
      [] Signal(c, "down") /\ c.position = "flat"  -> "short"
      [] Signal(c, "up") /\ c.position = "short"   -> "cover"
      [] Signal(c, "down") /\ c.position = "long"  -> "sell"
      [] OTHER                                     -> "wait"

\* DecisionEngine::evaluate: the first rule that applies decides.
Evaluate(c) ==
    IF c.cooldown THEN "wait"
    ELSE IF c.failure \/ c.behavior = "breakoutFailure" THEN Closing(c.position)
    ELSE IF c.conflict \/ c.stage = "failed" THEN "wait"
    ELSE IF Degraded(c) THEN Closing(c.position)
    ELSE IF ~Aligned(c) \/ ~GatePassed(c) \/ ~c.secondPush THEN "wait"
    ELSE Following(c)

-----------------------------------------------------------------------------
(* What Strategy::on_bar puts into the context.                            *)

\* The stage of a score, with the default thresholds.
Stage(score) ==
    LET size == IF score < 0 THEN -score ELSE score
    IN  IF size >= 70 THEN "stable" ELSE IF size >= 45 THEN "weakening"
        ELSE IF size >= 25 THEN "critical" ELSE "failed"

\* to_direction.
ToDirection(score) == IF score > 20 THEN "up" ELSE IF score < -20 THEN "down" ELSE "none"

Assessment == [score : Int, quality : Int]
ZoneSignal == [behavior : Behaviors \cup {"absent"}, strength : Int]

\* default_sd: a timeframe that got no bars has a score of zero.
DefaultSd == [score |-> 0, quality |-> 0]

\* Mutation of TimeframeSd: the assessment of the entry stands in.
TimeframeOfEntry(sd, fed, tf) == sd

\* The assessment of a timeframe: fed are those that got bars.
TimeframeSd(sd, fed, tf) == IF tf \in fed THEN sd ELSE DefaultSd

\* The context of a bar: on_bar feeds the entry timeframe only.
StrategyContext(sd, signal) ==
    LET of(tf) == TimeframeSd(sd, {"M5"}, tf)
    IN  [higher |-> ToDirection(of("H1").score), trade |-> ToDirection(of("M15").score),
         entry |-> ToDirection(of("M5").score),
         conflict |-> signal.behavior \in Rejects, accept |-> signal.behavior \in Accepts,
         behavior |-> signal.behavior, strength |-> signal.strength,
         consistency |-> 7, conflicts |-> 0,
         secondPush |-> signal.behavior \in Accepts, failure |-> signal.behavior = "breakoutFailure",
         cooldown |-> FALSE, preferClose |-> TRUE, position |-> "flat",
         stage |-> Stage(of("M5").score), score |-> of("M5").score, quality |-> of("M5").quality]

=============================================================================
