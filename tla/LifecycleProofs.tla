--------------------------- MODULE LifecycleProofs ---------------------------
(***************************************************************************)
(* Proofs about Lifecycle, for any symbols, any number of reconnect        *)
(* attempts and any number of faults.                                      *)
(*                                                                         *)
(* NothingMissedSilently speaks of the moments at which a caller has       *)
(* control.  LinkInv says what holds in between: whatever call is under    *)
(* way, a listed symbol that the connection does not carry is still to be  *)
(* replayed, or an error was returned.  It must hold of a silent           *)
(* connection too, because a subscription may bring that one back up.      *)
(***************************************************************************)
EXTENDS Lifecycle, FiniteLemmas

\* What the replay under way has still to subscribe.
Outstanding == IF pc = "replaying" THEN Range(todo) ELSE {}

LinkInv ==
    connected /\ link # "down" =>
        reported \/ Range(subscriptions) \subseteq live \cup Outstanding

LifecycleInv == LifecycleTypeOK /\ LinkInv

-----------------------------------------------------------------------------
(* The calls of the adapter.                                               *)

\* What any call that does not connect, failed or not, and a break leave of a
\* connection that is not down: what it carried.
Carries == link' # "down" => link # "down" /\ live \subseteq live'

EnvironmentTypeOK ==
    /\ link \in {"down", "up", "silent"}
    /\ live \subseteq Symbols /\ ever \subseteq Symbols
    /\ call \in {"none", "connected", "ok", "error"} \cup Symbols
    /\ faults \in 0 .. MaxFaults

LEMMA FaultType ==
    ASSUME EnvironmentTypeOK, Fault \/ UNCHANGED faults
    PROVE  faults' \in 0 .. MaxFaults
BY LifecycleAssumption DEF EnvironmentTypeOK, Fault

LEMMA FailsFacts ==
    ASSUME EnvironmentTypeOK, Fails
    PROVE  EnvironmentTypeOK' /\ Carries
<1>1. faults' \in 0 .. MaxFaults
  BY FaultType DEF Fails
<1> QED
  BY <1>1 DEF Fails, CallFails, LinkBecomes, Returned, Carries, EnvironmentTypeOK

LEMMA RefusesFacts ==
    ASSUME EnvironmentTypeOK, Refuses
    PROVE  EnvironmentTypeOK' /\ Carries
<1>1. faults' \in 0 .. MaxFaults
  BY FaultType DEF Refuses
<1> QED
  BY <1>1 DEF Refuses, CallFails, LinkBecomes, Returned, Carries, EnvironmentTypeOK

LEMMA BreaksFacts ==
    ASSUME EnvironmentTypeOK, Breaks
    PROVE  EnvironmentTypeOK' /\ Carries
<1>1. faults' \in 0 .. MaxFaults
  BY FaultType DEF Breaks
<1> QED
  BY <1>1 DEF Breaks, LinkBreaks, LinkBecomes, Carries, EnvironmentTypeOK

LEMMA SucceedsFacts ==
    ASSUME EnvironmentTypeOK, Succeeds
    PROVE  EnvironmentTypeOK' /\ Carries
BY DEF Succeeds, CallSucceeds, Returned, Carries, EnvironmentTypeOK

LEMMA AcceptsFacts ==
    ASSUME EnvironmentTypeOK, NEW s \in Symbols, Accepts(s)
    PROVE  EnvironmentTypeOK' /\ Carries /\ s \in live'
BY DEF Accepts, SubscribeSucceeds, Returned, Carries, EnvironmentTypeOK

LEMMA ConnectsFacts ==
    ASSUME EnvironmentTypeOK, Connects
    PROVE  EnvironmentTypeOK'
BY DEF Connects, ConnectSucceeds, Returned, EnvironmentTypeOK

LEMMA EnvironmentTypes == LifecycleTypeOK => EnvironmentTypeOK
BY DEF LifecycleTypeOK, EnvironmentTypeOK

-----------------------------------------------------------------------------
(* Each step keeps the invariant.                                          *)

LEMMA InitLifecycleInv == LifecycleInit => LifecycleInv
<1> SUFFICES ASSUME LifecycleInit PROVE LifecycleInv
  OBVIOUS
<1>1. Retries \in Nat \ {0} /\ MaxFaults \in Nat
  BY LifecycleAssumption
<1>2. <<>> \in Seq(Symbols) /\ DOMAIN <<>> = {}
  OBVIOUS
<1>3. /\ subscriptions \in Seq(Symbols) /\ IsInjective(subscriptions)
      /\ todo \in Seq(Symbols)
  BY <1>2 DEF LifecycleInit, IsInjective
<1>4. 0 \in 0 .. Retries - 1 /\ 0 \in 0 .. MaxFaults
  BY <1>1
<1>5. EnvironmentTypeOK
  BY <1>4 DEF LifecycleInit, AdapterInit, EnvironmentTypeOK
<1>6. LifecycleTypeOK
  BY <1>3, <1>4, <1>5 DEF LifecycleInit, LifecycleTypeOK, EnvironmentTypeOK
<1> QED
  BY <1>6 DEF LifecycleInit, LifecycleInv, LinkInv

LEMMA SubscribeKeeps ==
    ASSUME LifecycleInv, NEW s \in Symbols, Subscribe(s)
    PROVE  LifecycleInv'
<1>1. LifecycleTypeOK /\ EnvironmentTypeOK /\ LinkInv
  BY EnvironmentTypes DEF LifecycleInv
<1>2. /\ subscriptions' \in Seq(Symbols) /\ IsInjective(subscriptions')
      /\ Range(subscriptions') = Range(subscriptions) \cup {s}
  <2>1. CASE s \in Range(subscriptions)
    BY <1>1, <2>1 DEF Subscribe, LifecycleTypeOK
  <2>2. CASE s \notin Range(subscriptions)
    BY <1>1, <2>2, AppendNew DEF Subscribe, LifecycleTypeOK
  <2> QED
    BY <2>1, <2>2
<1>3. /\ pc = "idle" /\ pc' = "idle" /\ Outstanding = {}
      /\ UNCHANGED <<connected, seen, resume, attempt, todo>>
  BY DEF Subscribe, ReturnOk, ReturnError, Outstanding
<1>4. EnvironmentTypeOK' /\ outcome' \in {"ok", "error"} /\ reported' \in BOOLEAN /\ LinkInv'
  <2>1. CASE ~connected /\ ReturnOk /\ UNCHANGED environmentVars
    BY <1>1, <1>3, <2>1
       DEF ReturnOk, environmentVars, adapterVars, EnvironmentTypeOK, LifecycleTypeOK, LinkInv
  <2>2. CASE connected /\ Accepts(s) /\ ReturnOk
    <3>1. EnvironmentTypeOK' /\ Carries /\ s \in live'
      BY <1>1, <2>2, AcceptsFacts
    <3> QED
      BY <1>1, <1>2, <1>3, <2>2, <3>1 DEF ReturnOk, LifecycleTypeOK, LinkInv, Carries
  <2>3. CASE connected /\ Fails /\ ReturnError
    <3>1. EnvironmentTypeOK'
      BY <1>1, <2>3, FailsFacts
    <3> QED
      BY <2>3, <3>1 DEF ReturnError, LinkInv
  <2> QED
    BY <2>1, <2>2, <2>3 DEF Subscribe
<1>5. LifecycleTypeOK'
  BY <1>1, <1>2, <1>3, <1>4 DEF LifecycleTypeOK, EnvironmentTypeOK
<1> QED
  BY <1>4, <1>5 DEF LifecycleInv

LEMMA PollKeeps ==
    ASSUME LifecycleInv, Poll
    PROVE  LifecycleInv'
<1>1. LifecycleTypeOK /\ EnvironmentTypeOK /\ LinkInv /\ pc = "idle" /\ Outstanding = {}
  BY EnvironmentTypes DEF LifecycleInv, Poll, Outstanding
<1>2. 0 \in 0 .. Retries - 1
  BY LifecycleAssumption
<1>3. CASE connected' = FALSE /\ Reconnect("polling") /\ UNCHANGED seen /\ EnvironmentTypeOK'
  <2>1. LifecycleTypeOK'
    BY <1>1, <1>2, <1>3 DEF Reconnect, LifecycleTypeOK, EnvironmentTypeOK
  <2> QED
    BY <1>3, <2>1 DEF LifecycleInv, LinkInv
<1>4. CASE /\ connected /\ GoPoll /\ seen' = "fresh" /\ EnvironmentTypeOK' /\ Carries
           /\ UNCHANGED <<connected, subscriptions, todo>>
  <2>1. LifecycleTypeOK'
    BY <1>1, <1>4 DEF GoPoll, LifecycleTypeOK, EnvironmentTypeOK
  <2>2. Outstanding' = {}
    BY <1>4 DEF GoPoll, Outstanding
  <2>3. LinkInv'
    BY <1>1, <1>4, <2>2 DEF LinkInv, GoPoll, Carries
  <2> QED
    BY <2>1, <2>3 DEF LifecycleInv
<1>5. UNCHANGED environmentVars => EnvironmentTypeOK' /\ Carries
  BY <1>1 DEF environmentVars, adapterVars, EnvironmentTypeOK, Carries
<1>6. /\ Fails => EnvironmentTypeOK' /\ Carries
      /\ Succeeds => EnvironmentTypeOK' /\ Carries
  BY <1>1, FailsFacts, SucceedsFacts
<1> QED
  BY <1>1, <1>3, <1>4, <1>5, <1>6 DEF Poll, Reconnect, GoPoll, LifecycleTypeOK

LEMMA ConnectKeeps ==
    ASSUME LifecycleInv, Connect
    PROVE  LifecycleInv'
<1>1. LifecycleTypeOK /\ LinkInv /\ Outstanding = {} /\ Outstanding' = {}
  BY DEF LifecycleInv, Connect, Reconnect, Outstanding
<1>2. 0 \in 0 .. Retries - 1
  BY LifecycleAssumption
<1>3. LifecycleTypeOK'
  BY <1>1, <1>2 DEF Connect, Reconnect, environmentVars, adapterVars, LifecycleTypeOK
<1>4. LinkInv'
  BY <1>1 DEF Connect, Reconnect, environmentVars, adapterVars, LinkInv
<1> QED
  BY <1>3, <1>4 DEF LifecycleInv

LEMMA AttemptKeeps ==
    ASSUME LifecycleInv, Attempt
    PROVE  LifecycleInv'
<1>1. /\ LifecycleTypeOK /\ EnvironmentTypeOK /\ LinkInv /\ Outstanding = {}
      /\ UNCHANGED <<subscriptions, resume>>
  BY EnvironmentTypes DEF LifecycleInv, Attempt, Outstanding
<1>2. CASE /\ Connects /\ connected' = TRUE /\ seen' = "fresh" /\ todo' = subscriptions
           /\ pc' = "replaying" /\ reported' = FALSE /\ UNCHANGED <<attempt, outcome>>
  <2>1. EnvironmentTypeOK'
    BY <1>1, <1>2, ConnectsFacts
  <2>2. LifecycleTypeOK'
    BY <1>1, <1>2, <2>1 DEF LifecycleTypeOK, EnvironmentTypeOK
  <2>3. Outstanding' = Range(subscriptions')
    BY <1>1, <1>2 DEF Outstanding
  <2> QED
    BY <2>2, <2>3 DEF LifecycleInv, LinkInv
<1>3. CASE /\ Refuses /\ UNCHANGED <<connected, seen, todo>>
           /\ \/ /\ attempt + 1 < Retries
                 /\ attempt' = attempt + 1
                 /\ UNCHANGED <<pc, outcome, reported>>
              \/ ReturnError /\ UNCHANGED attempt
  <2>1. EnvironmentTypeOK' /\ link' = "down"
    BY <1>1, <1>3, RefusesFacts DEF Refuses
  <2>2. attempt' \in 0 .. Retries - 1
    BY <1>1, <1>3, LifecycleAssumption DEF LifecycleTypeOK
  <2>3. LifecycleTypeOK'
    BY <1>1, <1>3, <2>1, <2>2 DEF ReturnError, LifecycleTypeOK, EnvironmentTypeOK
  <2> QED
    BY <2>1, <2>3 DEF LifecycleInv, LinkInv
<1> QED
  BY <1>2, <1>3 DEF Attempt

LEMMA ReplayKeeps ==
    ASSUME LifecycleInv, Replay
    PROVE  LifecycleInv'
<1>1. /\ LifecycleTypeOK /\ EnvironmentTypeOK /\ LinkInv /\ Outstanding = Range(todo)
      /\ UNCHANGED <<connected, seen, subscriptions, resume, attempt>>
  BY EnvironmentTypes DEF LifecycleInv, Replay, Outstanding
<1>2. CASE /\ todo # <<>> /\ Accepts(Head(todo)) /\ todo' = Tail(todo)
           /\ UNCHANGED <<pc, outcome, reported>>
  <2>1. /\ Tail(todo) \in Seq(Symbols) /\ Head(todo) \in Symbols
        /\ Range(todo) = Range(todo') \cup {Head(todo)}
    BY <1>1, <1>2, TailRange DEF LifecycleTypeOK
  <2>2. EnvironmentTypeOK' /\ Carries /\ Head(todo) \in live'
    BY <1>1, <1>2, <2>1, AcceptsFacts
  <2>3. LifecycleTypeOK'
    BY <1>1, <1>2, <2>1, <2>2 DEF LifecycleTypeOK, EnvironmentTypeOK
  <2>4. Outstanding' = Range(todo')
    BY <1>2 DEF Replay, Outstanding
  <2>5. LinkInv'
    BY <1>1, <1>2, <2>1, <2>2, <2>4 DEF LinkInv, Carries
  <2> QED
    BY <2>3, <2>5 DEF LifecycleInv
<1>3. CASE Fails /\ ReturnError /\ UNCHANGED todo
  <2>1. EnvironmentTypeOK'
    BY <1>1, <1>3, FailsFacts
  <2>2. LifecycleTypeOK'
    BY <1>1, <1>3, <2>1 DEF ReturnError, LifecycleTypeOK, EnvironmentTypeOK
  <2> QED
    BY <1>3, <2>2 DEF LifecycleInv, LinkInv, ReturnError
<1>4. CASE /\ todo = <<>> /\ UNCHANGED <<todo, environmentVars, reported>>
           /\ \/ resume = "idle" /\ ReturnOk
              \/ resume # "idle" /\ pc' = resume /\ UNCHANGED outcome
  <2>1. EnvironmentTypeOK'
    BY <1>1, <1>4 DEF environmentVars, adapterVars, EnvironmentTypeOK
  <2>2. LifecycleTypeOK'
    BY <1>1, <1>4, <2>1 DEF ReturnOk, LifecycleTypeOK, EnvironmentTypeOK
  <2>3. Outstanding = {}
    BY <1>1, <1>4 DEF Range
  <2>4. LinkInv'
    BY <1>1, <1>4, <2>3 DEF LinkInv, environmentVars, adapterVars
  <2> QED
    BY <2>2, <2>4 DEF LifecycleInv
<1> QED
  BY <1>2, <1>3, <1>4 DEF Replay, ReturnOk

LEMMA PollAdapterKeeps ==
    ASSUME LifecycleInv, PollAdapter \/ PollRetry
    PROVE  LifecycleInv'
<1>1. LifecycleTypeOK /\ EnvironmentTypeOK /\ LinkInv /\ Outstanding = {}
  BY EnvironmentTypes DEF LifecycleInv, PollAdapter, PollRetry, Outstanding
<1>2. CASE /\ Succeeds /\ seen' = "fresh" /\ ReturnOk
           /\ UNCHANGED <<connected, subscriptions, resume, attempt, todo>>
  <2>1. EnvironmentTypeOK' /\ Carries
    BY <1>1, <1>2, SucceedsFacts
  <2>2. LifecycleTypeOK'
    BY <1>1, <1>2, <2>1 DEF ReturnOk, LifecycleTypeOK, EnvironmentTypeOK
  <2>3. LinkInv'
    BY <1>1, <1>2, <2>1 DEF LinkInv, Carries, ReturnOk
  <2> QED
    BY <2>2, <2>3 DEF LifecycleInv
<1>3. CASE Fails /\ connected' = FALSE /\ Reconnect("retrying") /\ UNCHANGED seen
  <2>1. EnvironmentTypeOK' /\ 0 \in 0 .. Retries - 1
    BY <1>1, <1>3, FailsFacts, LifecycleAssumption
  <2>2. LifecycleTypeOK'
    BY <1>1, <1>3, <2>1 DEF Reconnect, LifecycleTypeOK, EnvironmentTypeOK
  <2> QED
    BY <1>3, <2>2 DEF LifecycleInv, LinkInv
<1>4. CASE /\ Fails /\ ReturnError /\ UNCHANGED seen
           /\ UNCHANGED <<connected, subscriptions, resume, attempt, todo>>
  <2>1. EnvironmentTypeOK'
    BY <1>1, <1>4, FailsFacts
  <2>2. LifecycleTypeOK'
    BY <1>1, <1>4, <2>1 DEF ReturnError, LifecycleTypeOK, EnvironmentTypeOK
  <2> QED
    BY <1>4, <2>2 DEF LifecycleInv, LinkInv, ReturnError
<1> QED
  BY <1>2, <1>3, <1>4 DEF PollAdapter, PollRetry

LEMMA NextLifecycleInv == LifecycleInv /\ [LifecycleNext]_lifecycleVars => LifecycleInv'
<1> SUFFICES ASSUME LifecycleInv, [LifecycleNext]_lifecycleVars PROVE LifecycleInv'
  OBVIOUS
<1>1. CASE Breaks
  <2>1. LifecycleTypeOK /\ EnvironmentTypeOK /\ LinkInv
    BY EnvironmentTypes DEF LifecycleInv
  <2>2. EnvironmentTypeOK' /\ Carries
    BY <1>1, <2>1, BreaksFacts
  <2>3. LifecycleTypeOK'
    BY <1>1, <2>1, <2>2 DEF Breaks, resilientVars, LifecycleTypeOK, EnvironmentTypeOK
  <2>4. LinkInv'
    BY <1>1, <2>1, <2>2 DEF Breaks, resilientVars, LinkInv, Carries, Outstanding
  <2> QED
    BY <2>3, <2>4 DEF LifecycleInv
<1>2. CASE Elapse
  <2>1. LifecycleTypeOK'
    BY <1>2 DEF LifecycleInv, LifecycleTypeOK, Elapse, environmentVars, adapterVars
  <2> QED
    BY <1>2, <2>1 DEF LifecycleInv, LinkInv, Outstanding, Elapse, environmentVars, adapterVars
<1>3. CASE UNCHANGED lifecycleVars
  BY <1>3 DEF lifecycleVars, resilientVars, environmentVars, adapterVars,
              LifecycleInv, LifecycleTypeOK, LinkInv, Outstanding
<1> QED
  BY <1>1, <1>2, <1>3, SubscribeKeeps, PollKeeps, ConnectKeeps, AttemptKeeps, ReplayKeeps,
     PollAdapterKeeps DEF LifecycleNext, Steps

\* The state of a ResilientAdapter has its types; in particular no symbol is
\* listed twice, however often it is subscribed.
THEOREM LifecycleTypeHolds == LifecycleSpec => []LifecycleTypeOK
<1>1. LifecycleInv => LifecycleTypeOK
  BY DEF LifecycleInv
<1> QED
  BY InitLifecycleInv, NextLifecycleInv, <1>1, PTL DEF LifecycleSpec

\* No subscription gets lost without an error: when a caller of poll_bar,
\* connect or subscribe_symbol has control and the connection works, each symbol
\* it ever subscribed is carried or was refused with an error on it.
THEOREM NothingMissedHolds == LifecycleSpec => []NothingMissedSilently
<1>1. LifecycleInv => NothingMissedSilently
  BY DEF LifecycleInv, LinkInv, Outstanding, NothingMissedSilently, Serving
<1> QED
  BY InitLifecycleInv, NextLifecycleInv, <1>1, PTL DEF LifecycleSpec

-----------------------------------------------------------------------------
(* The adapter below.                                                      *)

\* The ResilientAdapter uses its adapter only by the calls of the trait: what
\* it does to a connection is what ExchangeAdapter allows, so that an adapter
\* shown to implement ExchangeAdapter may be put in its place.
THEOREM UsesTheContract == LifecycleSpec => AdapterSpec
<1>1. LifecycleInit => AdapterInit
  BY DEF LifecycleInit
<1>2. LifecycleInv /\ [LifecycleNext]_lifecycleVars => [AdapterNext]_adapterVars
  <2> SUFFICES ASSUME LifecycleInv, [LifecycleNext]_lifecycleVars
               PROVE  [AdapterNext]_adapterVars
    OBVIOUS
  <2>1. /\ Succeeds => AdapterNext
        /\ Fails => AdapterNext
        /\ Connects => AdapterNext
        /\ Refuses => AdapterNext
        /\ Breaks => AdapterNext
    BY DEF Succeeds, Fails, Connects, Refuses, Breaks, AdapterNext
  <2>2. ASSUME NEW s \in Symbols, Accepts(s) PROVE AdapterNext
    BY <2>2 DEF Accepts, AdapterNext
  <2>3. UNCHANGED environmentVars => UNCHANGED adapterVars
    BY DEF environmentVars
  <2>4. todo # <<>> => Head(todo) \in Symbols
    BY TailRange DEF LifecycleInv, LifecycleTypeOK
  <2>5. ASSUME NEW s \in Symbols, Subscribe(s) PROVE [AdapterNext]_adapterVars
    BY <2>1, <2>2, <2>3, <2>5 DEF Subscribe
  <2>6. CASE Connect \/ Poll
    BY <2>1, <2>3, <2>6 DEF Connect, Poll
  <2>7. CASE Steps
    BY <2>1, <2>2, <2>3, <2>4, <2>7 DEF Steps, Attempt, Replay, PollAdapter, PollRetry
  <2>8. CASE Elapse \/ UNCHANGED lifecycleVars
    BY <2>3, <2>8 DEF Elapse, lifecycleVars
  <2> QED
    BY <2>1, <2>5, <2>6, <2>7, <2>8 DEF LifecycleNext
<1> QED
  BY InitLifecycleInv, NextLifecycleInv, <1>1, <1>2, PTL DEF LifecycleSpec, AdapterSpec

=============================================================================
