------------------------------ MODULE Lifecycle ------------------------------
(***************************************************************************)
(* ResilientAdapter of the broker crate: it keeps a subscription list and  *)
(* drives an ExchangeAdapter through connecting, replaying subscriptions,  *)
(* heartbeats and polls.  It runs in the caller's thread and blocks, so    *)
(* what interleaves with it is the adapter's connection: it can break      *)
(* between any two calls the ResilientAdapter makes.                       *)
(*                                                                         *)
(* The adapter is any that ExchangeAdapter describes.                      *)
(***************************************************************************)
EXTENDS ExchangeAdapter, Integers, Sequences, SequencesExt

CONSTANTS Retries,      \* ReconnectPolicy.max_retries, at least 1
          MaxFaults     \* bound: broken connections and failed calls

ASSUME LifecycleAssumption ==
    /\ Retries \in Nat \ {0}
    /\ MaxFaults \in Nat

VARIABLES connected,       \* ResilientAdapter.connected
          seen,            \* the time since last_seen
          subscriptions,   \* ResilientAdapter.subscriptions
          pc,              \* the adapter call that is due
          resume,          \* what follows a reconnect that succeeds
          attempt,         \* the failed attempts of this reconnect
          todo,            \* the subscriptions still to replay
          outcome,         \* what the last call of a caller returned
          ever,            \* the subscriptions a working connection has taken
          faults,          \* the faults so far
          reported         \* an error was returned on this connection

resilientVars == <<connected, seen, subscriptions, pc, resume, attempt, todo, outcome>>
environmentVars == <<adapterVars, ever, faults>>
lifecycleVars == <<resilientVars, environmentVars, reported>>

LifecycleTypeOK ==
    /\ connected \in BOOLEAN
    /\ seen \in {"never", "fresh", "due", "expired"}
    /\ subscriptions \in Seq(Symbols) /\ IsInjective(subscriptions)
    /\ pc \in {"idle", "connecting", "replaying", "polling", "retrying"}
    /\ resume \in {"idle", "polling", "retrying"}
    /\ attempt \in 0 .. Retries - 1
    /\ todo \in Seq(Symbols)
    /\ outcome \in {"none", "ok", "error"}
    /\ link \in {"down", "up", "silent"}
    /\ live \subseteq Symbols /\ ever \subseteq Symbols
    /\ call \in {"none", "connected", "ok", "error"} \cup Symbols
    /\ faults \in 0 .. MaxFaults
    /\ reported \in BOOLEAN
    /\ connected => seen # "never"

LifecycleInit ==
    /\ connected = FALSE /\ seen = "never"
    /\ subscriptions = <<>>
    /\ pc = "idle" /\ resume = "idle" /\ attempt = 0 /\ todo = <<>>
    /\ outcome = "none"
    /\ AdapterInit
    /\ ever = {} /\ faults = 0
    /\ reported = FALSE

-----------------------------------------------------------------------------
(* The calls of the adapter.  A connection that is up fails by a fault.    *)

Fault == faults < MaxFaults /\ faults' = faults + 1

Succeeds == CallSucceeds /\ UNCHANGED <<ever, faults>>

Fails ==
    /\ CallFails
    /\ \/ link = "up" /\ Fault
       \/ link # "up" /\ UNCHANGED faults
    /\ UNCHANGED ever

Accepts(s) ==
    /\ SubscribeSucceeds(s)
    /\ ever' = IF link' = "up" THEN ever \cup {s} ELSE ever
    /\ UNCHANGED faults

Connects == ConnectSucceeds /\ UNCHANGED <<ever, faults>>

Refuses == Fault /\ CallFails /\ link' = "down" /\ UNCHANGED ever

Breaks == LinkBreaks /\ Fault /\ UNCHANGED <<resilientVars, ever, reported>>

-----------------------------------------------------------------------------
(* The ResilientAdapter.                                                   *)

ReturnOk == pc' = "idle" /\ outcome' = "ok" /\ UNCHANGED reported
ReturnError == pc' = "idle" /\ outcome' = "error" /\ reported' = TRUE

\* subscribe_symbol: the symbol stays listed when the adapter refuses it.
Subscribe(s) ==
    /\ pc = "idle"
    /\ subscriptions' = IF s \in Range(subscriptions) THEN subscriptions
                        ELSE Append(subscriptions, s)
    /\ \/ ~connected /\ ReturnOk /\ UNCHANGED environmentVars
       \/ connected /\ Accepts(s) /\ ReturnOk
       \/ connected /\ Fails /\ ReturnError
    /\ UNCHANGED <<connected, seen, resume, attempt, todo>>

\* The start of reconnect_with_backoff.
Reconnect(next) ==
    /\ pc' = "connecting"
    /\ resume' = next
    /\ attempt' = 0
    /\ UNCHANGED <<subscriptions, todo, outcome, reported>>

Connect ==
    /\ pc = "idle"
    /\ Reconnect("idle")
    /\ UNCHANGED <<connected, seen, environmentVars>>

GoPoll == pc' = "polling" /\ UNCHANGED <<resume, attempt, outcome, reported>>

\* poll_bar up to the adapter's poll: ensure_live.
Poll ==
    /\ pc = "idle"
    /\ \/ /\ ~connected
          /\ Reconnect("polling")
          /\ UNCHANGED <<connected, seen, environmentVars>>
       \/ /\ connected /\ seen = "expired"
          /\ connected' = FALSE
          /\ Reconnect("polling")
          /\ UNCHANGED <<seen, environmentVars>>
       \/ /\ connected /\ seen = "due"
          /\ Fails
          /\ connected' = FALSE
          /\ Reconnect("polling")
          /\ UNCHANGED seen
       \/ /\ connected /\ seen = "due"
          /\ Succeeds
          /\ seen' = "fresh"
          /\ GoPoll
          /\ UNCHANGED <<connected, subscriptions, todo>>
       \/ /\ connected /\ seen = "fresh"
          /\ GoPoll
          /\ UNCHANGED <<connected, seen, subscriptions, todo, environmentVars>>

\* One attempt of reconnect_with_backoff.
Attempt ==
    /\ pc = "connecting"
    /\ \/ /\ Connects
          /\ connected' = TRUE
          /\ seen' = "fresh"
          /\ todo' = subscriptions
          /\ pc' = "replaying"
          /\ reported' = FALSE
          /\ UNCHANGED <<attempt, outcome>>
       \/ /\ Refuses
          /\ attempt + 1 < Retries
          /\ attempt' = attempt + 1
          /\ UNCHANGED <<connected, seen, todo, pc, outcome, reported>>
       \/ /\ Refuses
          /\ attempt + 1 = Retries
          /\ ReturnError
          /\ UNCHANGED <<connected, seen, todo, attempt>>
    /\ UNCHANGED <<subscriptions, resume>>

\* Mutations of Replay: an error of the adapter ends the replay but is not
\* returned; the replay does not advance.
ReplayErrorIgnored ==
    /\ pc = "replaying"
    /\ \/ todo # <<>> /\ Accepts(Head(todo)) /\ todo' = Tail(todo) /\ UNCHANGED pc
       \/ todo # <<>> /\ Fails /\ todo' = Tail(todo) /\ UNCHANGED pc
       \/ todo = <<>> /\ pc' = resume /\ UNCHANGED <<todo, environmentVars>>
    /\ UNCHANGED <<connected, seen, subscriptions, resume, attempt, outcome, reported>>

ReplayStays ==
    /\ pc = "replaying"
    /\ \/ todo # <<>> /\ Accepts(Head(todo)) /\ UNCHANGED <<pc, outcome, reported>>
       \/ todo # <<>> /\ Fails /\ ReturnError
       \/ todo = <<>> /\ ReturnOk /\ UNCHANGED environmentVars
    /\ UNCHANGED <<connected, seen, subscriptions, resume, attempt, todo>>

\* One step of replay_subscriptions, or the return from it.
Replay ==
    /\ pc = "replaying"
    /\ \/ /\ todo # <<>>
          /\ Accepts(Head(todo))
          /\ todo' = Tail(todo)
          /\ UNCHANGED <<pc, outcome, reported>>
       \/ /\ todo # <<>>
          /\ Fails
          /\ ReturnError
          /\ UNCHANGED todo
       \/ /\ todo = <<>> /\ resume = "idle"
          /\ ReturnOk
          /\ UNCHANGED <<todo, environmentVars>>
       \/ /\ todo = <<>> /\ resume # "idle"
          /\ pc' = resume
          /\ UNCHANGED <<todo, outcome, reported, environmentVars>>
    /\ UNCHANGED <<connected, seen, subscriptions, resume, attempt>>

\* Mutation of PollAdapter: the error is returned, and the connection is
\* still taken for a good one.
PollAdapterGivesUp ==
    /\ pc = "polling"
    /\ \/ Succeeds /\ seen' = "fresh" /\ ReturnOk
       \/ Fails /\ ReturnError /\ UNCHANGED seen
    /\ UNCHANGED <<connected, subscriptions, resume, attempt, todo>>

PollAdapter ==
    /\ pc = "polling"
    /\ \/ /\ Succeeds
          /\ seen' = "fresh"
          /\ ReturnOk
          /\ UNCHANGED <<connected, subscriptions, resume, attempt, todo>>
       \/ /\ Fails
          /\ connected' = FALSE
          /\ Reconnect("retrying")
          /\ UNCHANGED seen

\* The second poll of poll_bar; its error leaves connected as it is.
PollRetry ==
    /\ pc = "retrying"
    /\ \/ Succeeds /\ seen' = "fresh" /\ ReturnOk
       \/ Fails /\ ReturnError /\ UNCHANGED seen
    /\ UNCHANGED <<connected, subscriptions, resume, attempt, todo>>

\* Time passes between two calls, past the heartbeat interval or past the
\* heartbeat timeout.
Elapse ==
    /\ pc = "idle"
    /\ \/ seen = "fresh" /\ seen' \in {"due", "expired"}
       \/ seen = "due" /\ seen' = "expired"
    /\ UNCHANGED <<connected, subscriptions, pc, resume, attempt, todo, outcome,
                   environmentVars, reported>>

Steps == Attempt \/ Replay \/ PollAdapter \/ PollRetry

LifecycleNext ==
    \/ \E s \in Symbols : Subscribe(s)
    \/ Connect \/ Poll \/ Steps
    \/ Elapse \/ Breaks

\* A call that has begun goes on, and the caller polls again and again: the
\* pump does so until a poll fails, and the assumption here is a caller that
\* then pumps again.  Time need not pass a heartbeat interval between polls.
LifecycleSpec ==
    /\ LifecycleInit /\ [][LifecycleNext]_lifecycleVars
    /\ WF_lifecycleVars(Steps)
    /\ WF_lifecycleVars(Poll)

-----------------------------------------------------------------------------
(* Properties.                                                             *)

\* A caller has control and the connection is up and relied upon.
Serving == pc = "idle" /\ connected /\ link = "up"

\* After a reconnect the subscriptions are back: when a call has returned Ok
\* and the connection works, it carries all that earlier ones carried.
SubscriptionsRestored == Serving /\ outcome = "ok" => ever \subseteq live

\* Where a working connection does not carry a listed symbol, a call has
\* returned an error since that connection was made: none is forgotten while
\* all calls return Ok, neither by a reconnect inside a poll nor by one that
\* was cut short before.  The error need not be about the symbol.
NothingMissedSilently ==
    Serving /\ ~(Range(subscriptions) \subseteq live) => reported

\* Every call returns: the loops of reconnect and replay end.
CallReturns == pc # "idle" ~> pc = "idle"

\* When the faults cease, a caller that keeps polling has a connection that
\* works and sees no more errors, whichever calls were cut short before.  The
\* exception is a connection that died without an error: no poll finds it out.
SelfHeals == <>[](link = "silent" \/ (link = "up" /\ outcome # "error"))

=============================================================================
