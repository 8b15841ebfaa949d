-------------------------------- MODULE Feed --------------------------------
(***************************************************************************)
(* The market feed: threads call ingest_broker_bar, which pushes a bar     *)
(* into a bounded lock-free queue (RingBuffer), counts what the push       *)
(* dropped, and broadcasts the bar to the subscribers of its channel;      *)
(* other threads pop the queue and receive.  Reading the metrics changes   *)
(* nothing and is left out.  Nothing holds a lock across two of these      *)
(* steps, so each access to the queue, to a counter or to the channel is   *)
(* an action of its own.  The counters are accessed with Relaxed ordering, *)
(* which orders nothing between two of them: a call's two drop counts      *)
(* become visible in either order.                                         *)
(*                                                                         *)
(* All bars belong to one channel: channels share nothing but the queue.   *)
(***************************************************************************)
EXTENDS Integers, Sequences, FiniteSets, SequencesExt

CONSTANTS Producers,         \* the threads that ingest bars
          Subscribers,       \* the receivers of the channel
          Policies,          \* the OverloadPolicy values the feed may be built with
          IngressCapacity,   \* FeedConfig.ingress_capacity, at least 1
          ChannelCapacity,   \* FeedConfig.channel_capacity, as rounded up to
                             \* a power of two by the broadcast channel
          MaxBars            \* bound: the number of bars a producer ingests

ASSUME FeedAssumption ==
    /\ Policies \subseteq {"DropNewest", "DropOldest"}
    /\ IngressCapacity \in Nat \ {0}
    /\ ChannelCapacity \in Nat \ {0}
    /\ MaxBars \in Nat

VARIABLES policy,       \* FeedConfig.overload_policy
          ingress,      \* the queue of the RingBuffer
          pc,           \* per producer: the next step of ingest_broker_bar
          count,        \* per producer: the bars it began to ingest
          result,       \* per producer: what its last push returned
          consumed,     \* the bars popped by pop_ingress, in order
          dropped, droppedNewest, droppedOldest, published,   \* the counters
          sent,         \* the bars the channel accepted, oldest first
          next,         \* per subscriber: its position in sent; Off if it is
                        \* not subscribed
          received,     \* per subscriber: the bars it received
          excused       \* per subscriber: the bars that were announced before
                        \* it subscribed or that it was told it missed

ringVars == <<ingress, result>>
counterVars == <<dropped, droppedNewest, droppedOldest, published>>
channelVars == <<sent, next, received, excused>>
feedVars == <<policy, ringVars, pc, count, consumed, counterVars, channelVars>>

Off == -1

\* No call of ingest_broker_bar is in progress.
Quiet == \A p \in Producers : pc[p] = "idle"

\* A bar is the n-th of its producer.
Bar == [by : Producers, n : 1 .. MaxBars]

Current(p) == [by |-> p, n |-> count[p]]

Results == {"Enqueued", "DroppedNewest", "DroppedOldest"}

FeedTypeOK ==
    /\ policy \in Policies
    /\ ingress \in Seq(Bar) /\ Len(ingress) <= IngressCapacity
    /\ pc \in [Producers ->
               {"idle", "full", "popped", "count", "total", "kind", "send", "publish"}]
    /\ count \in [Producers -> 0 .. MaxBars]
    /\ result \in [Producers -> Results]
    /\ consumed \in Seq(Bar)
    /\ dropped \in Nat /\ droppedNewest \in Nat /\ droppedOldest \in Nat
    /\ published \in Nat
    /\ sent \in Seq(Bar)
    /\ next \in [Subscribers -> {Off} \cup 0 .. Len(sent)]
    /\ received \in [Subscribers -> Seq(Bar)]
    /\ excused \in [Subscribers -> SUBSET Bar]

FeedInit ==
    /\ policy \in Policies
    /\ ingress = <<>> /\ consumed = <<>>
    /\ pc = [p \in Producers |-> "idle"]
    /\ count = [p \in Producers |-> 0]
    /\ result = [p \in Producers |-> "Enqueued"]
    /\ dropped = 0 /\ droppedNewest = 0 /\ droppedOldest = 0 /\ published = 0
    /\ sent = <<>>
    /\ next = [s \in Subscribers |-> Off]
    /\ received = [s \in Subscribers |-> <<>>]
    /\ excused = [s \in Subscribers |-> {}]

-----------------------------------------------------------------------------
(* ingest_broker_bar: RingBuffer::push, the counters, the broadcast.       *)

Goes(p, step) == pc' = [pc EXCEPT ![p] = step]

\* The end of push, and the branch taken on what it returned.
Return(p, r) ==
    /\ result' = [result EXCEPT ![p] = r]
    /\ Goes(p, IF r = "Enqueued" THEN "send" ELSE "count")

Begin(p) ==
    /\ pc[p] = "idle"
    /\ count[p] < MaxBars
    /\ count' = [count EXCEPT ![p] = @ + 1]

IsFull == Len(ingress) = IngressCapacity

\* The first attempt to push.
Push(p) ==
    /\ Begin(p)
    /\ \/ /\ ~IsFull
          /\ ingress' = Append(ingress, [by |-> p, n |-> count[p] + 1])
          /\ Return(p, "Enqueued")
       \/ /\ IsFull /\ policy = "DropNewest"
          /\ Return(p, "DroppedNewest")
          /\ UNCHANGED ingress
       \/ /\ IsFull /\ policy = "DropOldest"
          /\ Goes(p, "full")
          /\ UNCHANGED <<ingress, result>>
    /\ UNCHANGED <<consumed, counterVars, channelVars>>

\* Pops whatever is the oldest bar by now.
PopOldest(p) ==
    /\ pc[p] = "full"
    /\ \/ ingress # <<>> /\ ingress' = Tail(ingress)
       \/ ingress = <<>> /\ UNCHANGED ingress
    /\ Goes(p, "popped")
    /\ UNCHANGED <<count, result, consumed, counterVars, channelVars>>

\* Mutations of PushAgain: the result of the second attempt is ignored; the
\* bar takes the place of the one that was popped.
PushAgainUncounted(p) ==
    /\ pc[p] = "popped"
    /\ ingress' = IF IsFull THEN ingress ELSE Append(ingress, Current(p))
    /\ Return(p, "Enqueued")
    /\ UNCHANGED <<count, consumed, counterVars, channelVars>>

PushAgainInFront(p) ==
    /\ pc[p] = "popped"
    /\ \/ /\ ~IsFull
          /\ ingress' = <<Current(p)>> \o ingress
          /\ Return(p, "DroppedOldest")
       \/ /\ IsFull
          /\ Return(p, "DroppedNewest")
          /\ UNCHANGED ingress
    /\ UNCHANGED <<count, consumed, counterVars, channelVars>>

\* The second attempt: another thread may have taken the place.
PushAgain(p) ==
    /\ pc[p] = "popped"
    /\ \/ /\ ~IsFull
          /\ ingress' = Append(ingress, Current(p))
          /\ Return(p, "DroppedOldest")
       \/ /\ IsFull
          /\ Return(p, "DroppedNewest")
          /\ UNCHANGED ingress
    /\ UNCHANGED <<count, consumed, counterVars, channelVars>>

\* The two counts of a drop, in either order.
CountTotal(p) ==
    /\ \/ pc[p] = "count" /\ Goes(p, "kind")
       \/ pc[p] = "total" /\ Goes(p, "send")
    /\ dropped' = dropped + 1
    /\ UNCHANGED <<ringVars, count, consumed, droppedNewest, droppedOldest,
                   published, channelVars>>

CountKind(p) ==
    /\ \/ pc[p] = "count" /\ Goes(p, "total")
       \/ pc[p] = "kind" /\ Goes(p, "send")
    /\ \/ /\ result[p] = "DroppedNewest"
          /\ droppedNewest' = droppedNewest + 1
          /\ UNCHANGED droppedOldest
       \/ /\ result[p] = "DroppedOldest"
          /\ droppedOldest' = droppedOldest + 1
          /\ UNCHANGED droppedNewest
    /\ UNCHANGED <<ringVars, count, consumed, dropped, published, channelVars>>

\* Mutation of Broadcast: only a bar that the queue took is broadcast.
BroadcastIfEnqueued(p) ==
    /\ pc[p] = "send"
    /\ sent' = IF result[p] # "DroppedNewest" /\ \E s \in Subscribers : next[s] # Off
               THEN Append(sent, Current(p)) ELSE sent
    /\ Goes(p, "publish")
    /\ UNCHANGED <<ringVars, count, consumed, counterVars, next, received, excused>>

\* Distributor::broadcast.  A channel without a receiver does not keep the bar.
Broadcast(p) ==
    /\ pc[p] = "send"
    /\ sent' = IF \E s \in Subscribers : next[s] # Off
               THEN Append(sent, Current(p)) ELSE sent
    /\ Goes(p, "publish")
    /\ UNCHANGED <<ringVars, count, consumed, counterVars, next, received, excused>>

CountPublished(p) ==
    /\ pc[p] = "publish"
    /\ published' = published + 1
    /\ Goes(p, "idle")
    /\ UNCHANGED <<ringVars, count, consumed, dropped, droppedNewest,
                   droppedOldest, channelVars>>

Ingest(p) ==
    \/ Push(p) \/ PopOldest(p) \/ PushAgain(p)
    \/ CountTotal(p) \/ CountKind(p)
    \/ Broadcast(p) \/ CountPublished(p)

-----------------------------------------------------------------------------
(* The other users of the feed.                                            *)

PopIngress ==
    /\ ingress # <<>>
    /\ consumed' = Append(consumed, Head(ingress))
    /\ ingress' = Tail(ingress)
    /\ UNCHANGED <<pc, count, result, counterVars, channelVars>>

\* The bars whose broadcast has been done, with or without a receiver.
Announced ==
    {b \in Bar :
        b.n < count[b.by] \/ (b.n = count[b.by] /\ pc[b.by] \in {"publish", "idle"})}

\* A new receiver gets what is sent from now on.
Subscribe(s) ==
    /\ next[s] = Off /\ received[s] = <<>>
    /\ next' = [next EXCEPT ![s] = Len(sent)]
    /\ excused' = [excused EXCEPT ![s] = Announced]
    /\ UNCHANGED <<ringVars, pc, count, consumed, counterVars, sent, received>>

\* The receiver is dropped.
Unsubscribe(s) ==
    /\ next[s] # Off
    /\ next' = [next EXCEPT ![s] = Off]
    /\ UNCHANGED <<ringVars, pc, count, consumed, counterVars, sent, received,
                   excused>>

\* The channel keeps the last ChannelCapacity bars.  A receiver that fell
\* behind is told so once and then goes on with the oldest bar kept.
Receive(s) ==
    LET oldest == Len(sent) - ChannelCapacity
    IN  /\ next[s] # Off /\ next[s] < Len(sent)
        /\ \/ /\ next[s] >= oldest
              /\ received' = [received EXCEPT ![s] = Append(@, sent[next[s] + 1])]
              /\ next' = [next EXCEPT ![s] = @ + 1]
              /\ UNCHANGED excused
           \/ /\ next[s] < oldest
              /\ next' = [next EXCEPT ![s] = oldest]
              /\ excused' = [excused EXCEPT ![s] = @ \cup {sent[i] : i \in next[s] + 1 .. oldest}]
              /\ UNCHANGED received
        /\ UNCHANGED <<ringVars, pc, count, consumed, counterVars, sent>>

-----------------------------------------------------------------------------

FeedNext ==
    /\ \/ \E p \in Producers : Ingest(p)
       \/ PopIngress
       \/ \E s \in Subscribers : Subscribe(s) \/ Unsubscribe(s) \/ Receive(s)
    /\ UNCHANGED policy

FeedSpec == FeedInit /\ [][FeedNext]_feedVars

-----------------------------------------------------------------------------
(* Properties.                                                             *)

Ingested == {b \in Bar : b.n <= count[b.by]}

\* The bars that were ingested and that no pop_ingress returned or will.
Lost == Ingested \ (Range(ingress) \cup Range(consumed))

\* The counters bound the loss.  With DropNewest the total is exact however
\* many threads there are.  With DropOldest a call that returns DroppedNewest
\* may have lost two bars, the oldest one and its own, when another thread
\* filled the place it made: as many bars as the counters say, and one more
\* for each newest bar dropped, is the most that is lost.
LossBounded ==
    Quiet => IF policy = "DropNewest" THEN dropped = Cardinality(Lost)
             ELSE Cardinality(Lost) <= droppedOldest + 2 * droppedNewest

\* What the metrics are said to be: the total of the bars dropped.  No bar is
\* lost that the total does not count.
LossCounted == Quiet => Cardinality(Lost) <= dropped

\* The queue gives up the bars of one producer in the order of ingestion,
\* and each at most once, whichever threads pop and evict in between.
QueueOrder ==
    LET out == consumed \o ingress
    IN  \A i, j \in DOMAIN out :
            i < j /\ out[i].by = out[j].by => out[i].n < out[j].n

\* Dropping concerns the queue only: a subscriber gets every bar, those the
\* queue gave up included, except those announced before it subscribed and
\* those that it was told it missed.
Delivered ==
    \A s \in Subscribers :
        next[s] # Off =>
            Announced \ excused[s]
                = Range(received[s]) \cup {sent[i] : i \in next[s] + 1 .. Len(sent)}

=============================================================================
