------------------------------ MODULE FeedProofs ------------------------------
(***************************************************************************)
(* Proofs about Feed, for any number of producers and subscribers, any     *)
(* capacities and either policy: what the queue gives up and what a        *)
(* subscriber receives is in order, nothing that was sent is missed        *)
(* without a word, and the counters bound what the queue lost.             *)
(*                                                                         *)
(* The invariant has three parts, one for the queue, one for the channel   *)
(* and one for the counters.  Each relates what is stored to how far the   *)
(* calls of ingest_broker_bar have come, which is what makes it inductive. *)
(***************************************************************************)
EXTENDS Feed, FiniteLemmas

-----------------------------------------------------------------------------
(* Order.                                                                  *)

\* All bars of A are older than the bars of the same producer in B.
Before(A, B) == \A x \in A, y \in B : x.by = y.by => x.n < y.n

InOrder(q) ==
    \A i, j \in 1 .. Len(q) : i < j /\ q[i].by = q[j].by => q[i].n < q[j].n

\* The bars whose producer is done with the queue.
Decided ==
    {b \in Bar :
        b.n < count[b.by] \/ (b.n = count[b.by] /\ pc[b.by] \notin {"full", "popped"})}

QueueInv ==
    /\ InOrder(consumed) /\ InOrder(ingress)
    /\ Before(Range(consumed), Range(ingress))
    /\ Range(consumed) \cup Range(ingress) \subseteq Decided

\* The bars that were sent and that a subscriber has still to receive.
Ahead(s) == {sent[i] : i \in next[s] + 1 .. Len(sent)}

ChannelInv ==
    /\ InOrder(sent) /\ Range(sent) \subseteq Announced
    /\ \A s \in Subscribers :
           /\ Range(received[s]) \subseteq Announced
           /\ excused[s] \subseteq Announced
           /\ next[s] # Off =>
                  /\ Before(Range(received[s]), Ahead(s))
                  /\ Announced \ excused[s] = Range(received[s]) \cup Ahead(s)

-----------------------------------------------------------------------------
(* Counting.                                                               *)

\* The calls that have still to count a bar in the total.
Uncounted == {p \in Producers : pc[p] \in {"count", "total"}}

\* The calls that have lost a bar, or hold one that is nowhere yet, and have not
\* counted it by its kind ...
Owing == {p \in Producers : pc[p] \in {"full", "popped", "count", "kind"}}

\* ... and those of them that may have lost a second one.
OwingTwice ==
    {p \in Producers :
        pc[p] = "popped" \/ (pc[p] \in {"count", "kind"} /\ result[p] = "DroppedNewest")}

LossInv ==
    /\ IsFiniteSet(Lost)
    /\ IsFiniteSet(Uncounted) /\ IsFiniteSet(Owing) /\ IsFiniteSet(OwingTwice)
    /\ Cardinality(Lost)
           <= droppedOldest + 2 * droppedNewest + Cardinality(Owing) + Cardinality(OwingTwice)
    /\ policy = "DropNewest" =>
           /\ Cardinality(Lost) = dropped + Cardinality(Uncounted)
           /\ \A p \in Producers : pc[p] \notin {"full", "popped"}

\* A call that is under way has begun with a bar.
CallsBegun == \A p \in Producers : pc[p] # "idle" => count[p] >= 1

FeedInv == FeedTypeOK /\ CallsBegun /\ QueueInv /\ ChannelInv /\ LossInv

-----------------------------------------------------------------------------
(* Sequences of bars.                                                      *)

LEMMA BarFields ==
    /\ MaxBars \in Nat
    /\ \A b \in Bar : /\ b.by \in Producers /\ b.n \in 1 .. MaxBars /\ b.n \in Nat
                      /\ b = [by |-> b.by, n |-> b.n]
    /\ \A p \in Producers, k \in 1 .. MaxBars : LET b == [by |-> p, n |-> k] IN
           b \in Bar /\ b.by = p /\ b.n = k
BY FeedAssumption DEF Bar

\* What a bar at the end adds.
LEMMA AppendRange ==
    ASSUME NEW q \in Seq(Bar), NEW b \in Bar
    PROVE  Append(q, b) \in Seq(Bar) /\ Range(Append(q, b)) = Range(q) \cup {b}
<1> DEFINE r == Append(q, b)
<1>1. /\ r \in Seq(Bar) /\ Len(r) = Len(q) + 1 /\ Len(q) \in Nat
      /\ \A i \in 1 .. Len(q) : r[i] = q[i]
      /\ r[Len(q) + 1] = b
  BY AppendProperties
<1>2. DOMAIN q = 1 .. Len(q) /\ DOMAIN r = 1 .. Len(q) + 1
  BY <1>1
<1> HIDE DEF r
<1>3. \A i \in 1 .. Len(q) + 1 : i \in 1 .. Len(q) \/ i = Len(q) + 1
  BY <1>1
<1>4. (\A i \in 1 .. Len(q) : i \in 1 .. Len(q) + 1) /\ Len(q) + 1 \in 1 .. Len(q) + 1
  BY <1>1
<1>5. Range(r) = Range(q) \cup {b}
  BY <1>1, <1>2, <1>3, <1>4 DEF Range
<1> QED
  BY <1>1, <1>5 DEF r

\* A newer bar goes to the end.
LEMMA AppendOrder ==
    ASSUME NEW q \in Seq(Bar), NEW b \in Bar, InOrder(q), Before(Range(q), {b})
    PROVE  /\ Append(q, b) \in Seq(Bar) /\ InOrder(Append(q, b))
           /\ Range(Append(q, b)) = Range(q) \cup {b}
           /\ Len(Append(q, b)) = Len(q) + 1 /\ Len(q) \in Nat
           /\ \A i \in 1 .. Len(q) : Append(q, b)[i] = q[i]
           /\ Append(q, b)[Len(q) + 1] = b
<1> DEFINE r == Append(q, b)
<1>1. /\ r \in Seq(Bar) /\ Len(r) = Len(q) + 1 /\ Len(q) \in Nat
      /\ \A i \in 1 .. Len(q) : r[i] = q[i]
      /\ r[Len(q) + 1] = b
  BY AppendProperties
<1>2. DOMAIN q = 1 .. Len(q) /\ DOMAIN r = 1 .. Len(q) + 1
  BY <1>1
<1> HIDE DEF r
<1>3. \A i \in 1 .. Len(q) + 1 : i \in 1 .. Len(q) \/ i = Len(q) + 1
  BY <1>1
<1>5. Range(r) = Range(q) \cup {b}
  BY AppendRange DEF r
<1>6. \A i \in 1 .. Len(q) : q[i].by = b.by => q[i].n < b.n
  BY <1>2 DEF Before, Range
<1>7. InOrder(r)
  <2> SUFFICES ASSUME NEW i \in 1 .. Len(r), NEW j \in 1 .. Len(r), i < j, r[i].by = r[j].by
               PROVE  r[i].n < r[j].n
    BY DEF InOrder
  <2>1. i \in 1 .. Len(q)
    BY <1>1
  <2>2. CASE j \in 1 .. Len(q)
    BY <1>1, <2>1, <2>2 DEF InOrder
  <2>3. CASE j = Len(q) + 1
    BY <1>1, <1>6, <2>1, <2>3
  <2> QED
    BY <1>1, <1>3, <2>2, <2>3
<1> QED
  BY <1>1, <1>5, <1>7 DEF r

\* The oldest bar is taken out.
LEMMA TailOrder ==
    ASSUME NEW q \in Seq(Bar), q # <<>>, InOrder(q)
    PROVE  /\ Tail(q) \in Seq(Bar) /\ InOrder(Tail(q)) /\ Head(q) \in Bar
           /\ Range(q) = Range(Tail(q)) \cup {Head(q)}
           /\ Before({Head(q)}, Range(Tail(q)))
           /\ Len(Tail(q)) = Len(q) - 1 /\ Len(q) \in Nat
<1> DEFINE r == Tail(q)
<1>1. /\ r \in Seq(Bar) /\ Head(q) = q[1] /\ Head(q) \in Bar
      /\ Len(r) = Len(q) - 1 /\ Len(q) \in Nat \ {0}
      /\ \A i \in 1 .. Len(q) - 1 : r[i] = q[i + 1]
  BY HeadTailProperties
<1>2. Range(q) = Range(r) \cup {Head(q)}
  BY TailRange
<1>3. DOMAIN r = 1 .. Len(q) - 1
  BY <1>1
<1> HIDE DEF r
<1>4. \A i \in 1 .. Len(q) - 1 : i + 1 \in 1 .. Len(q) /\ 1 \in 1 .. Len(q) /\ 1 < i + 1
  BY <1>1
<1>5. InOrder(r)
  <2> SUFFICES ASSUME NEW i \in 1 .. Len(r), NEW j \in 1 .. Len(r), i < j, r[i].by = r[j].by
               PROVE  r[i].n < r[j].n
    BY DEF InOrder
  <2>1. i + 1 \in 1 .. Len(q) /\ j + 1 \in 1 .. Len(q) /\ i + 1 < j + 1
    BY <1>1
  <2>2. r[i] = q[i + 1] /\ r[j] = q[j + 1]
    BY <1>1
  <2> QED
    BY <2>1, <2>2 DEF InOrder
<1>6. Before({Head(q)}, Range(r))
  BY <1>1, <1>3, <1>4 DEF Before, Range, InOrder
<1> QED
  BY <1>1, <1>2, <1>5, <1>6 DEF r

LEMMA RangeBars ==
    ASSUME NEW q \in Seq(Bar)
    PROVE  Range(q) \subseteq Bar /\ Range(q) = {q[i] : i \in 1 .. Len(q)}
<1>1. DOMAIN q = 1 .. Len(q) /\ \A i \in 1 .. Len(q) : q[i] \in Bar
  OBVIOUS
<1> QED
  BY <1>1 DEF Range

\* No bar is in a sequence twice.
LEMMA OnlyOnce ==
    ASSUME NEW q \in Seq(Bar), InOrder(q)
    PROVE  \A i, j \in 1 .. Len(q) : i < j => q[i] # q[j]
<1>1. \A i \in 1 .. Len(q) : q[i] \in Bar /\ q[i].n \in Nat
  BY BarFields
<1> QED
  BY <1>1 DEF InOrder

-----------------------------------------------------------------------------
(* The steps of a call.                                                    *)

LEMMA TypeFacts ==
    ASSUME FeedTypeOK
    PROVE  /\ ingress \in Seq(Bar) /\ consumed \in Seq(Bar) /\ sent \in Seq(Bar)
           /\ Len(ingress) \in Nat /\ Len(sent) \in Nat /\ Len(ingress) <= IngressCapacity
           /\ MaxBars \in Nat /\ IngressCapacity \in Nat /\ ChannelCapacity \in Nat \ {0}
           /\ \A p \in Producers : count[p] \in Nat /\ count[p] <= MaxBars
           /\ dropped \in Nat /\ droppedNewest \in Nat /\ droppedOldest \in Nat
           /\ Off \notin Nat
<1>1. /\ ingress \in Seq(Bar) /\ consumed \in Seq(Bar) /\ sent \in Seq(Bar)
      /\ Len(ingress) \in Nat /\ Len(sent) \in Nat /\ Len(ingress) <= IngressCapacity
      /\ dropped \in Nat /\ droppedNewest \in Nat /\ droppedOldest \in Nat
  BY DEF FeedTypeOK
<1>2. MaxBars \in Nat /\ IngressCapacity \in Nat /\ ChannelCapacity \in Nat \ {0}
  BY FeedAssumption
<1>3. \A p \in Producers : count[p] \in 0 .. MaxBars
  BY DEF FeedTypeOK
<1> QED
  BY <1>1, <1>2, <1>3 DEF Off

\* A call moves on with the bar it has: what that means for the sets of bars and of
\* calls that the invariant speaks of.
LEMMA MoveFacts ==
    ASSUME FeedTypeOK, CallsBegun, NEW p \in Producers,
           NEW x \in {"idle", "full", "popped", "count", "total", "kind", "send", "publish"},
           Goes(p, x), pc[p] # "idle", count' = count
    PROVE  /\ pc' \in [Producers ->
                  {"idle", "full", "popped", "count", "total", "kind", "send", "publish"}]
           /\ pc'[p] = x /\ \A o \in Producers \ {p} : pc'[o] = pc[o]
           /\ CallsBegun'
           /\ Current(p) \in Bar /\ Current(p).by = p /\ Current(p).n = count[p]
           /\ Ingested' = Ingested /\ Current(p) \in Ingested
           /\ (pc[p] \in {"publish"} <=> x \in {"publish", "idle"}) => Announced' = Announced
           /\ pc[p] = "send" /\ x = "publish" =>
                  Announced' = Announced \cup {Current(p)} /\ Current(p) \notin Announced
           /\ x \notin {"full", "popped"} => Decided \subseteq Decided' /\ Current(p) \in Decided'
           /\ pc[p] \in {"full", "popped"} /\ x \in {"full", "popped"} => Decided' = Decided
           /\ pc[p] \in {"full", "popped"} => Current(p) \notin Decided
<1>1. /\ pc' \in [Producers ->
             {"idle", "full", "popped", "count", "total", "kind", "send", "publish"}]
      /\ pc'[p] = x /\ \A o \in Producers \ {p} : pc'[o] = pc[o]
  BY DEF FeedTypeOK, Goes
<1>2. CallsBegun'
  BY <1>1 DEF CallsBegun
<1>3. count[p] \in 1 .. MaxBars
  BY TypeFacts DEF CallsBegun
<1>4. Current(p) \in Bar /\ Current(p).by = p /\ Current(p).n = count[p]
  BY <1>3, BarFields DEF Current
<1>5. Ingested' = Ingested /\ Current(p) \in Ingested
  BY <1>3, <1>4 DEF Ingested
<1>6. \A b \in Bar : b.by = p /\ b.n = count[p] => b = Current(p)
  BY BarFields DEF Current
<1>7. \A b \in Bar : /\ b.by \in Producers
                     /\ b.by # p => pc'[b.by] = pc[b.by]
                     /\ b.by = p => pc'[b.by] = x
  BY <1>1, BarFields
<1>8. (pc[p] \in {"publish"} <=> x \in {"publish", "idle"}) => Announced' = Announced
  <2> SUFFICES ASSUME pc[p] \in {"publish"} <=> x \in {"publish", "idle"}
               PROVE  Announced' = Announced
    OBVIOUS
  <2>1. \A b \in Bar : pc'[b.by] \in {"publish", "idle"} <=> pc[b.by] \in {"publish", "idle"}
    BY <1>7
  <2> QED
    BY <2>1 DEF Announced
<1>9. ASSUME pc[p] = "send", x = "publish"
      PROVE  Announced' = Announced \cup {Current(p)} /\ Current(p) \notin Announced
  <2>1. Current(p) \notin Announced
    BY <1>3, <1>4, <1>9 DEF Announced
  <2>2. \A b \in Bar : b # Current(p) =>
            (b.n = count[b.by] /\ pc'[b.by] \in {"publish", "idle"}
                 <=> b.n = count[b.by] /\ pc[b.by] \in {"publish", "idle"})
    BY <1>6, <1>7
  <2>3. Current(p).n = count[Current(p).by] /\ pc'[Current(p).by] \in {"publish", "idle"}
    BY <1>1, <1>4, <1>9
  <2> QED
    BY <1>4, <2>1, <2>2, <2>3 DEF Announced
<1>10. ASSUME x \notin {"full", "popped"}
       PROVE  Decided \subseteq Decided' /\ Current(p) \in Decided'
  BY <1>4, <1>7, <1>10 DEF Decided
<1>11. ASSUME pc[p] \in {"full", "popped"}, x \in {"full", "popped"} PROVE Decided' = Decided
  <2>1. \A b \in Bar : pc'[b.by] \in {"full", "popped"} <=> pc[b.by] \in {"full", "popped"}
    BY <1>7, <1>11
  <2> QED
    BY <2>1 DEF Decided
<1>12. ASSUME pc[p] \in {"full", "popped"} PROVE Current(p) \notin Decided
  BY <1>3, <1>4, <1>12 DEF Decided
<1> QED
  BY <1>1, <1>2, <1>4, <1>5, <1>8, <1>9, <1>10, <1>11, <1>12

\* A call begins with the next bar of its producer.
LEMMA BeginFacts ==
    ASSUME FeedTypeOK, CallsBegun, NEW p \in Producers,
           NEW x \in {"full", "count", "send"}, Goes(p, x), Begin(p)
    PROVE  LET b == [by |-> p, n |-> count[p] + 1] IN
           /\ pc' \in [Producers ->
                  {"idle", "full", "popped", "count", "total", "kind", "send", "publish"}]
           /\ pc'[p] = x /\ \A o \in Producers \ {p} : pc'[o] = pc[o]
           /\ count' \in [Producers -> 0 .. MaxBars] /\ count'[p] = count[p] + 1
           /\ CallsBegun' /\ pc[p] = "idle"
           /\ b \in Bar /\ b.by = p /\ b.n = count[p] + 1
           /\ b \notin Ingested /\ Ingested' = Ingested \cup {b} /\ Announced' = Announced
           /\ Decided \subseteq Decided' /\ Before(Decided, {b})
           /\ x # "full" => b \in Decided'
<1> DEFINE b == [by |-> p, n |-> count[p] + 1]
<1>1. /\ pc[p] = "idle" /\ count[p] < MaxBars /\ count[p] \in Nat /\ MaxBars \in Nat
      /\ count' = [count EXCEPT ![p] = count[p] + 1] /\ pc' = [pc EXCEPT ![p] = x]
  BY TypeFacts DEF Begin, Goes
<1>2. /\ pc' \in [Producers ->
             {"idle", "full", "popped", "count", "total", "kind", "send", "publish"}]
      /\ pc'[p] = x /\ \A o \in Producers \ {p} : pc'[o] = pc[o]
  BY <1>1 DEF FeedTypeOK
<1>3. /\ count' \in [Producers -> 0 .. MaxBars] /\ count'[p] = count[p] + 1
      /\ \A o \in Producers \ {p} : count'[o] = count[o]
  <2>1. count[p] + 1 \in 0 .. MaxBars
    BY <1>1
  <2> QED
    BY <1>1, <2>1 DEF FeedTypeOK
<1>4. CallsBegun'
  BY <1>1, <1>2, <1>3 DEF CallsBegun
<1>5. b \in Bar /\ b.by = p /\ b.n = count[p] + 1
  <2>1. count[p] + 1 \in 1 .. MaxBars
    BY <1>1
  <2> QED
    BY <2>1, BarFields
<1>6. \A c \in Bar : c.by = p /\ c.n = count[p] + 1 => c = b
  BY BarFields
<1> HIDE DEF b
<1>7. \A c \in Bar :
          /\ c.n \in Nat /\ c.by \in Producers
          /\ c.by = p => count'[c.by] = count[p] + 1 /\ pc'[c.by] = x
          /\ c.by # p => count'[c.by] = count[c.by] /\ pc'[c.by] = pc[c.by]
  BY <1>2, <1>3, BarFields
<1>8. b \notin Ingested
  BY <1>1, <1>5 DEF Ingested
<1>9. Ingested' = Ingested \cup {b}
  <2>1. \A c \in Bar : c.n <= count'[c.by] <=> c.n <= count[c.by] \/ c = b
    BY <1>1, <1>5, <1>6, <1>7
  <2> QED
    BY <1>5, <2>1 DEF Ingested
<1>10. Announced' = Announced
  <2>1. \A c \in Bar :
            (c.n < count'[c.by] \/ (c.n = count'[c.by] /\ pc'[c.by] \in {"publish", "idle"}))
                <=> (c.n < count[c.by] \/ (c.n = count[c.by] /\ pc[c.by] \in {"publish", "idle"}))
    BY <1>1, <1>7
  <2> QED
    BY <2>1 DEF Announced
<1>11. Decided \subseteq Decided'
  BY <1>1, <1>7 DEF Decided
<1>12. Before(Decided, {b})
  BY <1>1, <1>5, <1>7 DEF Before, Decided
<1>13. x # "full" => b \in Decided'
  BY <1>5, <1>7 DEF Decided
<1> QED
  BY <1>1, <1>2, <1>3, <1>4, <1>5, <1>8, <1>9, <1>10, <1>11, <1>12, <1>13 DEF b

\* The bar of a call is newer than what its producer has done with before.
LEMMA CurrentIsNewest ==
    ASSUME FeedTypeOK, CallsBegun, NEW p \in Producers
    PROVE  /\ pc[p] \in {"full", "popped"} => Before(Decided, {Current(p)})
           /\ pc[p] = "send" => Before(Announced, {Current(p)})
<1>1. Current(p).by = p /\ Current(p).n = count[p] /\ count[p] \in Nat
  BY TypeFacts DEF Current
<1>2. \A b \in Bar : b.n \in Nat
  BY BarFields
<1> QED
  BY <1>1, <1>2 DEF Before, Decided, Announced

-----------------------------------------------------------------------------
(* The queue.                                                              *)

LEMMA QueueSame ==
    ASSUME QueueInv, UNCHANGED <<ingress, consumed>>, Decided \subseteq Decided'
    PROVE  QueueInv'
<1>1. Range(ingress)' = Range(ingress) /\ Range(consumed)' = Range(consumed)
  OBVIOUS
<1> QED
  BY <1>1 DEF QueueInv, InOrder, Before

LEMMA QueuePush ==
    ASSUME FeedTypeOK, QueueInv, NEW b \in Bar, ingress' = Append(ingress, b),
           consumed' = consumed, Before(Decided, {b}), Decided \subseteq Decided', b \in Decided'
    PROVE  /\ QueueInv' /\ ingress' \in Seq(Bar) /\ Len(ingress') = Len(ingress) + 1
           /\ Range(ingress') = Range(ingress) \cup {b}
<1>1. /\ ingress \in Seq(Bar) /\ InOrder(ingress) /\ InOrder(consumed)
      /\ Before(Range(consumed), Range(ingress))
      /\ Range(consumed) \cup Range(ingress) \subseteq Decided
  BY DEF FeedTypeOK, QueueInv
<1>2. Before(Range(ingress), {b}) /\ Before(Range(consumed), {b})
  BY <1>1 DEF Before
<1>3. /\ ingress' \in Seq(Bar) /\ InOrder(ingress') /\ Len(ingress') = Len(ingress) + 1
      /\ Range(ingress') = Range(ingress) \cup {b}
  BY <1>1, <1>2, AppendOrder
<1>4. Before(Range(consumed), Range(ingress'))
  BY <1>1, <1>2, <1>3 DEF Before
<1>5. Range(consumed) \cup Range(ingress') \subseteq Decided'
  BY <1>1, <1>3
<1>6. QueueInv'
  BY <1>1, <1>3, <1>4, <1>5 DEF QueueInv, InOrder, Before
<1> QED
  BY <1>3, <1>6

\* The oldest bar is consumed, or thrown away.
LEMMA QueuePop ==
    ASSUME FeedTypeOK, QueueInv, ingress # <<>>, ingress' = Tail(ingress),
           consumed' \in {consumed, Append(consumed, Head(ingress))}, Decided \subseteq Decided'
    PROVE  /\ QueueInv' /\ ingress' \in Seq(Bar) /\ consumed' \in Seq(Bar)
           /\ Len(ingress') <= IngressCapacity
           /\ Head(ingress) \in Bar /\ Head(ingress) \in Range(ingress)
           /\ Range(ingress) = Range(ingress') \cup {Head(ingress)}
           /\ consumed' # consumed => Range(consumed') = Range(consumed) \cup {Head(ingress)}
<1> DEFINE h == Head(ingress)
<1>1. /\ ingress \in Seq(Bar) /\ consumed \in Seq(Bar) /\ InOrder(ingress) /\ InOrder(consumed)
      /\ Before(Range(consumed), Range(ingress))
      /\ Range(consumed) \cup Range(ingress) \subseteq Decided
  BY DEF FeedTypeOK, QueueInv
<1>2. /\ ingress' \in Seq(Bar) /\ InOrder(ingress') /\ h \in Bar
      /\ Range(ingress) = Range(ingress') \cup {h}
      /\ Before({h}, Range(ingress'))
      /\ Len(ingress') = Len(ingress) - 1
  BY <1>1, TailOrder
<1> HIDE DEF h
<1>3. Len(ingress') <= IngressCapacity
  BY <1>2, TypeFacts
<1>4. Before(Range(consumed), {h})
  BY <1>1, <1>2 DEF Before
<1>5. /\ Append(consumed, h) \in Seq(Bar) /\ InOrder(Append(consumed, h))
      /\ Range(Append(consumed, h)) = Range(consumed) \cup {h}
  BY <1>1, <1>2, <1>4, AppendOrder
<1>6. /\ consumed' \in Seq(Bar) /\ InOrder(consumed')
      /\ Range(consumed') \in {Range(consumed), Range(consumed) \cup {h}}
      /\ consumed' # consumed => Range(consumed') = Range(consumed) \cup {h}
  BY <1>1, <1>5 DEF h
<1>7. Before(Range(consumed'), Range(ingress'))
  BY <1>1, <1>2, <1>6 DEF Before
<1>8. Range(consumed') \cup Range(ingress') \subseteq Decided'
  BY <1>1, <1>2, <1>6
<1>9. QueueInv'
  BY <1>2, <1>6, <1>7, <1>8 DEF QueueInv, InOrder, Before
<1> QED
  BY <1>2, <1>3, <1>6, <1>9 DEF h

-----------------------------------------------------------------------------
(* The channel.                                                            *)

LEMMA ChannelSame ==
    ASSUME ChannelInv, Announced' = Announced, UNCHANGED channelVars
    PROVE  ChannelInv'
<1>1. UNCHANGED <<sent, next, received, excused>>
  BY DEF channelVars
<1>2. \A s \in Subscribers : Range(received[s])' = Range(received[s]) /\ Ahead(s)' = Ahead(s)
  BY <1>1 DEF Ahead
<1>3. Range(sent)' = Range(sent)
  BY <1>1
<1> QED
  BY <1>1, <1>2, <1>3 DEF ChannelInv, InOrder, Before

\* A position and what is ahead of it.
LEMMA AheadFacts ==
    ASSUME FeedTypeOK, NEW s \in Subscribers, next[s] # Off
    PROVE  next[s] \in 0 .. Len(sent) /\ Ahead(s) \subseteq Range(sent)
<1>1. next[s] \in 0 .. Len(sent) /\ sent \in Seq(Bar) /\ Len(sent) \in Nat
  BY DEF FeedTypeOK
<1>2. Range(sent) = {sent[i] : i \in 1 .. Len(sent)}
  BY <1>1, RangeBars
<1>3. \A i \in next[s] + 1 .. Len(sent) : i \in 1 .. Len(sent)
  BY <1>1
<1> QED
  BY <1>1, <1>2, <1>3 DEF Ahead

LEMMA BroadcastChannel ==
    ASSUME FeedTypeOK, CallsBegun, ChannelInv, NEW p \in Producers, Broadcast(p)
    PROVE  /\ ChannelInv' /\ sent' \in Seq(Bar)
           /\ next' \in [Subscribers -> {Off} \cup 0 .. Len(sent')]
<1> DEFINE c == Current(p)
<1>1. /\ pc[p] = "send" /\ Goes(p, "publish") /\ count' = count
      /\ UNCHANGED <<next, received, excused>>
      /\ \/ (\E s \in Subscribers : next[s] # Off) /\ sent' = Append(sent, c)
         \/ (\A s \in Subscribers : next[s] = Off) /\ sent' = sent
  BY DEF Broadcast
<1>2. c \in Bar /\ Announced' = Announced \cup {c} /\ c \notin Announced
  BY <1>1, MoveFacts
<1>3. Before(Announced, {c})
  BY <1>1, CurrentIsNewest
<1> HIDE DEF c
<1>4. /\ sent \in Seq(Bar) /\ Len(sent) \in Nat
      /\ \A s \in Subscribers : next[s] \in {Off} \cup 0 .. Len(sent)
      /\ InOrder(sent) /\ Range(sent) \subseteq Announced
  BY TypeFacts DEF FeedTypeOK, ChannelInv
<1>5. CASE sent' = sent /\ \A s \in Subscribers : next[s] = Off
  <2>1. \A s \in Subscribers :
            /\ Range(received[s]) \subseteq Announced'
            /\ excused[s] \subseteq Announced'
    BY <1>2 DEF ChannelInv
  <2>2. Range(sent') \subseteq Announced' /\ InOrder(sent')
    BY <1>2, <1>4, <1>5
  <2>3. ChannelInv'
    BY <1>1, <1>5, <2>1, <2>2 DEF ChannelInv, InOrder
  <2> QED
    BY <1>1, <1>5, <2>3 DEF FeedTypeOK
<1>6. CASE sent' = Append(sent, c)
  <2>1. Before(Range(sent), {c})
    BY <1>3, <1>4 DEF Before
  <2>2. /\ sent' \in Seq(Bar) /\ InOrder(sent') /\ Range(sent') = Range(sent) \cup {c}
        /\ Len(sent') = Len(sent) + 1
        /\ \A i \in 1 .. Len(sent) : sent'[i] = sent[i]
        /\ sent'[Len(sent) + 1] = c
    BY <1>2, <1>4, <1>6, <2>1, AppendOrder
  <2>3. next' \in [Subscribers -> {Off} \cup 0 .. Len(sent')]
    <3>1. {Off} \cup 0 .. Len(sent) \subseteq {Off} \cup 0 .. Len(sent')
      BY <1>4, <2>2
    <3> QED
      BY <1>1, <3>1 DEF FeedTypeOK
  <2>4. ASSUME NEW s \in Subscribers, next[s] # Off
        PROVE  /\ Before(Range(received[s]), Ahead(s)')
               /\ Announced' \ excused[s] = Range(received[s]) \cup Ahead(s)'
    <3>1. next[s] \in 0 .. Len(sent)
      BY <1>4, <2>4
    <3>2. Ahead(s)' = Ahead(s) \cup {c}
      <4>1. Ahead(s)' = {sent'[i] : i \in next[s] + 1 .. Len(sent')}
        BY <1>1 DEF Ahead
      <4>2. \A i \in next[s] + 1 .. Len(sent') :
                i \in next[s] + 1 .. Len(sent) \/ i = Len(sent) + 1
        BY <1>4, <2>2, <3>1
      <4>3. /\ \A i \in next[s] + 1 .. Len(sent) :
                   i \in next[s] + 1 .. Len(sent') /\ sent'[i] = sent[i]
            /\ Len(sent) + 1 \in next[s] + 1 .. Len(sent')
        BY <1>4, <2>2, <3>1
      <4> QED
        BY <2>2, <4>1, <4>2, <4>3 DEF Ahead
    <3>3. /\ Before(Range(received[s]), Ahead(s)) /\ Range(received[s]) \subseteq Announced
          /\ Announced \ excused[s] = Range(received[s]) \cup Ahead(s)
          /\ excused[s] \subseteq Announced
      BY <2>4 DEF ChannelInv
    <3>4. Before(Range(received[s]), Ahead(s)')
      BY <1>3, <3>2, <3>3 DEF Before
    <3> QED
      BY <1>2, <3>2, <3>3, <3>4
  <2>5. \A s \in Subscribers :
            /\ Range(received[s]) \subseteq Announced'
            /\ excused[s] \subseteq Announced'
    BY <1>2 DEF ChannelInv
  <2>6. Range(sent') \subseteq Announced'
    BY <1>2, <1>4, <2>2
  <2>7. ChannelInv'
    BY <1>1, <2>2, <2>4, <2>5, <2>6 DEF ChannelInv, InOrder, Before
  <2> QED
    BY <2>2, <2>3, <2>7
<1> QED
  BY <1>1, <1>5, <1>6

\* A subscriber comes, goes, receives a bar or hears what it has missed: the others
\* are as they were.
LEMMA OneSubscriber ==
    ASSUME ChannelInv, Announced' = Announced, sent' = sent, NEW s \in Subscribers,
           \A o \in Subscribers \ {s} : /\ next'[o] = next[o] /\ received'[o] = received[o]
                                        /\ excused'[o] = excused[o],
           Range(received'[s]) \subseteq Announced,
           excused'[s] \subseteq Announced,
           next'[s] # Off =>
               LET ahead == {sent[i] : i \in next'[s] + 1 .. Len(sent)} IN
               /\ Before(Range(received'[s]), ahead)
               /\ Announced \ excused'[s] = Range(received'[s]) \cup ahead
    PROVE  ChannelInv'
<1>1. ASSUME NEW o \in Subscribers
      PROVE  /\ Range(received'[o]) \subseteq Announced
             /\ excused'[o] \subseteq Announced
             /\ next'[o] # Off =>
                    /\ Before(Range(received'[o]), {sent[i] : i \in next'[o] + 1 .. Len(sent)})
                    /\ Announced \ excused'[o]
                           = Range(received'[o]) \cup {sent[i] : i \in next'[o] + 1 .. Len(sent)}
  <2>1. CASE o = s
    BY <2>1
  <2>2. CASE o # s
    BY <2>2 DEF ChannelInv, Ahead
  <2> QED
    BY <2>1, <2>2
<1>2. InOrder(sent) /\ Range(sent) \subseteq Announced
  BY DEF ChannelInv
<1> QED
  BY <1>1, <1>2 DEF ChannelInv, Ahead, InOrder, Before

LEMMA SubscribeChannel ==
    ASSUME FeedTypeOK, ChannelInv, Announced' = Announced, NEW s \in Subscribers,
           Subscribe(s) \/ Unsubscribe(s)
    PROVE  /\ ChannelInv'
           /\ next' \in [Subscribers -> {Off} \cup 0 .. Len(sent)]
           /\ excused' \in [Subscribers -> SUBSET Bar]
<1>1. /\ next \in [Subscribers -> {Off} \cup 0 .. Len(sent)] /\ Len(sent) \in Nat
      /\ excused \in [Subscribers -> SUBSET Bar] /\ Announced \subseteq Bar
      /\ received \in [Subscribers -> Seq(Bar)]
  BY TypeFacts DEF FeedTypeOK, Announced
<1>2. CASE Unsubscribe(s)
  <2>1. /\ next' = [next EXCEPT ![s] = Off]
        /\ UNCHANGED <<sent, received, excused>>
    BY <1>2 DEF Unsubscribe
  <2>2. /\ next' \in [Subscribers -> {Off} \cup 0 .. Len(sent)] /\ next'[s] = Off
        /\ \A o \in Subscribers \ {s} : next'[o] = next[o]
    BY <1>1, <2>1
  <2>3. /\ Range(received[s]) \subseteq Announced
        /\ excused[s] \subseteq Announced
    BY DEF ChannelInv
  <2>4. ChannelInv'
    BY <2>1, <2>2, <2>3, OneSubscriber
  <2> QED
    BY <1>1, <2>1, <2>2, <2>4
<1>3. CASE Subscribe(s)
  <2>1. /\ next' = [next EXCEPT ![s] = Len(sent)] /\ excused' = [excused EXCEPT ![s] = Announced]
        /\ UNCHANGED <<sent, received>> /\ received[s] = <<>>
    BY <1>3 DEF Subscribe
  <2>2. /\ next' \in [Subscribers -> {Off} \cup 0 .. Len(sent)] /\ next'[s] = Len(sent)
        /\ excused' \in [Subscribers -> SUBSET Bar] /\ excused'[s] = Announced
        /\ \A o \in Subscribers \ {s} : next'[o] = next[o] /\ excused'[o] = excused[o]
    BY <1>1, <2>1
  <2> DEFINE ahead == {sent[i] : i \in Len(sent) + 1 .. Len(sent)}
  <2>3. ahead = {} /\ Range(received[s]) = {}
    BY <1>1, <2>1 DEF Range
  <2> HIDE DEF ahead
  <2>4. Before(Range(received[s]), ahead) /\ Announced \ Announced = Range(received[s]) \cup ahead
    BY <2>3 DEF Before
  <2>5. ChannelInv'
    BY <2>1, <2>2, <2>3, <2>4, OneSubscriber DEF ahead
  <2> QED
    BY <2>2, <2>5
<1> QED
  BY <1>2, <1>3

\* Of what is ahead of a subscriber, what comes first is older than the rest.
LEMMA AheadSplits ==
    ASSUME FeedTypeOK, InOrder(sent), NEW s \in Subscribers, next[s] # Off,
           NEW k \in next[s] .. Len(sent)
    PROVE  LET first == {sent[i] : i \in next[s] + 1 .. k}
               rest == {sent[i] : i \in k + 1 .. Len(sent)}
           IN  /\ Ahead(s) = first \cup rest /\ first \cap rest = {}
               /\ Before(first, rest) /\ first \subseteq Bar /\ k \in 0 .. Len(sent)
<1>1. /\ next[s] \in 0 .. Len(sent) /\ Len(sent) \in Nat /\ sent \in Seq(Bar)
  BY AheadFacts, TypeFacts
<1>2. k \in 0 .. Len(sent)
  BY <1>1
<1>3. \A i \in next[s] + 1 .. Len(sent) : i \in next[s] + 1 .. k \/ i \in k + 1 .. Len(sent)
  BY <1>1, <1>2
<1>4. /\ \A i \in next[s] + 1 .. k : i \in next[s] + 1 .. Len(sent) /\ i \in 1 .. Len(sent)
      /\ \A i \in k + 1 .. Len(sent) : i \in next[s] + 1 .. Len(sent) /\ i \in 1 .. Len(sent)
      /\ \A i \in next[s] + 1 .. k, j \in k + 1 .. Len(sent) : i < j
  BY <1>1, <1>2
<1>5. \A i, j \in 1 .. Len(sent) : i < j => sent[i] # sent[j]
  BY <1>1, OnlyOnce
<1>6. \A i \in 1 .. Len(sent) : sent[i] \in Bar
  BY <1>1
<1> DEFINE first == {sent[i] : i \in next[s] + 1 .. k}
           rest == {sent[i] : i \in k + 1 .. Len(sent)}
<1>7. Ahead(s) = first \cup rest
  BY <1>3, <1>4 DEF Ahead
<1>8. first \cap rest = {}
  BY <1>4, <1>5
<1>9. Before(first, rest)
  BY <1>4 DEF Before, InOrder
<1>10. first \subseteq Bar
  BY <1>4, <1>6
<1> QED
  BY <1>2, <1>7, <1>8, <1>9, <1>10

LEMMA ReceiveChannel ==
    ASSUME FeedTypeOK, ChannelInv, Announced' = Announced, NEW s \in Subscribers, Receive(s)
    PROVE  /\ ChannelInv'
           /\ next' \in [Subscribers -> {Off} \cup 0 .. Len(sent)]
           /\ excused' \in [Subscribers -> SUBSET Bar]
           /\ received' \in [Subscribers -> Seq(Bar)]
<1> DEFINE oldest == Len(sent) - ChannelCapacity
<1>1. /\ next \in [Subscribers -> {Off} \cup 0 .. Len(sent)] /\ Len(sent) \in Nat
      /\ excused \in [Subscribers -> SUBSET Bar] /\ received \in [Subscribers -> Seq(Bar)]
      /\ ChannelCapacity \in Nat \ {0} /\ sent \in Seq(Bar)
  BY TypeFacts DEF FeedTypeOK
<1>2. /\ next[s] # Off /\ next[s] < Len(sent) /\ sent' = sent
      /\ \/ /\ received' = [received EXCEPT ![s] = Append(received[s], sent[next[s] + 1])]
            /\ next' = [next EXCEPT ![s] = next[s] + 1] /\ excused' = excused
         \/ /\ next[s] < oldest /\ next' = [next EXCEPT ![s] = oldest]
            /\ excused' = [excused EXCEPT ![s] =
                              excused[s] \cup {sent[i] : i \in next[s] + 1 .. oldest}]
            /\ received' = received
  BY DEF Receive
<1>3. next[s] \in 0 .. Len(sent) /\ next[s] + 1 \in next[s] .. Len(sent)
  BY <1>1, <1>2, AheadFacts
<1>4. /\ InOrder(sent) /\ Range(received[s]) \subseteq Announced
      /\ excused[s] \subseteq Announced /\ Before(Range(received[s]), Ahead(s))
      /\ Announced \ excused[s] = Range(received[s]) \cup Ahead(s)
      /\ Range(sent) \subseteq Announced /\ Ahead(s) \subseteq Range(sent)
  BY <1>2, AheadFacts DEF ChannelInv
<1>5. CASE received' = [received EXCEPT ![s] = Append(received[s], sent[next[s] + 1])]
           /\ next' = [next EXCEPT ![s] = next[s] + 1] /\ excused' = excused
  <2> DEFINE h == sent[next[s] + 1]
             rest == {sent[i] : i \in (next[s] + 1) + 1 .. Len(sent)}
  <2>1. PICK k \in next[s] .. Len(sent) : k = next[s] + 1
    BY <1>3
  <2>2. /\ Ahead(s) = {h} \cup rest /\ {h} \cap rest = {} /\ Before({h}, rest) /\ h \in Bar
        /\ next[s] + 1 \in 0 .. Len(sent)
    <3> DEFINE first == {sent[i] : i \in next[s] + 1 .. k}
               others == {sent[i] : i \in k + 1 .. Len(sent)}
    <3>1. /\ Ahead(s) = first \cup others /\ first \cap others = {}
          /\ Before(first, others) /\ first \subseteq Bar /\ k \in 0 .. Len(sent)
      BY <1>2, <1>4, AheadSplits
    <3>2. first = {h} /\ others = rest
      BY <1>3, <2>1
    <3> HIDE DEF first, others, h, rest
    <3>3. h \in Bar
      BY <3>1, <3>2
    <3> QED
      BY <2>1, <3>1, <3>2, <3>3
  <2> HIDE DEF h, rest
  <2>3. received[s] \in Seq(Bar) /\ Before(Range(received[s]), {h})
    BY <1>1, <1>4, <2>2 DEF Before
  <2>4. /\ Append(received[s], h) \in Seq(Bar)
        /\ Range(Append(received[s], h)) = Range(received[s]) \cup {h}
    BY <2>2, <2>3, AppendRange
  <2>5. /\ received' \in [Subscribers -> Seq(Bar)] /\ received'[s] = Append(received[s], h)
        /\ next' \in [Subscribers -> {Off} \cup 0 .. Len(sent)] /\ next'[s] = next[s] + 1
        /\ \A o \in Subscribers \ {s} : next'[o] = next[o] /\ received'[o] = received[o]
    BY <1>1, <1>5, <2>2, <2>4 DEF h
  <2>6. Before(Range(received'[s]), rest)
    BY <1>4, <2>2, <2>4, <2>5 DEF Before
  <2>7. /\ Range(received'[s]) \subseteq Announced
        /\ Announced \ excused[s] = Range(received'[s]) \cup rest
    BY <1>4, <2>2, <2>4, <2>5
  <2>8. ChannelInv'
    BY <1>2, <1>4, <1>5, <2>5, <2>6, <2>7, OneSubscriber DEF rest
  <2> QED
    BY <1>1, <1>5, <2>5, <2>8
<1>6. CASE next[s] < oldest /\ next' = [next EXCEPT ![s] = oldest]
           /\ excused' = [excused EXCEPT ![s] =
                             excused[s] \cup {sent[i] : i \in next[s] + 1 .. oldest}]
           /\ received' = received
  <2> DEFINE missed == {sent[i] : i \in next[s] + 1 .. oldest}
             rest == {sent[i] : i \in oldest + 1 .. Len(sent)}
  <2>1. oldest \in next[s] .. Len(sent)
    BY <1>1, <1>3, <1>6
  <2>2. /\ Ahead(s) = missed \cup rest /\ missed \cap rest = {} /\ missed \subseteq Bar
        /\ oldest \in 0 .. Len(sent)
    <3> HIDE DEF oldest
    <3> QED
      BY <1>2, <1>4, <2>1, AheadSplits
  <2> HIDE DEF missed, rest, oldest
  <2>3. /\ next' \in [Subscribers -> {Off} \cup 0 .. Len(sent)] /\ next'[s] = oldest
        /\ excused' \in [Subscribers -> SUBSET Bar] /\ excused'[s] = excused[s] \cup missed
        /\ \A o \in Subscribers \ {s} : next'[o] = next[o] /\ excused'[o] = excused[o]
    <3>1. excused[s] \cup missed \in SUBSET Bar
      BY <1>1, <2>2
    <3>2. excused' = [excused EXCEPT ![s] = excused[s] \cup missed]
      BY <1>6 DEF missed
    <3> QED
      BY <1>1, <1>6, <2>2, <3>1, <3>2
  <2>4. Range(received[s]) \cap missed = {}
    <3>1. \A b \in Range(received[s]) : b.n \in Nat
      BY <1>1, RangeBars, BarFields
    <3> QED
      BY <1>4, <2>2, <3>1 DEF Before
  <2>5. /\ Before(Range(received[s]), rest) /\ excused'[s] \subseteq Announced
        /\ Announced \ excused'[s] = Range(received[s]) \cup rest
    <3>1. Before(Range(received[s]), rest)
      BY <1>4, <2>2 DEF Before
    <3> QED
      BY <1>4, <2>2, <2>3, <2>4, <3>1
  <2>6. ChannelInv'
    BY <1>2, <1>4, <1>6, <2>3, <2>5, OneSubscriber DEF rest
  <2> QED
    BY <1>1, <1>6, <2>3, <2>6
<1> QED
  BY <1>2, <1>5, <1>6

-----------------------------------------------------------------------------
(* The counters.                                                           *)

\* One call goes on: it enters or leaves the sets of calls, the others stay.
LEMMA CallSets ==
    ASSUME IsFiniteSet(Uncounted), IsFiniteSet(Owing), IsFiniteSet(OwingTwice),
           NEW p \in Producers,
           \A o \in Producers \ {p} : pc'[o] = pc[o] /\ result'[o] = result[o]
    PROVE  /\ IsFiniteSet(Uncounted') /\ IsFiniteSet(Owing') /\ IsFiniteSet(OwingTwice')
           /\ Cardinality(Uncounted) \in Nat /\ Cardinality(Uncounted') \in Nat
           /\ Cardinality(Owing) \in Nat /\ Cardinality(Owing') \in Nat
           /\ Cardinality(OwingTwice) \in Nat /\ Cardinality(OwingTwice') \in Nat
           /\ (p \in Uncounted <=> p \in Uncounted') =>
                  Cardinality(Uncounted') = Cardinality(Uncounted)
           /\ p \notin Uncounted /\ p \in Uncounted' =>
                  Cardinality(Uncounted') = Cardinality(Uncounted) + 1
           /\ p \in Uncounted /\ p \notin Uncounted' =>
                  Cardinality(Uncounted') = Cardinality(Uncounted) - 1
           /\ (p \in Owing <=> p \in Owing') => Cardinality(Owing') = Cardinality(Owing)
           /\ p \notin Owing /\ p \in Owing' => Cardinality(Owing') = Cardinality(Owing) + 1
           /\ p \in Owing /\ p \notin Owing' => Cardinality(Owing') = Cardinality(Owing) - 1
           /\ (p \in OwingTwice <=> p \in OwingTwice') =>
                  Cardinality(OwingTwice') = Cardinality(OwingTwice)
           /\ p \notin OwingTwice /\ p \in OwingTwice' =>
                  Cardinality(OwingTwice') = Cardinality(OwingTwice) + 1
           /\ p \in OwingTwice /\ p \notin OwingTwice' =>
                  Cardinality(OwingTwice') = Cardinality(OwingTwice) - 1
<1>1. \A o : o # p => (o \in Uncounted' <=> o \in Uncounted)
  BY DEF Uncounted
<1>2. \A o : o # p => (o \in Owing' <=> o \in Owing)
  BY DEF Owing
<1>3. \A o : o # p => (o \in OwingTwice' <=> o \in OwingTwice)
  BY DEF OwingTwice
<1> QED
  BY <1>1, <1>2, <1>3, OneChanges

\* Who is in which set.
LEMMA CallMembers ==
    ASSUME NEW p \in Producers
    PROVE  /\ p \in Uncounted <=> pc[p] \in {"count", "total"}
           /\ p \in Uncounted' <=> pc'[p] \in {"count", "total"}
           /\ p \in Owing <=> pc[p] \in {"full", "popped", "count", "kind"}
           /\ p \in Owing' <=> pc'[p] \in {"full", "popped", "count", "kind"}
           /\ p \in OwingTwice <=>
                  pc[p] = "popped" \/ (pc[p] \in {"count", "kind"} /\ result[p] = "DroppedNewest")
           /\ p \in OwingTwice' <=>
                  pc'[p] = "popped" \/ (pc'[p] \in {"count", "kind"} /\ result'[p] = "DroppedNewest")
BY DEF Uncounted, Owing, OwingTwice

\* Every bar that is neither ingested nor moved is lost or not as before.
LEMMA LostSame ==
    ASSUME LossInv, Lost' = Lost, policy' = policy, NEW p \in Producers,
           \A o \in Producers \ {p} : pc'[o] = pc[o] /\ result'[o] = result[o],
           pc'[p] \in {"full", "popped"} => pc[p] \in {"full", "popped"},
           policy = "DropNewest" =>
               Cardinality(Uncounted') + dropped' = Cardinality(Uncounted) + dropped,
           droppedOldest' + 2 * droppedNewest' + Cardinality(Owing') + Cardinality(OwingTwice')
               >= droppedOldest + 2 * droppedNewest + Cardinality(Owing) + Cardinality(OwingTwice),
           dropped \in Nat, droppedNewest \in Nat, droppedOldest \in Nat,
           dropped' \in Nat, droppedNewest' \in Nat, droppedOldest' \in Nat
    PROVE  LossInv'
<1>1. /\ IsFiniteSet(Lost) /\ IsFiniteSet(Uncounted) /\ IsFiniteSet(Owing)
      /\ IsFiniteSet(OwingTwice) /\ Cardinality(Lost) \in Nat
      /\ Cardinality(Lost)
             <= droppedOldest + 2 * droppedNewest + Cardinality(Owing) + Cardinality(OwingTwice)
      /\ policy = "DropNewest" =>
             /\ Cardinality(Lost) = dropped + Cardinality(Uncounted)
             /\ \A o \in Producers : pc[o] \notin {"full", "popped"}
  BY FS_CardinalityType DEF LossInv
<1>2. /\ IsFiniteSet(Uncounted') /\ IsFiniteSet(Owing') /\ IsFiniteSet(OwingTwice')
      /\ Cardinality(Uncounted) \in Nat /\ Cardinality(Uncounted') \in Nat
      /\ Cardinality(Owing) \in Nat /\ Cardinality(Owing') \in Nat
      /\ Cardinality(OwingTwice) \in Nat /\ Cardinality(OwingTwice') \in Nat
  BY <1>1, CallSets
<1>3. Cardinality(Lost)
          <= droppedOldest' + 2 * droppedNewest' + Cardinality(Owing') + Cardinality(OwingTwice')
  BY <1>1, <1>2
<1>4. policy = "DropNewest" =>
          /\ Cardinality(Lost) = dropped' + Cardinality(Uncounted')
          /\ \A o \in Producers : pc'[o] \notin {"full", "popped"}
  BY <1>1, <1>2
<1> QED
  BY <1>1, <1>2, <1>3, <1>4 DEF LossInv

\* The same for a step in which one bar is lost, or saved, and nothing is counted.
LEMMA LostChanges ==
    ASSUME LossInv, NEW b, \A c : c # b => (c \in Lost' <=> c \in Lost), policy' = policy,
           UNCHANGED counterVars, NEW p \in Producers,
           \A o \in Producers \ {p} : pc'[o] = pc[o] /\ result'[o] = result[o],
           dropped \in Nat, droppedNewest \in Nat, droppedOldest \in Nat,
           \/ /\ b \notin Lost /\ b \in Lost'
              /\ Cardinality(Uncounted') = Cardinality(Uncounted) + 1
              /\ pc'[p] \notin {"full", "popped"}
           \/ policy # "DropNewest",
           Cardinality(Owing') + Cardinality(OwingTwice')
               >= Cardinality(Owing) + Cardinality(OwingTwice)
                      + (IF b \in Lost THEN -1 ELSE 0) + (IF b \in Lost' THEN 1 ELSE 0)
    PROVE  LossInv'
<1>1. /\ IsFiniteSet(Lost) /\ IsFiniteSet(Uncounted) /\ IsFiniteSet(Owing)
      /\ IsFiniteSet(OwingTwice) /\ Cardinality(Lost) \in Nat
      /\ Cardinality(Lost)
             <= droppedOldest + 2 * droppedNewest + Cardinality(Owing) + Cardinality(OwingTwice)
      /\ policy = "DropNewest" =>
             /\ Cardinality(Lost) = dropped + Cardinality(Uncounted)
             /\ \A o \in Producers : pc[o] \notin {"full", "popped"}
  BY FS_CardinalityType DEF LossInv
<1>2. /\ IsFiniteSet(Uncounted') /\ IsFiniteSet(Owing') /\ IsFiniteSet(OwingTwice')
      /\ Cardinality(Uncounted) \in Nat /\ Cardinality(Uncounted') \in Nat
      /\ Cardinality(Owing) \in Nat /\ Cardinality(Owing') \in Nat
      /\ Cardinality(OwingTwice) \in Nat /\ Cardinality(OwingTwice') \in Nat
  BY <1>1, CallSets
<1>3. /\ IsFiniteSet(Lost') /\ Cardinality(Lost') \in Nat
      /\ (b \in Lost <=> b \in Lost') => Cardinality(Lost') = Cardinality(Lost)
      /\ b \notin Lost /\ b \in Lost' => Cardinality(Lost') = Cardinality(Lost) + 1
      /\ b \in Lost /\ b \notin Lost' => Cardinality(Lost') = Cardinality(Lost) - 1
  BY <1>1, OneChanges
<1>4. dropped' = dropped /\ droppedNewest' = droppedNewest /\ droppedOldest' = droppedOldest
  BY DEF counterVars
<1>5. Cardinality(Lost')
          <= droppedOldest + 2 * droppedNewest + Cardinality(Owing') + Cardinality(OwingTwice')
  <2>1. CASE b \in Lost <=> b \in Lost'
    BY <1>1, <1>2, <1>3, <2>1
  <2>2. CASE b \notin Lost /\ b \in Lost'
    BY <1>1, <1>2, <1>3, <2>2
  <2>3. CASE b \in Lost /\ b \notin Lost'
    BY <1>1, <1>2, <1>3, <2>3
  <2> QED
    BY <2>1, <2>2, <2>3
<1>6. policy = "DropNewest" =>
          /\ Cardinality(Lost') = dropped + Cardinality(Uncounted')
          /\ \A o \in Producers : pc'[o] \notin {"full", "popped"}
  BY <1>1, <1>2, <1>3
<1> QED
  BY <1>2, <1>3, <1>4, <1>5, <1>6 DEF LossInv

-----------------------------------------------------------------------------
(* The steps of ingest_broker_bar keep the invariant.                      *)

LEMMA PushKeeps ==
    ASSUME FeedInv, NEW p \in Producers, Push(p), policy' = policy
    PROVE  FeedInv'
<1> DEFINE b == [by |-> p, n |-> count[p] + 1]
<1>1. FeedTypeOK /\ CallsBegun /\ QueueInv /\ ChannelInv /\ LossInv
  BY DEF FeedInv
<1>2. /\ Begin(p) /\ UNCHANGED <<consumed, counterVars, channelVars>>
      /\ UNCHANGED <<dropped, droppedNewest, droppedOldest, published>>
      /\ UNCHANGED <<sent, next, received, excused>>
  BY DEF Push, counterVars, channelVars
<1>3. /\ dropped \in Nat /\ droppedNewest \in Nat /\ droppedOldest \in Nat
      /\ Len(ingress) \in Nat /\ Len(ingress) <= IngressCapacity /\ IngressCapacity \in Nat
  BY <1>1, TypeFacts
<1>4. PICK x \in {"full", "count", "send"} :
          /\ Goes(p, x)
          /\ \/ /\ x = "send" /\ ~IsFull /\ ingress' = Append(ingress, b)
                /\ result' = [result EXCEPT ![p] = "Enqueued"]
             \/ /\ x = "count" /\ policy = "DropNewest" /\ ingress' = ingress
                /\ result' = [result EXCEPT ![p] = "DroppedNewest"]
             \/ /\ x = "full" /\ policy = "DropOldest" /\ ingress' = ingress
                /\ result' = result
  <2>1. CASE ~IsFull /\ ingress' = Append(ingress, b) /\ Return(p, "Enqueued")
    BY <2>1 DEF Return
  <2>2. CASE policy = "DropNewest" /\ Return(p, "DroppedNewest") /\ UNCHANGED ingress
    BY <2>2 DEF Return
  <2>3. CASE policy = "DropOldest" /\ Goes(p, "full") /\ UNCHANGED <<ingress, result>>
    BY <2>3
  <2> QED
    BY <2>1, <2>2, <2>3 DEF Push
<1>5. /\ pc' \in [Producers ->
             {"idle", "full", "popped", "count", "total", "kind", "send", "publish"}]
      /\ pc'[p] = x /\ \A o \in Producers \ {p} : pc'[o] = pc[o]
      /\ count' \in [Producers -> 0 .. MaxBars]
      /\ CallsBegun' /\ pc[p] = "idle"
      /\ b \in Bar
      /\ b \notin Ingested /\ Ingested' = Ingested \cup {b} /\ Announced' = Announced
      /\ Decided \subseteq Decided' /\ Before(Decided, {b})
      /\ x # "full" => b \in Decided'
  <2>1. Goes(p, x) /\ Begin(p) /\ FeedTypeOK /\ CallsBegun
    BY <1>1, <1>2, <1>4
  <2> QED
    BY <2>1, BeginFacts, ZenonT(30)
<1> HIDE DEF b
<1>6. /\ result' \in [Producers -> Results]
      /\ \A o \in Producers \ {p} : result'[o] = result[o]
      /\ x = "count" => result'[p] = "DroppedNewest"
  BY <1>1, <1>4 DEF FeedTypeOK, Results
<1>7. ChannelInv'
  BY <1>1, <1>2, <1>5, ChannelSame
<1>8. \A c \in Decided : c \in Ingested
  <2>1. \A c \in Bar : c.n \in Nat /\ count[c.by] \in Nat
    BY <1>1, BarFields, TypeFacts
  <2> QED
    BY <2>1 DEF Decided, Ingested
<1>9. b \notin Range(ingress) \cup Range(consumed) /\ b \notin Lost
  BY <1>1, <1>5, <1>8 DEF QueueInv, Lost
<1>10. IsFiniteSet(Uncounted) /\ IsFiniteSet(Owing) /\ IsFiniteSet(OwingTwice)
  BY <1>1 DEF LossInv
<1>11. CASE x = "send"
  <2>1. ~IsFull /\ ingress' = Append(ingress, b)
    BY <1>4, <1>11
  <2>2. /\ QueueInv' /\ ingress' \in Seq(Bar) /\ Len(ingress') = Len(ingress) + 1
        /\ Range(ingress') = Range(ingress) \cup {b}
    BY <1>1, <1>2, <1>5, <1>11, <2>1, QueuePush
  <2>3. Len(ingress') <= IngressCapacity
    BY <1>3, <2>1, <2>2 DEF IsFull
  <2>4. FeedTypeOK'
    BY <1>1, <1>2, <1>5, <1>6, <2>2, <2>3, Zenon DEF FeedTypeOK
  <2>5. Lost' = Lost
    BY <1>2, <1>5, <2>2 DEF Lost
  <2>6. /\ Cardinality(Uncounted') = Cardinality(Uncounted) /\ Cardinality(Uncounted) \in Nat
        /\ Cardinality(Owing') = Cardinality(Owing) /\ Cardinality(Owing) \in Nat
        /\ Cardinality(OwingTwice') = Cardinality(OwingTwice) /\ Cardinality(OwingTwice) \in Nat
    BY <1>5, <1>6, <1>10, <1>11, CallSets, CallMembers
  <2>7. LossInv'
    BY <1>1, <1>2, <1>3, <1>5, <1>6, <1>11, <2>5, <2>6, LostSame
  <2> QED
    BY <1>5, <1>7, <2>2, <2>4, <2>7 DEF FeedInv
<1>12. CASE x \in {"count", "full"}
  <2>1. ingress' = ingress
    BY <1>4, <1>12
  <2>2. QueueInv'
    BY <1>1, <1>2, <1>5, <2>1, QueueSame
  <2>3. FeedTypeOK'
    BY <1>1, <1>2, <1>5, <1>6, <2>1, Zenon DEF FeedTypeOK
  <2>4. Lost' = Lost \cup {b}
    BY <1>2, <1>5, <1>9, <2>1 DEF Lost
  <2>5. \A c : c # b => (c \in Lost' <=> c \in Lost)
    BY <2>4
  <2>6. /\ x = "count" => Cardinality(Uncounted') = Cardinality(Uncounted) + 1
        /\ Cardinality(Owing') = Cardinality(Owing) + 1 /\ Cardinality(Owing) \in Nat
        /\ Cardinality(OwingTwice') >= Cardinality(OwingTwice) /\ Cardinality(OwingTwice) \in Nat
        /\ Cardinality(OwingTwice') \in Nat
    <3>1. /\ p \notin Uncounted /\ p \notin Owing /\ p \notin OwingTwice /\ p \in Owing'
          /\ x = "count" => p \in Uncounted'
      BY <1>5, <1>12, CallMembers
    <3>2. /\ Cardinality(OwingTwice') \in Nat /\ Cardinality(OwingTwice) \in Nat
          /\ Cardinality(Owing) \in Nat
      BY <1>5, <1>6, <1>10, CallSets
    <3>3. Cardinality(OwingTwice') \in {Cardinality(OwingTwice), Cardinality(OwingTwice) + 1}
      BY <1>5, <1>6, <1>10, <3>1, CallSets
    <3>4. Cardinality(Owing') = Cardinality(Owing) + 1
      BY <1>5, <1>6, <1>10, <3>1, CallSets
    <3>5. x = "count" => Cardinality(Uncounted') = Cardinality(Uncounted) + 1
      BY <1>5, <1>6, <1>10, <3>1, CallSets
    <3> QED
      BY <3>2, <3>3, <3>4, <3>5
  <2>7. b \in Lost' /\ b \notin Lost
    BY <1>9, <2>4
  <2>8. Cardinality(Owing') + Cardinality(OwingTwice')
            >= Cardinality(Owing) + Cardinality(OwingTwice)
                   + (IF b \in Lost THEN -1 ELSE 0) + (IF b \in Lost' THEN 1 ELSE 0)
    BY <2>6, <2>7
  <2>9. \/ /\ b \notin Lost /\ b \in Lost'
           /\ Cardinality(Uncounted') = Cardinality(Uncounted) + 1
           /\ pc'[p] \notin {"full", "popped"}
        \/ policy # "DropNewest"
    BY <1>4, <1>5, <1>12, <2>6, <2>7
  <2>10. LossInv'
    BY <1>1, <1>2, <1>3, <1>5, <1>6, <2>5, <2>8, <2>9, LostChanges
  <2> QED
    BY <1>5, <1>7, <2>2, <2>3, <2>10 DEF FeedInv
<1> QED
  BY <1>11, <1>12

LEMMA PopOldestKeeps ==
    ASSUME FeedInv, NEW p \in Producers, PopOldest(p), policy' = policy
    PROVE  FeedInv'
<1> DEFINE h == Head(ingress)
<1>1. FeedTypeOK /\ CallsBegun /\ QueueInv /\ ChannelInv /\ LossInv
  BY DEF FeedInv
<1>2. /\ pc[p] = "full" /\ Goes(p, "popped")
      /\ UNCHANGED <<count, result, consumed, counterVars, channelVars>>
      /\ UNCHANGED <<dropped, droppedNewest, droppedOldest, published>>
      /\ UNCHANGED <<sent, next, received, excused>>
      /\ \/ ingress # <<>> /\ ingress' = Tail(ingress)
         \/ ingress' = ingress
  BY DEF PopOldest, counterVars, channelVars
<1>3. /\ pc' \in [Producers ->
             {"idle", "full", "popped", "count", "total", "kind", "send", "publish"}]
      /\ pc'[p] = "popped" /\ \A o \in Producers \ {p} : pc'[o] = pc[o]
      /\ CallsBegun' /\ Ingested' = Ingested /\ Announced' = Announced /\ Decided' = Decided
  BY <1>1, <1>2, MoveFacts
<1>4. ChannelInv'
  BY <1>1, <1>2, <1>3, ChannelSame
<1>5. /\ dropped \in Nat /\ droppedNewest \in Nat /\ droppedOldest \in Nat
      /\ policy # "DropNewest"
      /\ IsFiniteSet(Uncounted) /\ IsFiniteSet(Owing) /\ IsFiniteSet(OwingTwice)
  BY <1>1, <1>2, TypeFacts DEF LossInv
<1>6. /\ Cardinality(Owing') = Cardinality(Owing) /\ Cardinality(Owing) \in Nat
      /\ Cardinality(OwingTwice') = Cardinality(OwingTwice) + 1 /\ Cardinality(OwingTwice) \in Nat
  <2>1. p \in Owing /\ p \in Owing' /\ p \notin OwingTwice /\ p \in OwingTwice'
    BY <1>2, <1>3, CallMembers
  <2> QED
    BY <1>2, <1>3, <1>5, <2>1, CallSets
<1>7. CASE ingress' = ingress
  <2>1. QueueInv'
    BY <1>1, <1>2, <1>3, <1>7, QueueSame
  <2>2. FeedTypeOK'
    BY <1>1, <1>2, <1>3, <1>7, Zenon DEF FeedTypeOK
  <2>3. Lost' = Lost
    BY <1>2, <1>3, <1>7 DEF Lost
  <2>4. LossInv'
    BY <1>1, <1>2, <1>3, <1>5, <1>6, <2>3, LostSame
  <2> QED
    BY <1>3, <1>4, <2>1, <2>2, <2>4 DEF FeedInv
<1>8. CASE ingress # <<>> /\ ingress' = Tail(ingress)
  <2>1. /\ QueueInv' /\ ingress' \in Seq(Bar) /\ Len(ingress') <= IngressCapacity
        /\ h \in Range(ingress) /\ Range(ingress) = Range(ingress') \cup {h}
    BY <1>1, <1>2, <1>3, <1>8, QueuePop
  <2> HIDE DEF h
  <2>2. FeedTypeOK'
    BY <1>1, <1>2, <1>3, <2>1, Zenon DEF FeedTypeOK
  <2>3. h \notin Lost /\ \A c : c # h => (c \in Lost' <=> c \in Lost)
    BY <1>2, <1>3, <2>1 DEF Lost
  <2>4. Cardinality(Owing') + Cardinality(OwingTwice')
            >= Cardinality(Owing) + Cardinality(OwingTwice)
                   + (IF h \in Lost THEN -1 ELSE 0) + (IF h \in Lost' THEN 1 ELSE 0)
    BY <1>6, <2>3
  <2>5. LossInv'
    BY <1>1, <1>2, <1>3, <1>5, <2>3, <2>4, LostChanges
  <2> QED
    BY <1>3, <1>4, <2>1, <2>2, <2>5 DEF FeedInv
<1> QED
  BY <1>2, <1>7, <1>8

LEMMA PushAgainKeeps ==
    ASSUME FeedInv, NEW p \in Producers, PushAgain(p), policy' = policy
    PROVE  FeedInv'
<1> DEFINE b == Current(p)
<1>1. FeedTypeOK /\ CallsBegun /\ QueueInv /\ ChannelInv /\ LossInv
  BY DEF FeedInv
<1>2. /\ pc[p] = "popped" /\ Goes(p, "count")
      /\ UNCHANGED <<count, consumed, counterVars, channelVars>>
      /\ UNCHANGED <<dropped, droppedNewest, droppedOldest, published>>
      /\ UNCHANGED <<sent, next, received, excused>>
      /\ \/ /\ ~IsFull /\ ingress' = Append(ingress, b)
            /\ result' = [result EXCEPT ![p] = "DroppedOldest"]
         \/ ingress' = ingress /\ result' = [result EXCEPT ![p] = "DroppedNewest"]
  BY DEF PushAgain, Return, counterVars, channelVars
<1>3. /\ pc' \in [Producers ->
             {"idle", "full", "popped", "count", "total", "kind", "send", "publish"}]
      /\ pc'[p] = "count" /\ \A o \in Producers \ {p} : pc'[o] = pc[o]
      /\ CallsBegun' /\ Ingested' = Ingested /\ Announced' = Announced
      /\ Decided \subseteq Decided' /\ b \in Decided' /\ b \notin Decided
      /\ b \in Ingested /\ b \in Bar
  BY <1>1, <1>2, MoveFacts
<1>4. Before(Decided, {b})
  BY <1>1, <1>2, CurrentIsNewest
<1> HIDE DEF b
<1>5. ChannelInv'
  BY <1>1, <1>2, <1>3, ChannelSame
<1>6. /\ dropped \in Nat /\ droppedNewest \in Nat /\ droppedOldest \in Nat
      /\ Len(ingress) \in Nat /\ Len(ingress) <= IngressCapacity /\ IngressCapacity \in Nat
      /\ policy # "DropNewest"
      /\ IsFiniteSet(Uncounted) /\ IsFiniteSet(Owing) /\ IsFiniteSet(OwingTwice)
  BY <1>1, <1>2, TypeFacts DEF LossInv
<1>7. /\ result' \in [Producers -> Results]
      /\ \A o \in Producers \ {p} : result'[o] = result[o]
      /\ ingress' = ingress => result'[p] = "DroppedNewest"
  <2>1. ~IsFull /\ ingress' = Append(ingress, b) => ingress' # ingress
    <3>1. ingress \in Seq(Bar)
      BY <1>1 DEF FeedTypeOK
    <3>2. Len(Append(ingress, b)) = Len(ingress) + 1
      BY <1>3, <3>1, AppendProperties
    <3> QED
      BY <1>6, <3>2
  <2> QED
    BY <1>1, <1>2, <2>1 DEF FeedTypeOK, Results
<1>8. p \in Owing /\ p \in Owing' /\ p \in OwingTwice
  BY <1>2, <1>3, CallMembers
<1>9. /\ Cardinality(Owing') = Cardinality(Owing) /\ Cardinality(Owing) \in Nat
      /\ Cardinality(OwingTwice) \in Nat
      /\ Cardinality(OwingTwice') \in {Cardinality(OwingTwice), Cardinality(OwingTwice) - 1}
      /\ p \in OwingTwice' => Cardinality(OwingTwice') = Cardinality(OwingTwice)
  BY <1>3, <1>6, <1>7, <1>8, CallSets
<1>10. CASE ingress' = ingress
  <2>1. QueueInv'
    BY <1>1, <1>2, <1>3, <1>10, QueueSame
  <2>2. FeedTypeOK'
    BY <1>1, <1>2, <1>3, <1>7, <1>10, Zenon DEF FeedTypeOK
  <2>3. Lost' = Lost
    BY <1>2, <1>3, <1>10 DEF Lost
  <2>4. p \in OwingTwice'
    BY <1>3, <1>7, <1>10, CallMembers
  <2>5. LossInv'
    BY <1>1, <1>2, <1>3, <1>6, <1>7, <1>9, <2>3, <2>4, LostSame
  <2> QED
    BY <1>3, <1>5, <2>1, <2>2, <2>5 DEF FeedInv
<1>11. CASE ~IsFull /\ ingress' = Append(ingress, b)
  <2>1. /\ QueueInv' /\ ingress' \in Seq(Bar) /\ Len(ingress') = Len(ingress) + 1
        /\ Range(ingress') = Range(ingress) \cup {b}
    BY <1>1, <1>2, <1>3, <1>4, <1>11, QueuePush
  <2>2. Len(ingress') <= IngressCapacity
    BY <1>6, <1>11, <2>1 DEF IsFull
  <2>3. FeedTypeOK'
    BY <1>1, <1>2, <1>3, <1>7, <2>1, <2>2, Zenon DEF FeedTypeOK
  <2>4. b \in Lost /\ b \notin Lost' /\ \A c : c # b => (c \in Lost' <=> c \in Lost)
    BY <1>1, <1>2, <1>3, <2>1 DEF Lost, QueueInv
  <2>5. Cardinality(Owing') + Cardinality(OwingTwice')
            >= Cardinality(Owing) + Cardinality(OwingTwice)
                   + (IF b \in Lost THEN -1 ELSE 0) + (IF b \in Lost' THEN 1 ELSE 0)
    BY <1>9, <2>4
  <2>6. LossInv'
    BY <1>1, <1>2, <1>3, <1>6, <1>7, <2>4, <2>5, LostChanges
  <2> QED
    BY <1>3, <1>5, <2>1, <2>3, <2>6 DEF FeedInv
<1> QED
  BY <1>2, <1>10, <1>11

LEMMA CountTotalKeeps ==
    ASSUME FeedInv, NEW p \in Producers, CountTotal(p), policy' = policy
    PROVE  FeedInv'
<1>1. FeedTypeOK /\ CallsBegun /\ QueueInv /\ ChannelInv /\ LossInv
  BY DEF FeedInv
<1>2. /\ dropped' = dropped + 1
      /\ UNCHANGED <<ringVars, count, consumed, droppedNewest, droppedOldest, published, channelVars>>
      /\ UNCHANGED <<ingress, result>> /\ UNCHANGED <<sent, next, received, excused>>
  BY DEF CountTotal, ringVars, channelVars
<1>3. PICK x \in {"kind", "send"} :
          Goes(p, x) /\ pc[p] = (IF x = "kind" THEN "count" ELSE "total")
  BY DEF CountTotal
<1>4. /\ pc' \in [Producers ->
             {"idle", "full", "popped", "count", "total", "kind", "send", "publish"}]
      /\ pc'[p] = x /\ \A o \in Producers \ {p} : pc'[o] = pc[o]
      /\ CallsBegun' /\ Ingested' = Ingested /\ Announced' = Announced
      /\ Decided \subseteq Decided'
  <2>1. pc[p] \in {"count", "total"} /\ Goes(p, x) /\ count' = count
    BY <1>2, <1>3
  <2> QED
    BY <1>1, <2>1, MoveFacts
<1>5. ChannelInv' /\ QueueInv'
  BY <1>1, <1>2, <1>4, ChannelSame, QueueSame
<1>6. /\ dropped \in Nat /\ droppedNewest \in Nat /\ droppedOldest \in Nat /\ dropped' \in Nat
      /\ IsFiniteSet(Uncounted) /\ IsFiniteSet(Owing) /\ IsFiniteSet(OwingTwice)
  BY <1>1, <1>2, TypeFacts DEF LossInv
<1>7. /\ p \in Uncounted /\ p \notin Uncounted'
      /\ p \in Owing <=> p \in Owing'
      /\ p \in OwingTwice <=> p \in OwingTwice'
  BY <1>2, <1>3, <1>4, CallMembers
<1>8. /\ Cardinality(Uncounted') = Cardinality(Uncounted) - 1 /\ Cardinality(Uncounted) \in Nat
      /\ Cardinality(Owing') = Cardinality(Owing) /\ Cardinality(Owing) \in Nat
      /\ Cardinality(OwingTwice') = Cardinality(OwingTwice) /\ Cardinality(OwingTwice) \in Nat
  BY <1>2, <1>4, <1>6, <1>7, CallSets
<1>9. Lost' = Lost
  BY <1>2, <1>4 DEF Lost
<1>10. LossInv'
  <2>1. Cardinality(Uncounted') + dropped' = Cardinality(Uncounted) + dropped
    BY <1>2, <1>6, <1>8
  <2> QED
    BY <1>1, <1>2, <1>4, <1>6, <1>8, <1>9, <2>1, LostSame
<1>11. FeedTypeOK'
  BY <1>1, <1>2, <1>4, <1>6, Zenon DEF FeedTypeOK
<1> QED
  BY <1>4, <1>5, <1>10, <1>11 DEF FeedInv

LEMMA CountKindKeeps ==
    ASSUME FeedInv, NEW p \in Producers, CountKind(p), policy' = policy
    PROVE  FeedInv'
<1>1. FeedTypeOK /\ CallsBegun /\ QueueInv /\ ChannelInv /\ LossInv
  BY DEF FeedInv
<1>2. /\ UNCHANGED <<ringVars, count, consumed, dropped, published, channelVars>>
      /\ UNCHANGED <<ingress, result>> /\ UNCHANGED <<sent, next, received, excused>>
      /\ \/ /\ result[p] = "DroppedNewest"
            /\ droppedNewest' = droppedNewest + 1 /\ droppedOldest' = droppedOldest
         \/ /\ result[p] = "DroppedOldest"
            /\ droppedOldest' = droppedOldest + 1 /\ droppedNewest' = droppedNewest
  BY DEF CountKind, ringVars, channelVars
<1>3. PICK x \in {"total", "send"} :
          Goes(p, x) /\ pc[p] = (IF x = "total" THEN "count" ELSE "kind")
  BY DEF CountKind
<1>4. /\ pc' \in [Producers ->
             {"idle", "full", "popped", "count", "total", "kind", "send", "publish"}]
      /\ pc'[p] = x /\ \A o \in Producers \ {p} : pc'[o] = pc[o]
      /\ CallsBegun' /\ Ingested' = Ingested /\ Announced' = Announced
      /\ Decided \subseteq Decided'
  <2>1. pc[p] \in {"count", "kind"} /\ Goes(p, x) /\ count' = count
    BY <1>2, <1>3
  <2> QED
    BY <1>1, <2>1, MoveFacts
<1>5. ChannelInv' /\ QueueInv'
  BY <1>1, <1>2, <1>4, ChannelSame, QueueSame
<1>6. /\ dropped \in Nat /\ droppedNewest \in Nat /\ droppedOldest \in Nat
      /\ droppedNewest' \in Nat /\ droppedOldest' \in Nat
      /\ IsFiniteSet(Uncounted) /\ IsFiniteSet(Owing) /\ IsFiniteSet(OwingTwice)
  <2>1. dropped \in Nat /\ droppedNewest \in Nat /\ droppedOldest \in Nat
    BY <1>1, TypeFacts
  <2>2. droppedNewest' \in Nat /\ droppedOldest' \in Nat
    BY <1>2, <2>1
  <2>3. IsFiniteSet(Uncounted) /\ IsFiniteSet(Owing) /\ IsFiniteSet(OwingTwice)
    BY <1>1 DEF LossInv
  <2> QED
    BY <2>1, <2>2, <2>3
<1>7. /\ p \in Uncounted <=> p \in Uncounted'
      /\ p \in Owing /\ p \notin Owing'
      /\ p \in OwingTwice <=> result[p] = "DroppedNewest"
      /\ p \notin OwingTwice'
  BY <1>2, <1>3, <1>4, CallMembers
<1>8. /\ Cardinality(Uncounted') = Cardinality(Uncounted) /\ Cardinality(Uncounted) \in Nat
      /\ Cardinality(Owing') = Cardinality(Owing) - 1 /\ Cardinality(Owing) \in Nat
      /\ Cardinality(OwingTwice) \in Nat
      /\ result[p] = "DroppedNewest" => Cardinality(OwingTwice') = Cardinality(OwingTwice) - 1
      /\ result[p] # "DroppedNewest" => Cardinality(OwingTwice') = Cardinality(OwingTwice)
  BY <1>2, <1>4, <1>6, <1>7, CallSets
<1>9. Lost' = Lost
  BY <1>2, <1>4 DEF Lost
<1>10. LossInv'
  <2>1. droppedOldest' + 2 * droppedNewest' + Cardinality(Owing') + Cardinality(OwingTwice')
            >= droppedOldest + 2 * droppedNewest + Cardinality(Owing) + Cardinality(OwingTwice)
    <3>1. CASE result[p] = "DroppedNewest"
      BY <1>2, <1>6, <1>8, <3>1
    <3>2. CASE result[p] = "DroppedOldest"
      BY <1>2, <1>6, <1>8, <3>2
    <3> QED
      BY <1>2, <3>1, <3>2
  <2>2. Cardinality(Uncounted') + dropped' = Cardinality(Uncounted) + dropped
    BY <1>2, <1>8
  <2> QED
    BY <1>1, <1>2, <1>4, <1>6, <1>9, <2>1, <2>2, LostSame
<1>11. FeedTypeOK'
  BY <1>1, <1>2, <1>4, <1>6, Zenon DEF FeedTypeOK
<1> QED
  BY <1>4, <1>5, <1>10, <1>11 DEF FeedInv

\* The end of a call: the broadcast and the count of it.
LEMMA PublishKeeps ==
    ASSUME FeedInv, NEW p \in Producers, Broadcast(p) \/ CountPublished(p), policy' = policy
    PROVE  FeedInv'
<1>1. FeedTypeOK /\ CallsBegun /\ QueueInv /\ ChannelInv /\ LossInv
  BY DEF FeedInv
<1>2. /\ UNCHANGED <<ingress, result, count, consumed, dropped, droppedNewest, droppedOldest>>
      /\ UNCHANGED <<next, received, excused>>
      /\ published' \in {published, published + 1}
      /\ \/ pc[p] = "send" /\ Goes(p, "publish")
         \/ pc[p] = "publish" /\ Goes(p, "idle") /\ UNCHANGED channelVars
  BY DEF Broadcast, CountPublished, ringVars, counterVars, channelVars
<1>3. PICK x \in {"publish", "idle"} :
          Goes(p, x) /\ pc[p] = (IF x = "publish" THEN "send" ELSE "publish")
  BY <1>2
<1>4. /\ pc' \in [Producers ->
             {"idle", "full", "popped", "count", "total", "kind", "send", "publish"}]
      /\ pc'[p] = x /\ \A o \in Producers \ {p} : pc'[o] = pc[o]
      /\ CallsBegun' /\ Ingested' = Ingested
      /\ Decided \subseteq Decided'
      /\ pc[p] = "publish" /\ x = "idle" => Announced' = Announced
  <2>1. pc[p] \in {"send", "publish"} /\ Goes(p, x) /\ count' = count
    BY <1>2, <1>3
  <2> QED
    BY <1>1, <2>1, MoveFacts
<1>5. /\ ChannelInv' /\ sent' \in Seq(Bar)
      /\ next' \in [Subscribers -> {Off} \cup 0 .. Len(sent')]
  <2>1. CASE Broadcast(p)
    BY <1>1, <2>1, BroadcastChannel
  <2>2. CASE CountPublished(p)
    <3>1. pc[p] = "publish" /\ UNCHANGED channelVars /\ UNCHANGED <<sent, next>>
      BY <2>2 DEF CountPublished, channelVars
    <3>2. x = "idle"
      BY <1>3, <3>1
    <3> QED
      BY <1>1, <1>4, <3>1, <3>2, ChannelSame DEF FeedTypeOK
  <2> QED
    BY <2>1, <2>2
<1>6. QueueInv'
  BY <1>1, <1>2, <1>4, QueueSame
<1>7. /\ dropped \in Nat /\ droppedNewest \in Nat /\ droppedOldest \in Nat /\ published' \in Nat
      /\ IsFiniteSet(Uncounted) /\ IsFiniteSet(Owing) /\ IsFiniteSet(OwingTwice)
  BY <1>1, <1>2, TypeFacts DEF LossInv, FeedTypeOK
<1>8. /\ p \in Uncounted <=> p \in Uncounted'
      /\ p \in Owing <=> p \in Owing'
      /\ p \in OwingTwice <=> p \in OwingTwice'
  BY <1>2, <1>3, <1>4, CallMembers
<1>9. /\ Cardinality(Uncounted') = Cardinality(Uncounted) /\ Cardinality(Uncounted) \in Nat
      /\ Cardinality(Owing') = Cardinality(Owing) /\ Cardinality(Owing) \in Nat
      /\ Cardinality(OwingTwice') = Cardinality(OwingTwice) /\ Cardinality(OwingTwice) \in Nat
  BY <1>2, <1>4, <1>7, <1>8, CallSets
<1>10. Lost' = Lost
  BY <1>2, <1>4 DEF Lost
<1>11. LossInv'
  BY <1>1, <1>2, <1>4, <1>7, <1>9, <1>10, LostSame
<1>12. FeedTypeOK'
  BY <1>1, <1>2, <1>4, <1>5, <1>7, Zenon DEF FeedTypeOK
<1> QED
  BY <1>4, <1>5, <1>6, <1>11, <1>12 DEF FeedInv

-----------------------------------------------------------------------------
(* The other users of the feed keep it too.                                *)

\* The counts do not depend on the queue, the channel or the metrics.
LEMMA CountsSame ==
    ASSUME LossInv, Lost' = Lost, UNCHANGED <<policy, pc, result, counterVars>>
    PROVE  LossInv'
<1>1. /\ UNCHANGED <<dropped, droppedNewest, droppedOldest>>
      /\ Uncounted' = Uncounted /\ Owing' = Owing /\ OwingTwice' = OwingTwice
  BY DEF counterVars, Uncounted, Owing, OwingTwice
<1> QED
  BY <1>1 DEF LossInv

\* No call moves on: the sets of bars that depend on that stay.
LEMMA NoCallMoves ==
    ASSUME UNCHANGED <<pc, count>>
    PROVE  Announced' = Announced /\ Decided' = Decided /\ Ingested' = Ingested
BY DEF Announced, Decided, Ingested

LEMMA PopIngressKeeps ==
    ASSUME FeedInv, PopIngress, policy' = policy
    PROVE  FeedInv'
<1> DEFINE h == Head(ingress)
<1>1. FeedTypeOK /\ CallsBegun /\ QueueInv /\ ChannelInv /\ LossInv
  BY DEF FeedInv
<1>2. /\ ingress # <<>> /\ ingress' = Tail(ingress) /\ consumed' = Append(consumed, h)
      /\ UNCHANGED <<pc, count, result, counterVars, channelVars>>
      /\ UNCHANGED <<dropped, droppedNewest, droppedOldest, published>>
      /\ UNCHANGED <<sent, next, received, excused>>
  BY DEF PopIngress, counterVars, channelVars
<1>3. Announced' = Announced /\ Decided' = Decided /\ Ingested' = Ingested
  BY <1>2, NoCallMoves
<1>4. /\ QueueInv' /\ ingress' \in Seq(Bar) /\ consumed' \in Seq(Bar)
      /\ Len(ingress') <= IngressCapacity /\ h \in Bar
      /\ Range(ingress) = Range(ingress') \cup {h}
      /\ consumed' # consumed => Range(consumed') = Range(consumed) \cup {h}
  BY <1>1, <1>2, <1>3, QueuePop
<1> HIDE DEF h
<1>5. consumed' # consumed
  <2>1. consumed \in Seq(Bar)
    BY <1>1, TypeFacts
  <2>2. Len(Append(consumed, h)) = Len(consumed) + 1 /\ Len(consumed) \in Nat
    BY <1>4, <2>1, AppendProperties
  <2> QED
    BY <1>2, <2>2
<1>6. Lost' = Lost
  BY <1>3, <1>4, <1>5 DEF Lost
<1>7. LossInv'
  BY <1>1, <1>2, <1>6, CountsSame
<1>8. ChannelInv'
  BY <1>1, <1>2, <1>3, ChannelSame
<1>9. FeedTypeOK' /\ CallsBegun'
  BY <1>1, <1>2, <1>4, Zenon DEF FeedTypeOK, CallsBegun
<1> QED
  BY <1>4, <1>7, <1>8, <1>9 DEF FeedInv

LEMMA SubscriberKeeps ==
    ASSUME FeedInv, NEW s \in Subscribers, Subscribe(s) \/ Unsubscribe(s) \/ Receive(s),
           policy' = policy
    PROVE  FeedInv'
<1>1. FeedTypeOK /\ CallsBegun /\ QueueInv /\ ChannelInv /\ LossInv
  BY DEF FeedInv
<1>2. /\ UNCHANGED <<ingress, result, pc, count, consumed, counterVars, sent>>
      /\ UNCHANGED <<dropped, droppedNewest, droppedOldest, published>>
  BY DEF Subscribe, Unsubscribe, Receive, ringVars, counterVars
<1>3. Announced' = Announced /\ Decided' = Decided /\ Ingested' = Ingested
  BY <1>2, NoCallMoves
<1>4. /\ ChannelInv'
      /\ next' \in [Subscribers -> {Off} \cup 0 .. Len(sent)]
      /\ excused' \in [Subscribers -> SUBSET Bar]
      /\ received' \in [Subscribers -> Seq(Bar)]
  <2>1. CASE Receive(s)
    BY <1>1, <1>3, <2>1, ReceiveChannel
  <2>2. CASE Subscribe(s) \/ Unsubscribe(s)
    <3>1. received' = received
      BY <2>2 DEF Subscribe, Unsubscribe
    <3> QED
      BY <1>1, <1>3, <2>2, <3>1, SubscribeChannel DEF FeedTypeOK
  <2> QED
    BY <2>1, <2>2
<1>5. QueueInv'
  BY <1>1, <1>2, <1>3, QueueSame
<1>6. Lost' = Lost
  BY <1>2, <1>3 DEF Lost
<1>7. LossInv'
  BY <1>1, <1>2, <1>6, CountsSame
<1>8. FeedTypeOK' /\ CallsBegun'
  BY <1>1, <1>2, <1>4, Zenon DEF FeedTypeOK, CallsBegun
<1> QED
  BY <1>4, <1>5, <1>7, <1>8 DEF FeedInv

-----------------------------------------------------------------------------
(* The invariant.                                                          *)

\* A feed that was just built has no bars, no calls and no subscribers.
LEMMA InitFeedInv ==
    ASSUME FeedInit
    PROVE  FeedInv
<1>1. /\ ingress = <<>> /\ consumed = <<>> /\ sent = <<>>
      /\ \A p \in Producers : pc[p] = "idle" /\ count[p] = 0
      /\ \A s \in Subscribers : received[s] = <<>> /\ excused[s] = {} /\ next[s] = Off
      /\ dropped = 0 /\ droppedNewest = 0 /\ droppedOldest = 0
  BY DEF FeedInit
<1>2. FeedTypeOK
  <2>1. 0 \in 0 .. MaxBars /\ Len(ingress) = 0 /\ 0 <= IngressCapacity
    BY <1>1, FeedAssumption
  <2>2. <<>> \in Seq(Bar) /\ {} \in SUBSET Bar
    OBVIOUS
  <2>3. /\ pc \in [Producers ->
               {"idle", "full", "popped", "count", "total", "kind", "send", "publish"}]
        /\ count \in [Producers -> 0 .. MaxBars]
        /\ result \in [Producers -> Results]
    BY <2>1 DEF FeedInit, Results
  <2>4. /\ next \in [Subscribers -> {Off} \cup 0 .. Len(sent)]
        /\ received \in [Subscribers -> Seq(Bar)]
        /\ excused \in [Subscribers -> SUBSET Bar]
    BY <2>2 DEF FeedInit
  <2> QED
    BY <2>1, <2>2, <2>3, <2>4 DEF FeedTypeOK, FeedInit
<1>3. CallsBegun
  BY <1>1 DEF CallsBegun
<1>4. Range(<<>>) = {} /\ InOrder(<<>>)
  BY DEF Range, InOrder
<1>5. QueueInv
  BY <1>1, <1>4 DEF QueueInv, Before
<1>6. ChannelInv
  BY <1>1, <1>4 DEF ChannelInv
<1>7. Lost = {} /\ Uncounted = {} /\ Owing = {} /\ OwingTwice = {}
  <2>1. Ingested = {}
    <3>1. \A b \in Bar : b.n \in 1 .. MaxBars /\ count[b.by] = 0
      BY <1>1, BarFields
    <3> QED
      BY <3>1 DEF Ingested
  <2> QED
    BY <1>1, <2>1 DEF Lost, Uncounted, Owing, OwingTwice
<1>8. LossInv
  BY <1>1, <1>7, FS_EmptySet DEF LossInv
<1> QED
  BY <1>2, <1>3, <1>5, <1>6, <1>8 DEF FeedInv

LEMMA NextFeedInv ==
    ASSUME FeedInv, [FeedNext]_feedVars
    PROVE  FeedInv'
<1>1. CASE UNCHANGED feedVars
  <2>1. /\ UNCHANGED <<policy, ingress, result, pc, count, consumed, counterVars, channelVars>>
        /\ UNCHANGED <<dropped, droppedNewest, droppedOldest, published>>
        /\ UNCHANGED <<sent, next, received, excused>>
    BY <1>1 DEF feedVars, ringVars, counterVars, channelVars
  <2>2. Announced' = Announced /\ Decided' = Decided /\ Ingested' = Ingested
    BY <2>1, NoCallMoves
  <2>3. Lost' = Lost
    BY <2>1, <2>2 DEF Lost
  <2>4. FeedTypeOK' /\ CallsBegun'
    BY <2>1, Zenon DEF FeedInv, FeedTypeOK, CallsBegun
  <2> QED
    BY <2>1, <2>2, <2>3, <2>4, QueueSame, ChannelSame, CountsSame DEF FeedInv
<1>2. ASSUME NEW p \in Producers, Ingest(p), policy' = policy PROVE FeedInv'
  BY <1>2, PushKeeps, PopOldestKeeps, PushAgainKeeps, CountTotalKeeps, CountKindKeeps,
     PublishKeeps DEF Ingest
<1> QED
  BY <1>1, <1>2, PopIngressKeeps, SubscriberKeeps DEF FeedNext

LEMMA FeedInvariant == FeedSpec => []FeedInv
<1>1. FeedInit => FeedInv
  BY InitFeedInv
<1>2. FeedInv /\ [FeedNext]_feedVars => FeedInv'
  BY NextFeedInv
<1> QED
  BY <1>1, <1>2, PTL DEF FeedSpec

-----------------------------------------------------------------------------
(* What it says.                                                           *)

\* What was consumed comes before what is still in the queue.
LEMMA QueueInOrder ==
    ASSUME FeedInv
    PROVE  QueueOrder
<1> DEFINE out == consumed \o ingress
<1>1. /\ consumed \in Seq(Bar) /\ ingress \in Seq(Bar)
      /\ InOrder(consumed) /\ InOrder(ingress) /\ Before(Range(consumed), Range(ingress))
  BY DEF FeedInv, FeedTypeOK, QueueInv
<1>2. /\ out \in Seq(Bar) /\ Len(out) = Len(consumed) + Len(ingress)
      /\ \A i \in 1 .. Len(consumed) + Len(ingress) :
             out[i] = IF i <= Len(consumed) THEN consumed[i] ELSE ingress[i - Len(consumed)]
  BY <1>1, ConcatProperties, Zenon
<1>3. /\ Len(consumed) \in Nat /\ Len(ingress) \in Nat
      /\ DOMAIN consumed = 1 .. Len(consumed) /\ DOMAIN ingress = 1 .. Len(ingress)
  BY <1>1
<1> HIDE DEF out
<1>4. DOMAIN out = 1 .. Len(consumed) + Len(ingress)
  BY <1>2, <1>3
<1>5. ASSUME NEW i \in DOMAIN out, NEW j \in DOMAIN out, i < j, out[i].by = out[j].by
      PROVE  out[i].n < out[j].n
  <2>1. i \in 1 .. Len(consumed) + Len(ingress) /\ j \in 1 .. Len(consumed) + Len(ingress)
    BY <1>4
  <2>2. CASE j <= Len(consumed)
    <3>1. i \in 1 .. Len(consumed) /\ j \in 1 .. Len(consumed)
      BY <1>3, <1>5, <2>1, <2>2
    <3>2. out[i] = consumed[i] /\ out[j] = consumed[j]
      BY <1>2, <2>1, <3>1
    <3> QED
      BY <1>1, <1>5, <3>1, <3>2 DEF InOrder
  <2>3. CASE i > Len(consumed)
    <3>1. PICK k \in 1 .. Len(ingress), m \in 1 .. Len(ingress) :
              k = i - Len(consumed) /\ m = j - Len(consumed)
      BY <1>3, <1>5, <2>1, <2>3
    <3>2. k < m
      BY <1>3, <1>5, <2>1, <3>1
    <3>3. out[i] = ingress[k] /\ out[j] = ingress[m]
      BY <1>2, <1>3, <1>5, <2>1, <2>3, <3>1
    <3> QED
      BY <1>1, <1>5, <3>2, <3>3 DEF InOrder
  <2>4. CASE i <= Len(consumed) /\ j > Len(consumed)
    <3>1. PICK m \in 1 .. Len(ingress) : m = j - Len(consumed)
      BY <1>3, <2>1, <2>4
    <3>2. out[i] = consumed[i] /\ i \in 1 .. Len(consumed) /\ out[j] = ingress[m]
      BY <1>2, <1>3, <2>1, <2>4, <3>1
    <3>3. out[i] \in Range(consumed) /\ out[j] \in Range(ingress)
      BY <1>3, <3>1, <3>2 DEF Range
    <3> QED
      BY <1>1, <1>5, <3>3 DEF Before
  <2> QED
    BY <1>3, <2>1, <2>2, <2>3, <2>4
<1> QED
  BY <1>5 DEF QueueOrder, out

LEMMA ChannelDelivers ==
    ASSUME FeedInv
    PROVE  Delivered
BY DEF FeedInv, ChannelInv, Delivered, Ahead

\* Once no call is under way there is nothing left to count.
LEMMA LossIsBounded ==
    ASSUME FeedInv
    PROVE  LossBounded
<1> SUFFICES ASSUME Quiet
             PROVE  IF policy = "DropNewest" THEN dropped = Cardinality(Lost)
                    ELSE Cardinality(Lost) <= droppedOldest + 2 * droppedNewest
  BY DEF LossBounded
<1>1. Uncounted = {} /\ Owing = {} /\ OwingTwice = {}
  BY DEF Quiet, Uncounted, Owing, OwingTwice
<1>2. Cardinality(Uncounted) = 0 /\ Cardinality(Owing) = 0 /\ Cardinality(OwingTwice) = 0
  BY <1>1, FS_EmptySet
<1>3. dropped \in Nat /\ droppedNewest \in Nat /\ droppedOldest \in Nat
  BY DEF FeedInv, FeedTypeOK
<1>4. /\ Cardinality(Lost)
             <= droppedOldest + 2 * droppedNewest + Cardinality(Owing) + Cardinality(OwingTwice)
      /\ policy = "DropNewest" => Cardinality(Lost) = dropped + Cardinality(Uncounted)
  BY DEF FeedInv, LossInv
<1> QED
  BY <1>2, <1>3, <1>4

-----------------------------------------------------------------------------
(* The theorems.                                                           *)

\* The state of the feed has the types declared for it: the queue is within its
\* capacity and every position of a subscriber within what was sent, whatever threads
\* call ingest_broker_bar, pop_ingress and receive.
THEOREM FeedTypeHolds == FeedSpec => []FeedTypeOK
<1>1. FeedInv => FeedTypeOK
  BY DEF FeedInv
<1> QED
  BY <1>1, FeedInvariant, PTL

\* RingBuffer::push and pop_ingress: the bars of one producer leave the queue in the
\* order in which it ingested them and none of them twice, with either policy and
\* however the pops and evictions of other threads fall between two attempts to push.
THEOREM QueueOrderHolds == FeedSpec => []QueueOrder
<1>1. FeedInv => QueueOrder
  BY QueueInOrder
<1> QED
  BY <1>1, FeedInvariant, PTL

\* Distributor::broadcast: what a subscriber has received and what the channel still has
\* ahead of it are all the bars announced since it subscribed, but for those it was told
\* that it missed; a bar the queue dropped is among them.
THEOREM DeliveredHolds == FeedSpec => []Delivered
<1>1. FeedInv => Delivered
  BY ChannelDelivers
<1> QED
  BY <1>1, FeedInvariant, PTL

\* The drop counters bound the bars that never reach pop_ingress: with DropNewest they
\* are their number, with DropOldest a call that returns DroppedNewest may have lost the
\* oldest bar besides its own and counted one, so that the loss may exceed the total,
\* but by no more than the newest bars dropped; for any number of racing threads.
THEOREM LossBoundedHolds == FeedSpec => []LossBounded
<1>1. FeedInv => LossBounded
  BY LossIsBounded
<1> QED
  BY <1>1, FeedInvariant, PTL

=============================================================================
