---------------------------- MODULE BinanceProofs ----------------------------
(***************************************************************************)
(* Proofs about Binance, for any symbols, any number of readers and any    *)
(* number of trades.                                                       *)
(*                                                                         *)
(* Two facts make NoTradeTwice inductive.  A reader that was replaced can  *)
(* still push the trade it holds, but it cannot take another one; and a    *)
(* new reader begins behind all the trades that earlier ones can hold.  So *)
(* the trades that were taken are below the position of the current        *)
(* reader, and those still held are all different.                         *)
(***************************************************************************)
EXTENDS Binance, FiniteLemmas

ReaderSteps == {"starting", "reading", "pushing", "stamping", "leaving", "clearing", "ended"}

Readers == [at : ReaderSteps, symbols : SUBSET Symbols, position : Nat]

TypeInv ==
    /\ strict \in BOOLEAN /\ connected \in BOOLEAN /\ running \in BOOLEAN
    /\ subscriptions \in SUBSET Symbols
    /\ reader \in Seq(Readers)
    /\ age \in {"recent", "expired"}
    /\ trades \in Nat
    /\ queue \in Seq(Nat) /\ delivered \in SUBSET Nat

\* The trades that have become bars.
Taken == Range(queue) \cup delivered

Holds(e) == reader[e].at = "pushing"

\* The trade a reader holds is new to the queue, and no other reader holds it.
HeldOnce ==
    \A e \in 1 .. Epoch : Holds(e) =>
        /\ reader[e].position \notin Taken
        /\ \A f \in 1 .. Epoch : Holds(f) /\ f # e => reader[f].position # reader[e].position

\* Every trade that was taken or is held was made.
MadeBefore ==
    /\ \A t \in Taken : t <= trades
    /\ \A e \in 1 .. Epoch : reader[e].position <= trades

\* A reader that receives is ahead of every trade taken or held by others; it
\* matters for the current one only, since no other takes trades.
Ahead(e) ==
    LET front == reader[e].position
    IN  /\ reader[e].at \in {"reading", "stamping", "pushing"} =>
               /\ \A t \in Taken : t <= front
               /\ \A f \in 1 .. Epoch : Holds(f) => reader[f].position <= front

CurrentAhead == Epoch > 0 => Ahead(Epoch)

TradeInv == TypeInv /\ NoTradeTwice /\ HeldOnce /\ MadeBefore /\ CurrentAhead

-----------------------------------------------------------------------------
(* The steps of a reader.                                                  *)

\* Reader e goes to a step and a position, and the others stay.
Moves(e, step, position) ==
    /\ reader' \in Seq(Readers) /\ Epoch' = Epoch
    /\ reader'[e].at = step /\ reader'[e].position = position
    /\ \A f \in 1 .. Epoch :
           /\ reader'[f].symbols = reader[f].symbols
           /\ f # e => reader'[f] = reader[f]

LEMMA MovesTo ==
    ASSUME TypeInv, NEW e \in 1 .. Epoch, NEW step \in ReaderSteps, NEW position \in Nat,
           reader' = [reader EXCEPT ![e].at = step, ![e].position = position]
    PROVE  Moves(e, step, position)
<1>1. reader \in Seq(Readers) /\ Epoch = Len(reader) /\ reader[e] \in Readers
  BY DEF TypeInv, Epoch
<1> DEFINE r == [reader[e] EXCEPT !.at = step, !.position = position]
<1>2. r \in Readers /\ r.at = step /\ r.position = position /\ r.symbols = reader[e].symbols
  BY <1>1 DEF Readers
<1>3. reader' = [reader EXCEPT ![e] = r]
  BY <1>1 DEF Readers
<1> HIDE DEF r
<1>4. reader' \in Seq(Readers) /\ Len(reader') = Len(reader)
  BY <1>1, <1>2, <1>3, ExceptSeq
<1>5. /\ reader'[e] = r
      /\ \A f \in 1 .. Epoch : f # e => reader'[f] = reader[f]
  <2>1. DOMAIN reader = 1 .. Epoch
    BY <1>1
  <2> QED
    BY <1>3, <2>1, Zenon
<1> QED
  BY <1>1, <1>2, <1>4, <1>5 DEF Moves, Epoch

LEMMA GoesTo ==
    ASSUME TypeInv, NEW e \in 1 .. Epoch, NEW at, NEW step \in ReaderSteps, Goes(e, at, step)
    PROVE  /\ reader[e].at = at
           /\ step \in {"leaving", "ended"} => Moves(e, step, 0)
           /\ step \notin {"leaving", "ended"} => Moves(e, step, reader[e].position)
<1>1. reader \in Seq(Readers) /\ reader[e] \in Readers
  BY DEF TypeInv, Epoch
<1> DEFINE position == IF step \in {"leaving", "ended"} THEN 0 ELSE reader[e].position
<1>2. position \in Nat
  BY <1>1 DEF Readers
<1>3. reader' = [reader EXCEPT ![e].at = step, ![e].position = position]
  BY <1>1 DEF Goes, Readers
<1>4. Moves(e, step, position)
  <2> HIDE DEF position
  <2> QED
    BY <1>2, <1>3, MovesTo
<1> QED
  BY <1>4 DEF Goes

\* What a step of reader e is to the trades: it takes one, pushes the one it
\* holds, begins, goes on, or leaves.
Takes(e) ==
    /\ e = Epoch /\ reader[e].at = "reading" /\ reader[e].position < trades
    /\ Moves(e, "pushing", reader[e].position + 1)
    /\ UNCHANGED queue

Pushes(e) ==
    /\ Holds(e)
    /\ Moves(e, "stamping", reader[e].position)
    /\ queue' = Append(queue, reader[e].position)

Begins(e) == reader[e].at = "starting" /\ Moves(e, "reading", trades) /\ UNCHANGED queue

GoesOn(e) ==
    /\ reader[e].at \in {"reading", "stamping"}
    /\ \E step \in {"reading", "stamping"} : Moves(e, step, reader[e].position)
    /\ UNCHANGED queue

Leaves(e) ==
    /\ \E step \in {"leaving", "clearing", "ended"}, position \in {0, reader[e].position} :
           Moves(e, step, position)
    /\ UNCHANGED queue

LEMMA ReaderEffect ==
    ASSUME TypeInv, NEW e \in 1 .. Epoch, Reader(e)
    PROVE  /\ UNCHANGED <<clientVars, trades>>
           /\ running' \in {running, FALSE} /\ age' \in {age, "recent"}
           /\ Takes(e) \/ Pushes(e) \/ Begins(e) \/ GoesOn(e) \/ Leaves(e)
<1>1. reader \in Seq(Readers) /\ reader[e] \in Readers
  BY DEF TypeInv, Epoch
<1>2. reader[e].position \in Nat /\ reader[e].at \in ReaderSteps /\ trades \in Nat
  BY <1>1 DEF Readers, TypeInv
<1>3. CASE ReaderFails(e)
  <2>1. Moves(e, "ended", 0)
    BY <1>3, GoesTo DEF ReaderFails, ReaderSteps
  <2> QED
    BY <1>3, <2>1 DEF ReaderFails, Leaves
<1>4. CASE ReaderConnects(e)
  <2>1. Moves(e, "reading", trades)
    BY <1>2, <1>4, MovesTo DEF ReaderConnects, ReaderSteps
  <2> QED
    BY <1>4, <2>1 DEF ReaderConnects, Begins, sharedVars
<1>5. CASE ReadTrade(e)
  <2>1. CASE Current(e)
    <3>1. reader' = [reader EXCEPT ![e].at = "pushing",
                                   ![e].position = reader[e].position + 1]
      BY <1>1, <1>5, <2>1 DEF ReadTrade, Readers
    <3>2. Moves(e, "pushing", reader[e].position + 1)
      <4>1. reader[e].position + 1 \in Nat /\ "pushing" \in ReaderSteps
        BY <1>2 DEF ReaderSteps
      <4> QED
        BY <3>1, <4>1, MovesTo
    <3> QED
      BY <1>5, <2>1, <3>2 DEF ReadTrade, Current, Takes, sharedVars
  <2>2. CASE ~Current(e)
    <3>1. reader' = [reader EXCEPT ![e].at = "leaving", ![e].position = 0]
      BY <1>1, <1>5, <2>2 DEF ReadTrade, Readers
    <3>2. Moves(e, "leaving", 0)
      BY <3>1, MovesTo DEF ReaderSteps
    <3> QED
      BY <1>5, <3>2 DEF ReadTrade, Leaves, sharedVars
  <2> QED
    BY <2>1, <2>2
<1>6. CASE ReadPing(e)
  <2>1. /\ reader[e].at = "reading"
        /\ Moves(e, "stamping", reader[e].position) \/ Moves(e, "leaving", 0)
    BY <1>6, GoesTo DEF ReadPing, ReaderSteps
  <2> QED
    BY <1>6, <2>1 DEF ReadPing, GoesOn, Leaves, sharedVars
<1>7. CASE ReadEnd(e)
  <2>1. Moves(e, "leaving", 0)
    BY <1>7, GoesTo DEF ReadEnd, ReaderSteps
  <2> QED
    BY <1>7, <2>1 DEF ReadEnd, Leaves, sharedVars
<1>8. CASE PushBar(e)
  <2>1. reader' = [reader EXCEPT ![e].at = "stamping", ![e].position = reader[e].position]
    BY <1>1, <1>8 DEF PushBar, Readers
  <2>2. Moves(e, "stamping", reader[e].position)
    BY <1>2, <2>1, MovesTo DEF ReaderSteps
  <2> QED
    BY <1>8, <2>2 DEF PushBar, Pushes, Holds
<1>9. CASE Stamp(e)
  <2>1. reader[e].at = "stamping" /\ Moves(e, "reading", reader[e].position)
    BY <1>9, GoesTo DEF Stamp, ReaderSteps
  <2> QED
    BY <1>9, <2>1 DEF Stamp, GoesOn
<1>10. CASE TestEpoch(e)
  <2>1. Moves(e, "clearing", reader[e].position) \/ Moves(e, "ended", 0)
    BY <1>10, GoesTo DEF TestEpoch, ReaderSteps
  <2> QED
    BY <1>10, <2>1 DEF TestEpoch, Leaves, sharedVars
<1>11. CASE ClearFlag(e)
  <2>1. Moves(e, "ended", 0)
    BY <1>11, GoesTo DEF ClearFlag, ReaderSteps
  <2> QED
    BY <1>11, <2>1 DEF ClearFlag, Leaves
<1> QED
  BY <1>3, <1>4, <1>5, <1>6, <1>7, <1>8, <1>9, <1>10, <1>11 DEF Reader

-----------------------------------------------------------------------------
(* No trade twice.                                                         *)

LEMMA InitTradeInv == BinanceInit => TradeInv
<1> SUFFICES ASSUME BinanceInit PROVE TradeInv
  OBVIOUS
<1>1. /\ Epoch = 0 /\ Range(queue) = {} /\ DOMAIN queue = {}
      /\ reader \in Seq(Readers) /\ queue \in Seq(Nat)
  BY DEF BinanceInit, Epoch, Range
<1>2. TypeInv
  BY <1>1 DEF BinanceInit, TypeInv
<1> QED
  BY <1>1, <1>2 DEF BinanceInit, TradeInv, NoTradeTwice, HeldOnce, MadeBefore, CurrentAhead,
                    Taken, IsInjective

LEMMA MovesType ==
    ASSUME TypeInv, NEW e \in 1 .. Epoch, NEW step, NEW position, Moves(e, step, position)
    PROVE  /\ Epoch \in Nat /\ trades \in Nat
           /\ \A f \in 1 .. Epoch : reader[f].position \in Nat
           /\ \A t \in Taken : t \in Nat
           /\ \A f \in 1 .. Epoch' : f \in 1 .. Epoch
<1>1. reader \in Seq(Readers) /\ trades \in Nat /\ queue \in Seq(Nat) /\ delivered \in SUBSET Nat
  BY DEF TypeInv
<1>2. \A f \in 1 .. Epoch : reader[f] \in Readers
  BY <1>1 DEF Epoch
<1>3. \A f \in 1 .. Epoch : reader[f].position \in Nat
  BY <1>2 DEF Readers
<1>4. \A t \in Taken : t \in Nat
  BY <1>1, RangeOfSeq DEF Taken
<1>5. Epoch \in Nat
  BY <1>1 DEF Epoch
<1> QED
  BY <1>1, <1>3, <1>4, <1>5 DEF Moves

\* A reader that does not take or push a trade changes neither what was taken
\* nor what the others hold.
LEMMA QuietStep ==
    ASSUME TradeInv, NEW e \in 1 .. Epoch,
           NEW step \in ReaderSteps, step # "pushing", NEW position \in Nat,
           Moves(e, step, position), position <= trades,
           step \in {"reading", "stamping"} =>
               \/ position = trades
               \/ position = reader[e].position /\ reader[e].at \in {"reading", "stamping"},
           UNCHANGED <<queue, delivered, trades>>
    PROVE  NoTradeTwice' /\ HeldOnce' /\ MadeBefore' /\ CurrentAhead'
<1>1. TypeInv /\ NoTradeTwice /\ HeldOnce /\ MadeBefore /\ CurrentAhead
  BY DEF TradeInv
<1>2. /\ Epoch \in Nat /\ trades \in Nat
      /\ \A f \in 1 .. Epoch : reader[f].position \in Nat
      /\ \A t \in Taken : t \in Nat
  BY <1>1, MovesType
<1>3. Taken' = Taken /\ Epoch' = Epoch
  BY DEF Taken, Moves
<1>4. \A f \in 1 .. Epoch : Holds(f)' => f # e /\ Holds(f) /\ reader'[f] = reader[f]
  BY DEF Holds, Moves
<1>5. \A f \in 1 .. Epoch : f # e => reader'[f] = reader[f]
  BY DEF Moves
<1>6. NoTradeTwice'
  BY <1>1 DEF NoTradeTwice
<1>7. HeldOnce'
  BY <1>1, <1>3, <1>4 DEF HeldOnce
<1>8. MadeBefore'
  BY <1>1, <1>3, <1>5 DEF MadeBefore, Moves
<1>9. CurrentAhead'
  <2>1. CASE e = Epoch
    <3>1. reader'[e].at = step /\ reader'[e].position = position
      BY DEF Moves
    <3>2. CASE step \notin {"reading", "stamping", "pushing"}
      BY <1>3, <2>1, <3>1, <3>2 DEF CurrentAhead, Ahead
    <3>3. CASE position = trades
      BY <1>1, <1>2, <1>3, <1>4, <2>1, <3>1, <3>3 DEF CurrentAhead, Ahead, MadeBefore
    <3>4. CASE position = reader[e].position /\ reader[e].at \in {"reading", "stamping"}
      BY <1>1, <1>2, <1>3, <1>4, <2>1, <3>1, <3>4 DEF CurrentAhead, Ahead
    <3> QED
      BY <3>2, <3>3, <3>4
  <2>2. CASE e # Epoch
    BY <1>1, <1>2, <1>3, <1>4, <1>5, <2>2 DEF CurrentAhead, Ahead
  <2> QED
    BY <2>1, <2>2
<1> QED
  BY <1>6, <1>7, <1>8, <1>9

\* Only the current reader takes a trade, and it is one that nobody has.
LEMMA TakeStep ==
    ASSUME TradeInv, NEW e \in 1 .. Epoch, Takes(e), UNCHANGED <<delivered, trades>>
    PROVE  NoTradeTwice' /\ HeldOnce' /\ MadeBefore' /\ CurrentAhead'
<1> DEFINE next == reader[e].position + 1
<1>1. /\ TypeInv /\ NoTradeTwice /\ HeldOnce /\ MadeBefore /\ CurrentAhead
      /\ Moves(e, "pushing", next) /\ e = Epoch /\ reader[e].at = "reading"
      /\ reader[e].position < trades
  BY DEF TradeInv, Takes
<1>2. /\ Epoch \in Nat /\ trades \in Nat
      /\ \A f \in 1 .. Epoch : reader[f].position \in Nat
      /\ \A t \in Taken : t \in Nat
  BY <1>1, MovesType
<1>3. Taken' = Taken /\ Epoch' = Epoch
  BY <1>1 DEF Taken, Moves, Takes
<1>4. \A f \in 1 .. Epoch : f # e => reader'[f] = reader[f]
  BY <1>1 DEF Moves
<1>5. reader'[e].position = next /\ next \in Nat /\ next <= trades
  BY <1>1, <1>2 DEF Moves
<1>6. /\ \A t \in Taken : t < next
      /\ \A f \in 1 .. Epoch : Holds(f) => reader[f].position < next
  BY <1>1, <1>2 DEF CurrentAhead, Ahead
<1> HIDE DEF next
<1>7. NoTradeTwice'
  BY <1>1 DEF NoTradeTwice, Takes
<1>8. HeldOnce'
  <2> SUFFICES ASSUME NEW f \in 1 .. Epoch, Holds(f)'
               PROVE  /\ reader'[f].position \notin Taken
                      /\ \A g \in 1 .. Epoch : Holds(g)' /\ g # f =>
                             reader'[g].position # reader'[f].position
    BY <1>3 DEF HeldOnce
  <2>1. CASE f = e
    BY <1>2, <1>4, <1>5, <1>6, <2>1 DEF Holds
  <2>2. CASE f # e
    BY <1>1, <1>2, <1>4, <1>5, <1>6, <2>2 DEF Holds, HeldOnce
  <2> QED
    BY <2>1, <2>2
<1>9. MadeBefore'
  BY <1>1, <1>3, <1>4, <1>5 DEF MadeBefore
<1>10. CurrentAhead'
  BY <1>1, <1>2, <1>3, <1>4, <1>5, <1>6 DEF CurrentAhead, Ahead, Holds
<1> QED
  BY <1>7, <1>8, <1>9, <1>10

\* A reader pushes the trade it holds, also after it was replaced.
LEMMA PushStep ==
    ASSUME TradeInv, NEW e \in 1 .. Epoch, Pushes(e), UNCHANGED <<delivered, trades>>
    PROVE  /\ queue' \in Seq(Nat)
           /\ NoTradeTwice' /\ HeldOnce' /\ MadeBefore' /\ CurrentAhead'
<1> DEFINE t == reader[e].position
<1>1. /\ TypeInv /\ NoTradeTwice /\ HeldOnce /\ MadeBefore /\ CurrentAhead
      /\ Moves(e, "stamping", t) /\ Holds(e) /\ queue' = Append(queue, t)
  BY DEF TradeInv, Pushes
<1>2. /\ Epoch \in Nat /\ trades \in Nat
      /\ \A f \in 1 .. Epoch : reader[f].position \in Nat
      /\ \A u \in Taken : u \in Nat
  BY <1>1, MovesType
<1>3. t \notin Taken /\ t \in Nat /\ t <= trades
  BY <1>1, <1>2 DEF HeldOnce, MadeBefore
<1>4. /\ queue' \in Seq(Nat) /\ IsInjective(queue') /\ Range(queue') = Range(queue) \cup {t}
  BY <1>1, <1>3, AppendNew DEF TypeInv, NoTradeTwice, Taken
<1>5. Taken' = Taken \cup {t} /\ Epoch' = Epoch
  BY <1>1, <1>4 DEF Taken, Moves
<1>6. NoTradeTwice'
  BY <1>1, <1>3, <1>4 DEF NoTradeTwice, Taken
<1>7. /\ \A f \in 1 .. Epoch : reader'[f].position = reader[f].position
      /\ \A f \in 1 .. Epoch : Holds(f)' => f # e /\ Holds(f)
      /\ \A f \in 1 .. Epoch : f # e => reader'[f] = reader[f]
      /\ reader'[e].at = "stamping"
  BY <1>1 DEF Moves, Holds
<1>8. HeldOnce'
  BY <1>1, <1>5, <1>7 DEF HeldOnce
<1>9. MadeBefore'
  BY <1>1, <1>3, <1>5, <1>7 DEF MadeBefore
<1>10. CurrentAhead'
  BY <1>1, <1>2, <1>5, <1>7 DEF CurrentAhead, Ahead, Holds
<1> QED
  BY <1>4, <1>6, <1>8, <1>9, <1>10

LEMMA ReaderKeeps ==
    ASSUME TradeInv, NEW e \in 1 .. Epoch, Reader(e), UNCHANGED strict
    PROVE  TradeInv'
<1>1. /\ UNCHANGED <<clientVars, trades>>
      /\ running' \in {running, FALSE} /\ age' \in {age, "recent"}
      /\ Takes(e) \/ Pushes(e) \/ Begins(e) \/ GoesOn(e) \/ Leaves(e)
  BY ReaderEffect DEF TradeInv
<1>2. UNCHANGED <<connected, subscriptions, delivered, trades>>
  BY <1>1 DEF clientVars
<1>3. reader[e].position \in Nat /\ reader[e].position <= trades /\ trades \in Nat
  <2>1. reader[e] \in Readers /\ trades \in Nat
    BY DEF TradeInv, TypeInv, Epoch
  <2> QED
    BY <2>1 DEF TradeInv, MadeBefore, Readers
<1>4. /\ queue' \in Seq(Nat) /\ reader' \in Seq(Readers)
      /\ NoTradeTwice' /\ HeldOnce' /\ MadeBefore' /\ CurrentAhead'
  <2>1. queue \in Seq(Nat)
    BY DEF TradeInv, TypeInv
  <2>2. CASE Takes(e)
    BY <1>2, <2>1, <2>2, TakeStep DEF Takes, Moves
  <2>3. CASE Pushes(e)
    BY <1>2, <2>3, PushStep DEF Pushes, Moves
  <2>4. CASE Begins(e)
    <3>1. Moves(e, "reading", trades) /\ "reading" \in ReaderSteps /\ trades <= trades
      BY <1>3, <2>4 DEF Begins, ReaderSteps
    <3>2. UNCHANGED queue /\ reader' \in Seq(Readers)
      BY <2>4, <3>1 DEF Begins, Moves
    <3> QED
      BY <1>2, <1>3, <2>1, <3>1, <3>2, QuietStep
  <2>5. CASE GoesOn(e)
    <3>1. PICK step \in {"reading", "stamping"} : Moves(e, step, reader[e].position)
      BY <2>5 DEF GoesOn
    <3>2. UNCHANGED queue /\ reader' \in Seq(Readers) /\ step \in ReaderSteps
      BY <2>5, <3>1 DEF GoesOn, Moves, ReaderSteps
    <3> QED
      BY <1>2, <1>3, <2>1, <2>5, <3>1, <3>2, QuietStep DEF GoesOn
  <2>6. CASE Leaves(e)
    <3>1. PICK step \in {"leaving", "clearing", "ended"}, position \in {0, reader[e].position} :
              Moves(e, step, position)
      BY <2>6 DEF Leaves
    <3>2. UNCHANGED queue /\ reader' \in Seq(Readers) /\ step \in ReaderSteps
      BY <2>6, <3>1 DEF Leaves, Moves, ReaderSteps
    <3>3. position \in Nat /\ position <= trades
      BY <1>3
    <3> QED
      BY <1>2, <2>1, <3>1, <3>2, <3>3, QuietStep
  <2> QED
    BY <1>1, <2>2, <2>3, <2>4, <2>5, <2>6
<1>5. TypeInv'
  BY <1>1, <1>2, <1>4 DEF TradeInv, TypeInv
<1> QED
  BY <1>4, <1>5 DEF TradeInv

-----------------------------------------------------------------------------
(* The calls of the adapter.                                               *)

LEMMA RestartFacts ==
    ASSUME TypeInv, NEW symbols \in SUBSET Symbols, Restart(symbols)
    PROVE  /\ reader' \in Seq(Readers) /\ Epoch' = Epoch + 1 /\ Epoch \in Nat
           /\ \A f \in 1 .. Epoch : reader'[f] = reader[f]
           /\ reader'[Epoch'].at = "starting" /\ reader'[Epoch'].symbols = symbols
           /\ reader'[Epoch'].position = 0
<1> DEFINE new == [at |-> "starting", symbols |-> symbols, position |-> 0]
<1>1. new \in Readers /\ reader \in Seq(Readers)
  BY DEF Readers, ReaderSteps, TypeInv
<1>2. new.at = "starting" /\ new.symbols = symbols /\ new.position = 0
  OBVIOUS
<1>3. reader' = Append(reader, new)
  BY DEF Restart
<1> HIDE DEF new
<1> QED
  BY <1>1, <1>2, <1>3, AppendProperties DEF Epoch

\* A new reader has no trade, and what the earlier ones hold they still hold.
LEMMA RestartStep ==
    ASSUME TradeInv, NEW symbols \in SUBSET Symbols, Restart(symbols),
           UNCHANGED <<queue, delivered, trades>>
    PROVE  /\ reader' \in Seq(Readers)
           /\ NoTradeTwice' /\ HeldOnce' /\ MadeBefore' /\ CurrentAhead'
<1>1. TypeInv /\ NoTradeTwice /\ HeldOnce /\ MadeBefore
  BY DEF TradeInv
<1>2. /\ reader' \in Seq(Readers) /\ Epoch' = Epoch + 1 /\ Epoch \in Nat
      /\ \A f \in 1 .. Epoch : reader'[f] = reader[f]
      /\ reader'[Epoch'].at = "starting" /\ reader'[Epoch'].position = 0
  BY <1>1, RestartFacts
<1>3. Taken' = Taken /\ \A f \in 1 .. Epoch' : f \in 1 .. Epoch \/ f = Epoch'
  BY <1>2 DEF Taken
<1>4. \A f \in 1 .. Epoch' : Holds(f)' => f \in 1 .. Epoch /\ Holds(f) /\ reader'[f] = reader[f]
  BY <1>2, <1>3 DEF Holds
<1>5. NoTradeTwice'
  BY <1>1 DEF NoTradeTwice
<1>6. HeldOnce'
  BY <1>1, <1>3, <1>4 DEF HeldOnce
<1>7. trades \in Nat
  BY <1>1 DEF TypeInv
<1>8. MadeBefore'
  BY <1>1, <1>2, <1>3, <1>7 DEF MadeBefore
<1>9. CurrentAhead'
  BY <1>2 DEF CurrentAhead, Ahead
<1> QED
  BY <1>2, <1>5, <1>6, <1>8, <1>9

\* A call that starts no reader and takes nothing from the queue.
LEMMA SameTrades ==
    ASSUME TradeInv, UNCHANGED <<queue, delivered, reader>>,
           trades' \in Nat, trades <= trades'
    PROVE  NoTradeTwice' /\ HeldOnce' /\ MadeBefore' /\ CurrentAhead'
<1>1. /\ NoTradeTwice /\ HeldOnce /\ MadeBefore /\ CurrentAhead /\ Taken' = Taken
      /\ Epoch' = Epoch
  BY DEF TradeInv, Taken, Epoch
<1>2. trades \in Nat /\ queue \in Seq(Nat) /\ delivered \in SUBSET Nat /\ reader \in Seq(Readers)
  BY DEF TradeInv, TypeInv
<1>3. \A t \in Taken : t \in Nat
  BY <1>2, RangeOfSeq DEF Taken
<1>4. \A e \in 1 .. Epoch : reader[e].position \in Nat
  <2>1. \A e \in 1 .. Epoch : reader[e] \in Readers
    BY <1>2 DEF Epoch
  <2> QED
    BY <2>1 DEF Readers
<1>5. MadeBefore'
  BY <1>1, <1>2, <1>3, <1>4 DEF MadeBefore
<1> QED
  BY <1>1, <1>5 DEF NoTradeTwice, HeldOnce, CurrentAhead, Ahead, Holds

LEMMA ConnectKeeps ==
    ASSUME TradeInv, Connect, UNCHANGED strict
    PROVE  TradeInv'
<1>1. subscriptions' \in SUBSET Symbols
  BY BinanceAssumption DEF TradeInv, TypeInv, Connect
<1>2. Restart(subscriptions') /\ UNCHANGED <<queue, delivered, trades>>
  BY DEF Connect
<1>3. /\ reader' \in Seq(Readers)
      /\ NoTradeTwice' /\ HeldOnce' /\ MadeBefore' /\ CurrentAhead'
  BY <1>1, <1>2, RestartStep
<1> QED
  BY <1>1, <1>2, <1>3 DEF Connect, Restart, TradeInv, TypeInv

LEMMA SubscribeKeeps ==
    ASSUME TradeInv, NEW s \in Symbols, Subscribe(s), UNCHANGED strict
    PROVE  TradeInv'
<1>1. trades \in Nat /\ subscriptions \in SUBSET Symbols
  BY DEF TradeInv, TypeInv
<1>2. CASE Restart(subscriptions') /\ subscriptions' = subscriptions \cup {s}
  <2>1. subscriptions' \in SUBSET Symbols
    BY <1>1, <1>2
  <2>2. UNCHANGED <<queue, delivered, trades>>
    BY DEF Subscribe
  <2>3. /\ reader' \in Seq(Readers)
        /\ NoTradeTwice' /\ HeldOnce' /\ MadeBefore' /\ CurrentAhead'
    BY <1>2, <2>1, <2>2, RestartStep
  <2> QED
    BY <1>2, <2>1, <2>3 DEF Subscribe, Restart, TradeInv, TypeInv
<1>3. CASE UNCHANGED <<subscriptions, reader, running>>
  <2>1. NoTradeTwice' /\ HeldOnce' /\ MadeBefore' /\ CurrentAhead'
    BY <1>1, <1>3, SameTrades DEF Subscribe
  <2> QED
    BY <1>3, <2>1 DEF Subscribe, TradeInv, TypeInv
<1> QED
  BY <1>2, <1>3 DEF Subscribe

\* poll_bar moves a trade from the queue to what was delivered.
LEMMA PollQueuedKeeps ==
    ASSUME TradeInv, PollQueued, UNCHANGED strict
    PROVE  TradeInv'
<1>1. /\ queue \in Seq(Nat) /\ queue # <<>> /\ queue' = Tail(queue)
      /\ delivered \in SUBSET Nat /\ delivered' = delivered \cup {Head(queue)}
      /\ IsInjective(queue) /\ Range(queue) \cap delivered = {}
      /\ UNCHANGED <<connected, subscriptions, running, age, reader, trades>>
  BY DEF PollQueued, TradeInv, TypeInv, NoTradeTwice
<1>2. /\ Tail(queue) \in Seq(Nat) /\ Head(queue) \in Nat
      /\ Range(queue) = Range(queue') \cup {Head(queue)}
      /\ IsInjective(queue') /\ Head(queue) \notin Range(queue')
  BY <1>1, TailRange, TailNew
<1>3. NoTradeTwice' /\ Taken' = Taken
  BY <1>1, <1>2 DEF NoTradeTwice, Taken
<1>4. HeldOnce' /\ MadeBefore' /\ CurrentAhead'
  BY <1>1, <1>3 DEF TradeInv, HeldOnce, MadeBefore, CurrentAhead, Ahead, Holds, Epoch
<1> QED
  BY <1>1, <1>2, <1>3, <1>4 DEF TradeInv, TypeInv

LEMMA NextTradeInv == TradeInv /\ [BinanceNext]_binanceVars => TradeInv'
<1> SUFFICES ASSUME TradeInv, [BinanceNext]_binanceVars PROVE TradeInv'
  OBVIOUS
<1>1. trades \in Nat /\ connected \in BOOLEAN /\ running \in BOOLEAN /\ strict \in BOOLEAN
  BY DEF TradeInv, TypeInv
<1>2. CASE (Heartbeat \/ PollEmpty \/ PollFlag \/ PollUnconnected) /\ UNCHANGED strict
  <2>1. /\ UNCHANGED <<subscriptions, sharedVars, reader, delivered, trades>>
        /\ connected' \in BOOLEAN
    BY <1>1, <1>2 DEF Heartbeat, PollEmpty, PollFlag, PollUnconnected
  <2>2. NoTradeTwice' /\ HeldOnce' /\ MadeBefore' /\ CurrentAhead'
    BY <1>1, <2>1, SameTrades DEF sharedVars
  <2> QED
    BY <1>2, <2>1, <2>2 DEF TradeInv, TypeInv, sharedVars
<1>3. CASE (Elapse \/ Trade \/ UNCHANGED binanceVars) /\ UNCHANGED strict
  <2>1. /\ UNCHANGED <<clientVars, queue, running, reader>>
        /\ trades' \in {trades, trades + 1} /\ age' \in {age, "expired"}
    BY <1>3 DEF Elapse, Trade, binanceVars, sharedVars
  <2>2. NoTradeTwice' /\ HeldOnce' /\ MadeBefore' /\ CurrentAhead'
    BY <1>1, <2>1, SameTrades DEF clientVars
  <2> QED
    BY <1>1, <1>3, <2>1, <2>2 DEF TradeInv, TypeInv, clientVars
<1> QED
  BY <1>2, <1>3, ReaderKeeps, ConnectKeeps, SubscribeKeeps, PollQueuedKeeps
     DEF BinanceNext, Poll, binanceVars

\* No trade is delivered twice or waits twice, whichever readers receive at the
\* same time and whatever the order of their pushes, restarts and polls.
THEOREM NoTradeTwiceHolds == BinanceSpec => []NoTradeTwice
<1>1. TradeInv => NoTradeTwice
  BY DEF TradeInv
<1> QED
  BY InitTradeInv, NextTradeInv, <1>1, PTL DEF BinanceSpec

-----------------------------------------------------------------------------
(* The contract.  The adapter answers for its flag and its list of          *)
(* subscriptions; that the list is what the current reader was started with *)
(* makes a known symbol one that the connection carries.                    *)

CarriesListed == connected => Epoch > 0 /\ reader[Epoch].symbols = subscriptions

\* A poll under way has found the adapter connected, and no other call comes in
\* between.
PollConnected == polling => connected

LEMMA PollStaysConnected == PollConnected /\ [BinanceNext]_binanceVars => PollConnected'
<1> SUFFICES ASSUME PollConnected, [BinanceNext]_binanceVars PROVE PollConnected'
  OBVIOUS
<1>1. CASE UNCHANGED clientVars
  BY <1>1 DEF PollConnected, clientVars
<1>2. CASE AtOnce
  BY <1>2 DEF PollConnected, AtOnce
<1>3. CASE PollEmpty
  BY <1>3 DEF PollConnected, PollEmpty
<1>4. CASE PollFlag
  BY <1>4 DEF PollConnected, PollFlag
<1>5. ASSUME NEW e \in 1 .. Epoch, Reader(e) PROVE UNCHANGED clientVars
  BY <1>5 DEF Reader, ReaderFails, ReaderConnects, ReadTrade, ReadPing, ReadEnd, PushBar,
              Stamp, TestEpoch, ClearFlag
<1>6. CASE Elapse \/ Trade \/ UNCHANGED binanceVars
  BY <1>1, <1>6 DEF Elapse, Trade, binanceVars
<1>7. CASE Connect \/ Heartbeat \/ PollQueued \/ PollUnconnected \/ \E s \in Symbols : Subscribe(s)
  BY <1>2, <1>7 DEF Connect, Heartbeat, PollQueued, PollUnconnected, Subscribe
<1> QED
  BY <1>1, <1>3, <1>4, <1>5, <1>6, <1>7 DEF BinanceNext, Poll

LEMMA ReaderContract ==
    ASSUME TypeInv, CarriesListed, NEW e \in 1 .. Epoch, Reader(e)
    PROVE  CarriesListed' /\ [Contract!AdapterNext]_(Contract!adapterVars)
<1>1. /\ UNCHANGED <<clientVars, trades>>
      /\ running' \in {running, FALSE}
      /\ Takes(e) \/ Pushes(e) \/ Begins(e) \/ GoesOn(e) \/ Leaves(e)
  BY ReaderEffect
<1>2. /\ Epoch' = Epoch
      /\ \A f \in 1 .. Epoch : reader'[f].symbols = reader[f].symbols
  BY <1>1 DEF Takes, Pushes, Begins, GoesOn, Leaves, Moves
<1>3. connected' = connected /\ subscriptions' = subscriptions /\ call' = call
  BY <1>1 DEF clientVars
<1>4. connected => Epoch \in 1 .. Epoch
  BY DEF CarriesListed, TypeInv, Epoch
<1>5. CarriesListed' /\ Live' = Live
  BY <1>2, <1>3, <1>4 DEF CarriesListed, Live
<1>6. CASE ~connected \/ running' = running
  <2>1. Link' = Link
    BY <1>3, <1>6 DEF Link
  <2> QED
    BY <1>3, <1>5, <2>1 DEF Contract!adapterVars
<1>7. CASE connected /\ running' # running
  <2>1. running /\ ~running'
    BY <1>1, <1>7, Zenon DEF TypeInv
  <2>2. Link = "up" /\ Link' = "silent"
    BY <1>3, <1>7, <2>1 DEF Link
  <2>3. Contract!LinkBreaks
    BY <1>3, <1>5, <2>2 DEF Contract!LinkBreaks, Contract!LinkBecomes
  <2> QED
    BY <1>5, <2>3 DEF Contract!AdapterNext
<1> QED
  BY <1>6, <1>7

LEMMA RestartContract ==
    ASSUME TypeInv, NEW symbols \in SUBSET Symbols, Restart(symbols),
           connected' = TRUE, subscriptions' = symbols
    PROVE  CarriesListed' /\ Link' = "up" /\ Live' = symbols
<1>1. Epoch' = Epoch + 1 /\ Epoch \in Nat /\ reader'[Epoch'].symbols = symbols
  BY RestartFacts
<1>2. running' = TRUE
  BY DEF Restart
<1> QED
  BY <1>1, <1>2 DEF CarriesListed, Link, Live

LEMMA ConnectContract ==
    ASSUME TypeInv, Connect
    PROVE  CarriesListed' /\ Contract!ConnectSucceeds
<1>1. subscriptions' \in SUBSET Symbols
  BY BinanceAssumption DEF TypeInv, Connect
<1>2. CarriesListed' /\ Link' = "up" /\ Live' = subscriptions'
  BY <1>1, RestartContract DEF Connect
<1> QED
  BY <1>1, <1>2 DEF Connect, Contract!ConnectSucceeds, Contract!Returned

\* A call that fails leaves the adapter disconnected.
LEMMA FailContract ==
    ASSUME connected' = FALSE, call' = "error"
    PROVE  CarriesListed' /\ Contract!CallFails
<1>1. Link' = "down" /\ Live' = {}
  BY DEF Link, Live
<1> QED
  BY <1>1 DEF CarriesListed, Contract!CallFails, Contract!LinkBecomes, Contract!Returned

LEMMA SubscribeContract ==
    ASSUME TypeInv, CarriesListed, NEW s \in Symbols, Subscribe(s)
    PROVE  CarriesListed' /\ (Contract!CallFails \/ Contract!SubscribeSucceeds(s))
<1>1. connected' = connected /\ connected \in BOOLEAN /\ subscriptions \in SUBSET Symbols
  BY DEF Subscribe, TypeInv
<1>2. connected => Link # "down" /\ Live = subscriptions
  BY DEF CarriesListed, Link, Live
<1>3. CASE ~connected
  BY <1>1, <1>3, FailContract DEF Subscribe
<1>4. CASE connected /\ s \in subscriptions
  <2>1. UNCHANGED <<connected, subscriptions, reader, running>> /\ call' = s
    BY <1>1, <1>4 DEF Subscribe
  <2>2. Link' = Link /\ Live' = Live /\ CarriesListed'
    BY <2>1 DEF Link, Live, CarriesListed, Epoch
  <2> QED
    BY <1>2, <1>4, <2>1, <2>2 DEF Contract!SubscribeSucceeds, Contract!Returned
<1>5. CASE connected /\ s \notin subscriptions
  <2>1. /\ subscriptions' = subscriptions \cup {s} /\ subscriptions' \in SUBSET Symbols
        /\ Restart(subscriptions') /\ call' = s
    BY <1>1, <1>5 DEF Subscribe
  <2>2. CarriesListed' /\ Link' = "up" /\ Live' = subscriptions'
    BY <1>1, <1>5, <2>1, RestartContract
  <2> QED
    BY <1>2, <1>5, <2>1, <2>2 DEF Contract!SubscribeSucceeds, Contract!Returned
<1> QED
  BY <1>3, <1>4, <1>5

\* heartbeat and poll_bar.
LEMMA PollContract ==
    ASSUME TypeInv, CarriesListed, PollConnected,
           Heartbeat \/ PollQueued \/ PollFlag \/ PollUnconnected
    PROVE  CarriesListed' /\ (Contract!CallFails \/ Contract!CallSucceeds)
<1>1. /\ UNCHANGED <<subscriptions, reader, running>>
      /\ \/ connected' = FALSE /\ call' = "error"
         \/ connected /\ connected' = connected /\ call' = "ok"
  BY DEF TypeInv, PollConnected, Heartbeat, PollQueued, PollFlag, PollUnconnected, sharedVars
<1>2. CASE connected' = FALSE /\ call' = "error"
  BY <1>2, FailContract
<1>3. CASE connected /\ connected' = connected /\ call' = "ok"
  <2>1. Link' = Link /\ Live' = Live /\ CarriesListed' /\ Link # "down"
    BY <1>1, <1>3 DEF Link, Live, CarriesListed, Epoch
  <2> QED
    BY <1>3, <2>1 DEF Contract!CallSucceeds, Contract!Returned
<1> QED
  BY <1>1, <1>2, <1>3

LEMMA StepContract ==
    ASSUME TypeInv, CarriesListed, PollConnected, [BinanceNext]_binanceVars
    PROVE  CarriesListed' /\ [Contract!AdapterNext]_(Contract!adapterVars)
<1>1. CASE Elapse \/ Trade \/ PollEmpty \/ UNCHANGED binanceVars
  <2>1. UNCHANGED <<connected, subscriptions, running, reader, call>>
    BY <1>1 DEF Elapse, Trade, PollEmpty, binanceVars, clientVars, sharedVars
  <2> QED
    BY <2>1 DEF Link, Live, CarriesListed, Epoch, Contract!adapterVars
<1>2. CASE \E e \in 1 .. Epoch : Reader(e)
  BY <1>2, ReaderContract
<1>3. CASE Connect
  BY <1>3, ConnectContract DEF Contract!AdapterNext
<1>4. CASE \E s \in Symbols : Subscribe(s)
  BY <1>4, SubscribeContract DEF Contract!AdapterNext
<1>5. CASE Heartbeat \/ PollQueued \/ PollFlag \/ PollUnconnected
  BY <1>5, PollContract DEF Contract!AdapterNext
<1> QED
  BY <1>1, <1>2, <1>3, <1>4, <1>5 DEF BinanceNext, Poll

\* BinanceWsAdapter is an adapter as the ResilientAdapter needs it, for any
\* number of readers: a flag that an old reader clears is a connection that
\* broke, and a working connection carries every symbol it has accepted.
THEOREM AdapterContractHolds == BinanceSpec => AdapterContract
<1>1. BinanceInit => CarriesListed /\ PollConnected /\ Contract!AdapterInit
  BY DEF BinanceInit, CarriesListed, PollConnected, Link, Live, Contract!AdapterInit
<1>2. TradeInv => TypeInv
  BY DEF TradeInv
<1>3. TypeInv /\ CarriesListed /\ PollConnected /\ [BinanceNext]_binanceVars
          => CarriesListed' /\ [Contract!AdapterNext]_(Contract!adapterVars)
  BY StepContract
<1> QED
  BY InitTradeInv, NextTradeInv, PollStaysConnected, <1>1, <1>2, <1>3, PTL
     DEF BinanceSpec, AdapterContract, Contract!AdapterSpec

=============================================================================
