----------------------------- MODULE IdGenerator -----------------------------
(***************************************************************************)
(* The id generators of the struxis crate, one per kind of structure, all  *)
(* of them shared by every thread and timeframe of the process.  A mutex   *)
(* serializes the calls of get_id on one generator, so a call is one step, *)
(* unless the sequence of a millisecond is used up: then it holds the      *)
(* mutex and reads the clock again and again.  The system clock advances,  *)
(* and may be set back.                                                    *)
(*                                                                         *)
(* Time is counted in milliseconds from EPOCH_MS, and the clock is never   *)
(* before it.  The initial last_timestamp is before every clock value.     *)
(***************************************************************************)
EXTENDS Integers, Sequences, Functions

CONSTANTS Workers,          \* the worker ids of the generators
          WorkerRange,      \* the worker ids that fit: 1 << WORKER_ID_BITS
          SequenceRange,    \* the ids per millisecond: MAX_SEQUENCE + 1
          MaxClock,         \* bound: the last millisecond
          MaxSetBacks       \* bound: how often the clock is set back

ASSUME GeneratorAssumption ==
    /\ WorkerRange \in Nat \ {0}
    /\ SequenceRange \in Nat \ {0}
    /\ Workers \subseteq 0 .. WorkerRange - 1
    /\ MaxClock \in Nat
    /\ MaxSetBacks \in Nat

VARIABLES clock,       \* current_timestamp_ms
          setBacks,    \* how often the clock was set back
          last,        \* per generator: last_timestamp
          sequence,    \* per generator: sequence
          waiting,     \* per generator: a call waits for the next millisecond
          issued       \* per generator: the ids it has returned, in order

generatorVars == <<clock, setBacks, last, sequence, waiting, issued>>

Never == -1

\* Mutation of Id: the worker id is not shifted out of the sequence's bits.
IdUnshifted(ts, w, s) == ts * WorkerRange * SequenceRange + w + s

\* The bits of the timestamp, of the worker id and of the sequence number,
\* one above the other.
Id(ts, w, s) == (ts * WorkerRange + w) * SequenceRange + s

GeneratorTypeOK ==
    /\ clock \in Nat
    /\ setBacks \in 0 .. MaxSetBacks
    /\ last \in [Workers -> Nat \cup {Never}]
    /\ sequence \in [Workers -> 0 .. SequenceRange - 1]
    /\ waiting \in [Workers -> BOOLEAN]
    /\ issued \in [Workers -> Seq(Nat)]

GeneratorInit ==
    /\ clock \in 0 .. MaxClock
    /\ setBacks = 0
    /\ last = [w \in Workers |-> Never]
    /\ sequence = [w \in Workers |-> 0]
    /\ waiting = [w \in Workers |-> FALSE]
    /\ issued = [w \in Workers |-> <<>>]

-----------------------------------------------------------------------------
(* get_id.                                                                 *)

\* Returning an id and leaving the mutex.
Issue(w, ts, s) ==
    /\ last' = [last EXCEPT ![w] = ts]
    /\ sequence' = [sequence EXCEPT ![w] = s]
    /\ waiting' = [waiting EXCEPT ![w] = FALSE]
    /\ issued' = [issued EXCEPT ![w] = Append(@, Id(ts, w, s))]

NextSequence(s) == (s + 1) % SequenceRange

\* Mutations of NewMillisecond: the sequence starts where it was; the branch
\* is taken for every other millisecond, earlier ones included.
NewMillisecondKeeps(w) ==
    /\ ~waiting[w]
    /\ clock > last[w]
    /\ Issue(w, clock, sequence[w])
    /\ UNCHANGED <<clock, setBacks>>

NewMillisecondUnclamped(w) ==
    /\ ~waiting[w]
    /\ clock # last[w]
    /\ Issue(w, clock, 0)
    /\ UNCHANGED <<clock, setBacks>>

\* A call in a millisecond later than that of the last id.
NewMillisecond(w) ==
    /\ ~waiting[w]
    /\ clock > last[w]
    /\ Issue(w, clock, 0)
    /\ UNCHANGED <<clock, setBacks>>

\* A call in the same millisecond, or with a clock that was set back since,
\* takes the next number of the millisecond of the last id.
SameMillisecond(w) ==
    /\ ~waiting[w]
    /\ clock <= last[w]
    /\ NextSequence(sequence[w]) # 0
    /\ Issue(w, last[w], NextSequence(sequence[w]))
    /\ UNCHANGED <<clock, setBacks>>

\* The numbers of that millisecond are used up.  A behaviour ends before
\* this happens in the last millisecond there is.
Exhausted(w) ==
    /\ ~waiting[w]
    /\ clock <= last[w] /\ last[w] < MaxClock
    /\ NextSequence(sequence[w]) = 0
    /\ sequence' = [sequence EXCEPT ![w] = 0]
    /\ waiting' = [waiting EXCEPT ![w] = TRUE]
    /\ UNCHANGED <<clock, setBacks, last, issued>>

\* Mutation of Resume: the loop tests the clock it read before.
ResumeStale(w) ==
    /\ waiting[w]
    /\ last[w] > last[w]
    /\ Issue(w, last[w], 0)
    /\ UNCHANGED <<clock, setBacks>>

\* The loop reads a clock that has passed the last timestamp.
Resume(w) ==
    /\ waiting[w]
    /\ clock > last[w]
    /\ Issue(w, clock, 0)
    /\ UNCHANGED <<clock, setBacks>>

-----------------------------------------------------------------------------
(* The system clock.                                                       *)

Advance ==
    /\ clock < MaxClock
    /\ clock' = clock + 1
    /\ UNCHANGED <<setBacks, last, sequence, waiting, issued>>

SetBack ==
    /\ setBacks < MaxSetBacks
    /\ clock' \in 0 .. clock - 1
    /\ setBacks' = setBacks + 1
    /\ UNCHANGED <<last, sequence, waiting, issued>>

-----------------------------------------------------------------------------

GeneratorNext ==
    \/ \E w \in Workers :
          NewMillisecond(w) \/ SameMillisecond(w) \/ Exhausted(w) \/ Resume(w)
    \/ Advance \/ SetBack

\* The clock goes on, and a call that reads it again and again is scheduled.
GeneratorSpec ==
    /\ GeneratorInit /\ [][GeneratorNext]_generatorVars
    /\ WF_generatorVars(Advance)
    /\ \A w \in Workers : WF_generatorVars(Resume(w))

-----------------------------------------------------------------------------
(* Properties.                                                             *)

\* A generator's ids increase, also when the clock is set back and when a
\* millisecond is used up: no id is returned twice, and the layers compare
\* ids to tell which of two rows is the later one.
IdsIncrease ==
    \A w \in Workers : \A i, j \in 1 .. Len(issued[w]) :
        i < j => issued[w][i] < issued[w][j]

\* No two generators ever return the same id.
IdsDisjoint ==
    \A v, w \in Workers : v # w => Range(issued[v]) \cap Range(issued[w]) = {}

\* A call only waits when each number of the millisecond is taken: setting
\* the clock back does not by itself make a caller wait.
WaitsOnlyExhausted ==
    \A w \in Workers :
        waiting[w] => \A s \in 0 .. SequenceRange - 1 : Id(last[w], w, s) \in Range(issued[w])

\* A call that waits returns.
GetIdReturns == \A w \in Workers : waiting[w] ~> ~waiting[w]

=============================================================================
