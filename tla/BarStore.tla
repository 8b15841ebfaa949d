------------------------------ MODULE BarStore ------------------------------
(***************************************************************************)
(* The append-only bar file of the market crate and the sessions of        *)
(* processes that open it, append to it, flush it and go away, orderly or  *)
(* not.                                                                    *)
(*                                                                         *)
(* A record is one line of text.  It is cut into two pieces: "head" is any *)
(* non-empty part of the line short of its newline, "tail" the rest with   *)
(* the newline.  BufWriter hands bytes to the file when its buffer fills,  *)
(* which can be between two records or inside one, so a crash, a failed    *)
(* append or a failed drop may leave a head without its tail, and the next *)
(* record is then written behind it on the same line.                      *)
(***************************************************************************)
EXTENDS Integers, Sequences, FiniteSets, SequencesExt

CONSTANTS MaxBars,       \* bound: the number of bars appended in a behaviour
          MaxSessions    \* bound: the number of times the file is opened

ASSUME BarStoreAssumption == MaxBars \in Nat /\ MaxSessions \in Nat

VARIABLES file,           \* the pieces the operating system has
          buf,            \* the pieces in the BufWriter of the open store
          isOpen,         \* a process holds the store
          sessions,       \* how often the file was opened
          results,        \* per bar given to append_bar, the session in which
                          \* it returned Ok, 0 if it returned an error
          durable,        \* the bars a flush has acknowledged
          interruptions   \* failed appends, failed drops and crashes

storeVars == <<file, buf, isOpen, sessions, results, durable, interruptions>>

BarIds == 1 .. MaxBars

Piece == [bar : BarIds, part : {"head", "tail"}]

StoreTypeOK ==
    /\ file \in Seq(Piece)
    /\ buf \in Seq(Piece)
    /\ isOpen \in BOOLEAN
    /\ sessions \in 0 .. MaxSessions
    /\ results \in Seq(0 .. MaxSessions) /\ Len(results) <= MaxBars
    /\ durable \subseteq DOMAIN results
    /\ interruptions \in Nat
    /\ ~isOpen => buf = <<>>

-----------------------------------------------------------------------------
(* Writing.                                                                *)

Fragment(b) == <<[bar |-> b, part |-> "head"]>>
Record(b) == Fragment(b) \o <<[bar |-> b, part |-> "tail"]>>

\* The first k pieces of the content reach the file, the buffer keeps the rest.
Spill(content, k) ==
    /\ file' = file \o SubSeq(content, 1, k)
    /\ buf' = SubSeq(content, k + 1, Len(content))

\* What the append of bar b returned: r is a session, or 0 for an error.
Returned(b, r) ==
    results' = [x \in DOMAIN results \cup {b} |-> IF x = b THEN r ELSE results[x]]

\* BufWriter empties a full buffer before it takes more bytes: not at all
\* for this record, before it or in the middle of it.  A record alone does
\* not fill the buffer.
AppendOk(b) ==
    /\ \E k \in {0, Len(buf), Len(buf) + 1} :
          /\ buf = <<>> => k = 0
          /\ Spill(buf \o Record(b), k)
    /\ Returned(b, sessions)
    /\ UNCHANGED <<isOpen, sessions, durable, interruptions>>

\* Emptying the buffer fails part of the way: what was not written stays in
\* the buffer, and the bytes of the record that were still to come are lost.
AppendFails(b) ==
    /\ buf # <<>>
    /\ \E content \in {buf, buf \o Fragment(b)} :
          \E k \in 0 .. Len(content) - 1 : Spill(content, k)
    /\ Returned(b, 0)
    /\ interruptions' = interruptions + 1
    /\ UNCHANGED <<isOpen, sessions, durable>>

\* Mutation of FlushOk: it is acknowledged without writing anything.
FlushOkEmpty ==
    /\ durable' = durable \cup {b \in DOMAIN results : results[b] = sessions}
    /\ UNCHANGED <<file, buf, isOpen, sessions, results, interruptions>>

\* BarStore::flush.
FlushOk ==
    /\ Spill(buf, Len(buf))
    /\ durable' = durable \cup {b \in DOMAIN results : results[b] = sessions}
    /\ UNCHANGED <<isOpen, sessions, results, interruptions>>

\* Mutation of FlushFails: the rest of the buffer is discarded.
FlushFailsDiscards ==
    /\ \E k \in 0 .. Len(buf) - 1 : file' = file \o SubSeq(buf, 1, k)
    /\ buf' = <<>>
    /\ UNCHANGED <<isOpen, sessions, results, durable, interruptions>>

FlushFails ==
    /\ \E k \in 0 .. Len(buf) - 1 : Spill(buf, k)
    /\ UNCHANGED <<isOpen, sessions, results, durable, interruptions>>

\* Dropping the store: BufWriter writes what it can and ignores the error.
DropStore ==
    /\ \E k \in 0 .. Len(buf) :
          /\ file' = file \o SubSeq(buf, 1, k)
          /\ interruptions' = interruptions + (IF k < Len(buf) THEN 1 ELSE 0)
    /\ buf' = <<>>
    /\ isOpen' = FALSE
    /\ UNCHANGED <<sessions, results, durable>>

\* BarStore::open, in append mode.
OpenStore ==
    /\ isOpen' = TRUE
    /\ sessions' = sessions + 1
    /\ UNCHANGED <<file, buf, results, durable, interruptions>>

-----------------------------------------------------------------------------
(* The sessions.                                                           *)

StoreInit ==
    /\ file = <<>> /\ buf = <<>>
    /\ isOpen = FALSE /\ sessions = 0
    /\ results = <<>>
    /\ durable = {}
    /\ interruptions = 0

Open == ~isOpen /\ sessions < MaxSessions /\ OpenStore

AppendBar ==
    LET b == Len(results) + 1
    IN  /\ isOpen /\ b <= MaxBars
        /\ AppendOk(b) \/ AppendFails(b)

Flush == isOpen /\ (FlushOk \/ FlushFails)

Drop == isOpen /\ DropStore

\* The process dies: its buffer is gone, the file keeps what it was given.
Crash ==
    /\ isOpen
    /\ isOpen' = FALSE
    /\ buf' = <<>>
    /\ interruptions' = interruptions + 1
    /\ UNCHANGED <<file, sessions, results, durable>>

StoreNext == Open \/ AppendBar \/ Flush \/ Drop \/ Crash

StoreSpec == StoreInit /\ [][StoreNext]_storeVars

-----------------------------------------------------------------------------
(* Reading.                                                                *)

\* The positions of f where a line consists of one whole record.
WholeLines(f) ==
    {i \in 1 .. Len(f) - 1 :
        /\ i = 1 \/ f[i - 1].part = "tail"
        /\ f[i].part = "head"
        /\ f[i + 1].part = "tail"}

\* What BarStore::read_all returns of f: the bars that are the only one on their
\* line.  A line with a fragment in front does not parse, or parses into some
\* other bar, and is skipped without a word.
Stored(f) == {f[i].bar : i \in WholeLines(f)}

-----------------------------------------------------------------------------
(* Properties.                                                             *)

\* What one process managed to store is a prefix of what it appended: a bar
\* is never in the file while an earlier bar of its session, also accepted,
\* is missing, even if writing failed in between and was taken up again.
NoHoles ==
    \A b \in DOMAIN results, c \in DOMAIN results :
        /\ b < c /\ results[b] = results[c] /\ results[b] # 0
        /\ \E i \in DOMAIN file : file[i].bar = c
        => \E i \in DOMAIN file : file[i] = [bar |-> b, part |-> "tail"]

\* An interruption costs at most one record that a flush had acknowledged,
\* before it or after it: the one written right behind the fragment.
LossPerInterruption ==
    Cardinality(durable \ Stored(file)) <= interruptions

=============================================================================
