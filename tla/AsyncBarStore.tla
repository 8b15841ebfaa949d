---------------------------- MODULE AsyncBarStore ----------------------------
(***************************************************************************)
(* The asynchronous store of the market crate: callers hand bars to a      *)
(* bounded channel without blocking, one worker thread takes them out and  *)
(* writes them with the BarStore it opened.  flush and close send a        *)
(* message through the same channel and block on an acknowledgement.       *)
(*                                                                         *)
(* The module adds the channel, the worker, the callers and the processes  *)
(* that open the file one after the other to BarStore, whose write actions *)
(* are the worker's.  A process may die at any step and leaves nothing but *)
(* the file.  Bars are numbered in the order in which they reach the       *)
(* worker; numbers of bars that died in the channel are given again.  Seen *)
(* from the file the module is a BarStore: AsyncSpec implements StoreSpec. *)
(***************************************************************************)
EXTENDS BarStore

CONSTANTS Callers,    \* the threads that share a reference to the store
          Capacity    \* AsyncBarStoreConfig.queue_capacity, at least 1

ASSUME AsyncAssumption == Capacity \in Nat \ {0} /\ MaxSessions > 0

VARIABLES queue,      \* the channel
          worker,     \* the worker thread
          ack,        \* per caller: its flush, waiting or answered
          promised,   \* per caller: the bars accepted before its last flush
          inherited,  \* the bars that earlier processes gave to append_bar
          accepted,   \* the same, and the bars this channel accepted
          owner,      \* the progress of close, or of the drop of the store,
                      \* "down" when the process is gone
          answer,     \* what the shutdown message was answered with
          closed      \* what close returned

channelVars == <<queue, worker, ack, promised, inherited, accepted, owner, answer, closed>>

asyncVars == <<storeVars, channelVars>>

Message ==
    [kind : {"bar"}, bar : BarIds] \cup [kind : {"flush"}, by : Callers]
        \cup [kind : {"shutdown"}]

\* "gone" is a closed acknowledgement channel, which recv reports as an error.
Answers == {"none", "ok", "error", "gone"}

AsyncTypeOK ==
    /\ StoreTypeOK
    /\ queue \in Seq(Message) /\ Len(queue) <= Capacity
    /\ worker \in {"starting", "running", "failing", "finishing", "failed", "finished"}
    /\ ack \in [Callers -> Answers \cup {"waiting"}]
    /\ promised \in [Callers -> 0 .. MaxBars]
    /\ inherited \in 0 .. accepted /\ accepted \in 0 .. MaxBars
    /\ owner \in {"open", "waiting", "joining", "closed", "down"}
    /\ answer \in Answers \cup {"full"}
    /\ closed \in {"none", "ok", "error"}
    /\ isOpen <=> worker \in {"running", "failing", "finishing"}

AsyncInit ==
    /\ StoreInit
    /\ queue = <<>>
    /\ worker = "starting"
    /\ ack = [c \in Callers |-> "none"]
    /\ promised = [c \in Callers |-> 0]
    /\ inherited = 0 /\ accepted = 0
    /\ owner = "open" /\ answer = "none" /\ closed = "none"

-----------------------------------------------------------------------------
(* The callers.                                                            *)

Connected == worker \notin {"finished", "failed"}

\* try_send to a channel that is connected and not full.
Send(m) ==
    /\ Connected
    /\ Len(queue) < Capacity
    /\ queue' = Append(queue, m)

Idle(c) == owner = "open" /\ ack[c] # "waiting"

\* enqueue_bar.  A full or a disconnected channel returns an error and
\* leaves everything as it is.
Enqueue(c) ==
    /\ Idle(c)
    /\ accepted < MaxBars
    /\ Send([kind |-> "bar", bar |-> accepted + 1])
    /\ accepted' = accepted + 1
    /\ UNCHANGED <<storeVars, worker, ack, promised, inherited, owner, answer, closed>>

\* flush, up to the wait for the acknowledgement.
FlushSend(c) ==
    /\ Idle(c)
    /\ Send([kind |-> "flush", by |-> c])
    /\ ack' = [ack EXCEPT ![c] = "waiting"]
    /\ promised' = [promised EXCEPT ![c] = accepted]
    /\ UNCHANGED <<storeVars, worker, inherited, accepted, owner, answer, closed>>

\* flush that cannot send returns an error at once.
FlushRefused(c) ==
    /\ Idle(c)
    /\ ~Connected \/ Len(queue) = Capacity
    /\ ack' = [ack EXCEPT ![c] = "error"]
    /\ promised' = [promised EXCEPT ![c] = accepted]
    /\ UNCHANGED <<storeVars, queue, worker, inherited, accepted, owner, answer, closed>>

\* close takes the store by value, and a drop has no reference left either:
\* no caller is inside flush.  On a full channel the wait is skipped, on a
\* disconnected one the answer is Ok, and in both cases the join follows.
CloseSend ==
    /\ owner = "open"
    /\ \A c \in Callers : ack[c] # "waiting"
    /\ \/ /\ Send([kind |-> "shutdown"])
          /\ owner' = "waiting"
          /\ answer' = "none"
       \/ /\ Connected /\ Len(queue) = Capacity
          /\ owner' = "joining"
          /\ answer' = "full"
          /\ UNCHANGED queue
       \/ /\ ~Connected
          /\ owner' = "joining"
          /\ answer' = "ok"
          /\ UNCHANGED queue
    /\ UNCHANGED <<storeVars, worker, ack, promised, inherited, accepted, closed>>

\* recv on the acknowledgement channel of the shutdown message.  A closed
\* one is an error that returns before the join; the drop that follows joins.
CloseAnswered ==
    /\ owner = "waiting"
    /\ answer # "none"
    /\ owner' = "joining"
    /\ UNCHANGED <<storeVars, queue, worker, ack, promised, inherited, accepted, answer, closed>>

\* Mutation of CloseJoin: the result of the join is ignored.
CloseJoinBlind ==
    /\ owner = "joining"
    /\ ~Connected
    /\ owner' = "closed"
    /\ closed' = IF answer # "ok" THEN "error" ELSE "ok"
    /\ UNCHANGED <<storeVars, queue, worker, ack, promised, inherited, accepted, answer>>

\* join returns once the worker has ended; its error has precedence.
CloseJoin ==
    /\ owner = "joining"
    /\ ~Connected
    /\ owner' = "closed"
    /\ closed' = IF worker = "failed" \/ answer # "ok" THEN "error" ELSE "ok"
    /\ UNCHANGED <<storeVars, queue, worker, ack, promised, inherited, accepted, answer>>

-----------------------------------------------------------------------------
(* The worker thread, run_async_store_worker.                              *)

WorkerOpen ==
    /\ worker = "starting"
    /\ OpenStore
    /\ worker' = "running"
    /\ UNCHANGED <<queue, ack, promised, inherited, accepted, owner, answer, closed>>

Receives(kind) ==
    /\ worker = "running"
    /\ queue # <<>>
    /\ Head(queue).kind = kind
    /\ queue' = Tail(queue)

\* Mutation of WorkerAppend: the error leaves the bar in the channel for another
\* attempt.
WorkerAppendRetries ==
    /\ worker = "running" /\ queue # <<>> /\ Head(queue).kind = "bar"
    /\ \/ AppendOk(Head(queue).bar) /\ queue' = Tail(queue)
       \/ AppendFails(Head(queue).bar) /\ UNCHANGED queue
    /\ UNCHANGED <<worker, ack, promised, inherited, accepted, owner, answer, closed>>

\* An error leaves the loop with the ? operator.
WorkerAppend ==
    /\ Receives("bar")
    /\ \/ AppendOk(Head(queue).bar) /\ UNCHANGED worker
       \/ AppendFails(Head(queue).bar) /\ worker' = "failing"
    /\ UNCHANGED <<ack, promised, inherited, accepted, owner, answer, closed>>

\* Mutation of WorkerFlush: the acknowledgement is sent without flushing.
WorkerFlushAcksOnly ==
    /\ Receives("flush")
    /\ ack' = [ack EXCEPT ![Head(queue).by] = "ok"]
    /\ UNCHANGED <<storeVars, worker, promised, inherited, accepted, owner, answer, closed>>

\* An error of a flush goes to the caller, the worker goes on.
WorkerFlush ==
    /\ Receives("flush")
    /\ \/ FlushOk /\ ack' = [ack EXCEPT ![Head(queue).by] = "ok"]
       \/ FlushFails /\ ack' = [ack EXCEPT ![Head(queue).by] = "error"]
    /\ UNCHANGED <<worker, promised, inherited, accepted, owner, answer, closed>>

\* Mutation of WorkerShutdown: the loop is not left.
WorkerShutdownStays ==
    /\ Receives("shutdown")
    /\ \/ FlushOk /\ answer' = "ok"
       \/ FlushFails /\ answer' = "error"
    /\ UNCHANGED <<worker, ack, promised, inherited, accepted, owner, closed>>

WorkerShutdown ==
    /\ Receives("shutdown")
    /\ \/ FlushOk /\ answer' = "ok"
       \/ FlushFails /\ answer' = "error"
    /\ worker' = "finishing"
    /\ UNCHANGED <<ack, promised, inherited, accepted, owner, closed>>

\* Mutation of DropReceiver: the acknowledgement senders outlive the channel.
DropReceiverKeepsAcks == queue' = <<>> /\ UNCHANGED <<ack, promised, inherited, accepted, owner, answer, closed>>

\* The receiver is dropped: messages still in the channel are discarded,
\* and with each of them its acknowledgement sender.
DropReceiver ==
    /\ queue' = <<>>
    /\ ack' = [c \in Callers |->
                  IF [kind |-> "flush", by |-> c] \in Range(queue) THEN "gone" ELSE ack[c]]
    /\ answer' = IF [kind |-> "shutdown"] \in Range(queue) THEN "gone" ELSE answer
    /\ UNCHANGED <<promised, inherited, accepted, owner, closed>>

WorkerOpenFails ==
    /\ worker = "starting"
    /\ worker' = "failed"
    /\ DropReceiver
    /\ UNCHANGED storeVars

\* The end of the thread function drops the store, then the receiver.
WorkerExit ==
    /\ \/ worker = "failing" /\ worker' = "failed"
       \/ worker = "finishing" /\ worker' = "finished"
    /\ DropStore
    /\ DropReceiver

-----------------------------------------------------------------------------
(* The processes.                                                          *)

\* The process dies, wherever its threads are.
CrashProcess ==
    /\ owner \notin {"closed", "down"}
    /\ IF isOpen THEN Crash ELSE UNCHANGED storeVars
    /\ owner' = "down"
    /\ worker' = "finished"
    /\ queue' = <<>>
    /\ ack' = [c \in Callers |-> "none"]
    /\ promised' = [c \in Callers |-> 0]
    /\ answer' = "none" /\ closed' = "none"
    /\ UNCHANGED <<inherited, accepted>>

\* A process opens the store of an earlier one, dead or closed.
\* AsyncBarStore::open starts the worker and returns.
Reopen ==
    /\ owner \in {"closed", "down"}
    /\ sessions < MaxSessions
    /\ owner' = "open"
    /\ worker' = "starting"
    /\ inherited' = Len(results) /\ accepted' = Len(results)
    /\ ack' = [c \in Callers |-> "none"]
    /\ promised' = [c \in Callers |-> 0]
    /\ answer' = "none" /\ closed' = "none"
    /\ UNCHANGED <<storeVars, queue>>

-----------------------------------------------------------------------------

WorkerNext ==
    \/ WorkerOpen \/ WorkerOpenFails
    \/ WorkerAppend \/ WorkerFlush \/ WorkerShutdown
    \/ WorkerExit

OwnerNext == CloseSend \/ CloseAnswered \/ CloseJoin

AsyncNext ==
    \/ \E c \in Callers : Enqueue(c) \/ FlushSend(c) \/ FlushRefused(c)
    \/ OwnerNext
    \/ WorkerNext
    \/ CrashProcess \/ Reopen

\* The worker thread is scheduled and its file operations return, with or
\* without an error.  A close that has begun goes on, but nobody has to
\* enqueue, to flush or to begin a close.
AsyncSpec ==
    /\ AsyncInit /\ [][AsyncNext]_asyncVars
    /\ WF_asyncVars(WorkerNext)
    /\ WF_asyncVars(CloseAnswered)
    /\ WF_asyncVars(CloseJoin)

-----------------------------------------------------------------------------
(* Properties.                                                             *)

\* The bar written behind a fragment that an earlier process left.
Glued == {inherited + 1} \cap {file[i].bar : i \in {i \in 2 .. Len(file) : file[i - 1].part = "head"}}

\* A flush that returned Ok covers every bar the store had accepted, from
\* this caller or from another, before the flush was called, except that the
\* first bar of a process joins the fragment that a crash left in the file.
FlushCovers ==
    \A c \in Callers :
        ack[c] = "ok" => (inherited + 1) .. promised[c] \subseteq Stored(file) \cup Glued

\* A close that returns Ok lost nothing: every bar for which enqueue_bar ever
\* returned Ok is in the file, again but for the bar behind a fragment.
CloseOkComplete ==
    closed = "ok" => (inherited + 1) .. accepted \subseteq Stored(file) \cup Glued

\* A flush always returns, also when the worker fails, never opens the file
\* or is shut down while the flush is in the channel.
FlushReturns == \A c \in Callers : ack[c] = "waiting" ~> ack[c] # "waiting"

\* A close that got its message into the channel returns, if its process lives.
ShutdownCompletes == owner = "waiting" ~> owner \in {"closed", "down"}

\* close waits for the worker to exit and returns.  With a full channel it
\* does not: no message tells the worker to stop, and the sender whose drop
\* would end its loop belongs to the store that waits for the worker.
CloseReturns == owner \in {"waiting", "joining"} ~> owner \in {"closed", "down"}

=============================================================================
