---------------------------- MODULE EventWriter -----------------------------
(***************************************************************************)
(* The bounded writer of the synchronous event log                         *)
(* (workflow/event_store_sync.py).  A tool thread hands each write to one   *)
(* daemon worker thread and waits for it up to a deadline.  At the deadline *)
(* the worker is abandoned, the log is degraded for a cool-down in which    *)
(* writes are skipped, and the next write gets a new worker.  An abandoned  *)
(* thread cannot be killed: it may be stuck for good or go on later.        *)
(*                                                                          *)
(* A write is <<c, n>>: the n-th write of caller c.  All writes go to the   *)
(* event table of one workflow; its sequence numbers are the positions.     *)
(***************************************************************************)
EXTENDS Naturals, Sequences, FiniteSets

CONSTANTS
    Caller,      \* tool threads
    MaxWrites,   \* bound: writes of one caller
    MaxWorkers   \* bound: worker threads ever started

ASSUME BoundAssumption == MaxWrites \in Nat /\ MaxWorkers \in Nat \ {0}

VARIABLES
    events,      \* the table: the writes in the order of their sequence numbers
    worker,      \* the current worker, 0 when there is none
    queue,       \* queue[g]: what worker g has been handed
    thread,      \* thread[g]: "absent", "waiting", "writing" or "exited"
    call,        \* call[c]: where the caller is, and on which worker
    wrote,       \* wrote[c]: how many writes the caller has begun
    result,      \* what a worker answered to a write
    told,        \* what the caller was told about a write
    degraded,    \* the cool-down is running
    lastError,   \* last_error of event_store_stats: is it set?
    timeouts     \* timeouts of event_store_stats

vars == <<events, worker, queue, thread, call, wrote, result, told, degraded,
          lastError, timeouts>>

Gen == 1..MaxWorkers
Write == Caller \X (1..MaxWrites)
Stop == <<>>                       \* the None that ends a worker's loop

Current(c) == <<c, wrote[c]>>      \* the write the caller is in

CallState == [step : {"idle", "submit", "wait"}, gen : 0..MaxWorkers]
NoCall == [step |-> "idle", gen |-> 0]

Init ==
    /\ events = <<>>
    /\ worker = 0
    /\ queue = [g \in Gen |-> <<>>]
    /\ thread = [g \in Gen |-> "absent"]
    /\ call = [c \in Caller |-> NoCall]
    /\ wrote = [c \in Caller |-> 0]
    /\ result = [w \in Write |-> "none"]
    /\ told = [w \in Write |-> "none"]
    /\ degraded = FALSE
    /\ lastError = FALSE
    /\ timeouts = 0

-----------------------------------------------------------------------------
(* The calling thread: wrapper() of _bounded. *)

CanWrite(c) == call[c].step = "idle" /\ wrote[c] < MaxWrites

\* Degraded: the write is skipped and its default returned at once.
Skip(c) ==
    /\ CanWrite(c)
    /\ degraded
    /\ wrote' = [wrote EXCEPT ![c] = @ + 1]
    /\ told' = [told EXCEPT ![<<c, wrote[c] + 1>>] = "dropped"]
    /\ UNCHANGED <<events, worker, queue, thread, call, result, degraded,
                   lastError, timeouts>>

\* Faulty: every write starts a worker of its own.
TakeNewWorker(c) ==
    /\ CanWrite(c)
    /\ ~degraded
    /\ wrote' = [wrote EXCEPT ![c] = @ + 1]
    /\ \E g \in Gen :
          /\ thread[g] = "absent"
          /\ worker' = g
          /\ thread' = [thread EXCEPT ![g] = "waiting"]
          /\ call' = [call EXCEPT ![c] = [step |-> "submit", gen |-> g]]
    /\ UNCHANGED <<events, queue, result, told, degraded, lastError, timeouts>>

\* Under the state lock: the current worker is taken, or a new one started.
TakeWorker(c) ==
    /\ CanWrite(c)
    /\ ~degraded
    /\ wrote' = [wrote EXCEPT ![c] = @ + 1]
    /\ IF worker # 0
       THEN /\ call' = [call EXCEPT ![c] = [step |-> "submit", gen |-> worker]]
            /\ UNCHANGED <<worker, thread>>
       ELSE \E g \in Gen :
                /\ thread[g] = "absent"
                /\ \A h \in Gen : h < g => thread[h] # "absent"
                /\ worker' = g
                /\ thread' = [thread EXCEPT ![g] = "waiting"]
                /\ call' = [call EXCEPT ![c] = [step |-> "submit", gen |-> g]]
    /\ UNCHANGED <<events, queue, result, told, degraded, lastError, timeouts>>

\* After the lock: the job is put on the queue of the worker that was taken,
\* which may have been abandoned in the meantime.
Submit(c) ==
    /\ call[c].step = "submit"
    /\ queue' = [queue EXCEPT ![call[c].gen] = Append(@, Current(c))]
    /\ call' = [call EXCEPT ![c].step = "wait"]
    /\ UNCHANGED <<events, worker, thread, wrote, result, told, degraded,
                   lastError, timeouts>>

\* What a tool is given: a write that raised is reported by its default.
Returned(r) == IF r = "raised" THEN "failed" ELSE r

\* The worker answered in time.  A write that failed inside its own handler
\* answers like one that succeeded, with the default for a value; one that
\* raised is on record as an error.
Answered(c) ==
    LET w == Current(c)
    IN  /\ call[c].step = "wait"
        /\ result[w] # "none"
        /\ told' = [told EXCEPT ![w] = Returned(result[w])]
        /\ lastError' = (result[w] = "raised")
        /\ call' = [call EXCEPT ![c] = NoCall]
        /\ UNCHANGED <<events, worker, queue, thread, wrote, result, degraded,
                       timeouts>>

\* Faulty: only the first caller to miss its deadline gives up.
TimeoutOnce(c) ==
    LET w == Current(c)
    IN  /\ call[c].step = "wait"
        /\ ~degraded
        /\ told' = [told EXCEPT ![w] = "dropped"]
        /\ timeouts' = timeouts + 1
        /\ degraded' = TRUE
        /\ lastError' = TRUE
        /\ worker' = 0
        /\ queue' = IF worker = 0 THEN queue
                    ELSE [queue EXCEPT ![worker] = Append(@, Stop)]
        /\ call' = [call EXCEPT ![c] = NoCall]
        /\ UNCHANGED <<events, thread, wrote, result>>

\* Faulty: the worker that missed the deadline stays the current one.
TimeoutKeepsWorker(c) ==
    LET w == Current(c)
    IN  /\ call[c].step = "wait"
        /\ told' = [told EXCEPT ![w] = "dropped"]
        /\ timeouts' = timeouts + 1
        /\ degraded' = TRUE
        /\ lastError' = TRUE
        /\ call' = [call EXCEPT ![c] = NoCall]
        /\ UNCHANGED <<events, worker, queue, thread, wrote, result>>

\* Faulty: the log is not degraded, the next write goes to a new worker.
TimeoutNotDegraded(c) ==
    LET w == Current(c)
    IN  /\ call[c].step = "wait"
        /\ told' = [told EXCEPT ![w] = "dropped"]
        /\ timeouts' = timeouts + 1
        /\ lastError' = TRUE
        /\ worker' = 0
        /\ queue' = IF worker = 0 THEN queue
                    ELSE [queue EXCEPT ![worker] = Append(@, Stop)]
        /\ call' = [call EXCEPT ![c] = NoCall]
        /\ UNCHANGED <<events, thread, wrote, result, degraded>>

\* The deadline passes: the current worker is abandoned, whichever it is.  An
\* answer that comes between the deadline and the lock comes too late.
Timeout(c) ==
    LET w == Current(c)
    IN  /\ call[c].step = "wait"
        /\ told' = [told EXCEPT ![w] = "dropped"]
        /\ timeouts' = timeouts + 1
        /\ degraded' = TRUE
        /\ lastError' = TRUE
        /\ worker' = 0
        /\ queue' = IF worker = 0 THEN queue
                    ELSE [queue EXCEPT ![worker] = Append(@, Stop)]
        /\ call' = [call EXCEPT ![c] = NoCall]
        /\ UNCHANGED <<events, thread, wrote, result>>

\* The cool-down ends.  It lasts longer than a deadline (60 s against 2 s), so
\* every caller that was waiting when it began has stopped waiting.
CooldownEnds ==
    /\ degraded
    /\ \A c \in Caller : call[c].step = "idle"
    /\ degraded' = FALSE
    /\ UNCHANGED <<events, worker, queue, thread, call, wrote, result, told,
                   lastError, timeouts>>

-----------------------------------------------------------------------------
(* A worker thread: _loop of _Worker.  A thread that is stuck takes no step. *)

\* Faulty: the stop is taken for a job.
NextJobUnchecked(g) ==
    /\ thread[g] = "waiting"
    /\ queue[g] # <<>>
    /\ thread' = [thread EXCEPT ![g] = "writing"]
    /\ UNCHANGED <<events, worker, queue, call, wrote, result, told, degraded,
                   lastError, timeouts>>

\* The next job is taken; a stop ends the thread.
NextJob(g) ==
    /\ thread[g] = "waiting"
    /\ queue[g] # <<>>
    /\ IF Head(queue[g]) = Stop
       THEN /\ thread' = [thread EXCEPT ![g] = "exited"]
            /\ queue' = [queue EXCEPT ![g] = Tail(@)]
       ELSE /\ thread' = [thread EXCEPT ![g] = "writing"]
            /\ UNCHANGED queue
    /\ UNCHANGED <<events, worker, call, wrote, result, told, degraded,
                   lastError, timeouts>>

\* Faulty: the job is done again when its caller has gone.
CommitAgain(g) ==
    /\ thread[g] = "writing"
    /\ events' = Append(events, Head(queue[g]))
    /\ result' = [result EXCEPT ![Head(queue[g])] = "ok"]
    /\ queue' = IF told[Head(queue[g])] = "none" THEN [queue EXCEPT ![g] = Tail(@)]
                ELSE queue
    /\ thread' = [thread EXCEPT ![g] = "waiting"]
    /\ UNCHANGED <<worker, call, wrote, told, degraded, lastError, timeouts>>

\* One transaction that cannot interleave with another (BEGIN IMMEDIATE): the
\* event gets the next sequence number.  The job stays at the head of the
\* queue while the thread works on it.
Commit(g) ==
    /\ thread[g] = "writing"
    /\ events' = Append(events, Head(queue[g]))
    /\ result' = [result EXCEPT ![Head(queue[g])] = "ok"]
    /\ queue' = [queue EXCEPT ![g] = Tail(@)]
    /\ thread' = [thread EXCEPT ![g] = "waiting"]
    /\ UNCHANGED <<worker, call, wrote, told, degraded, lastError, timeouts>>

\* Faulty: the failure is answered with the sequence number.
FailAsOk(g) ==
    /\ thread[g] = "writing"
    /\ result' = [result EXCEPT ![Head(queue[g])] = "ok"]
    /\ queue' = [queue EXCEPT ![g] = Tail(@)]
    /\ thread' = [thread EXCEPT ![g] = "waiting"]
    /\ UNCHANGED <<events, worker, call, wrote, told, degraded, lastError, timeouts>>

\* Faulty: the job is left in the queue to be tried again.
FailTriesAgain(g) ==
    /\ thread[g] = "writing"
    /\ result' = [result EXCEPT ![Head(queue[g])] = "failed"]
    /\ thread' = [thread EXCEPT ![g] = "waiting"]
    /\ UNCHANGED <<events, worker, queue, call, wrote, told, degraded, lastError,
                   timeouts>>

\* The transaction fails and is rolled back, and the handler logs it and returns;
\* or the payload cannot be serialized, and the write raises before it begins.
Fail(g) ==
    /\ thread[g] = "writing"
    /\ \E r \in {"failed", "raised"} :
          result' = [result EXCEPT ![Head(queue[g])] = r]
    /\ queue' = [queue EXCEPT ![g] = Tail(@)]
    /\ thread' = [thread EXCEPT ![g] = "waiting"]
    /\ UNCHANGED <<events, worker, call, wrote, told, degraded, lastError, timeouts>>

-----------------------------------------------------------------------------

CallerStep(c) == Skip(c) \/ TakeWorker(c) \/ Submit(c) \/ Answered(c) \/ Timeout(c)
WorkerStep(g) == NextJob(g) \/ Commit(g) \/ Fail(g)

Next ==
    \/ \E c \in Caller : CallerStep(c)
    \/ \E g \in Gen : WorkerStep(g)
    \/ CooldownEnds

Spec == Init /\ [][Next]_vars

\* A tool thread that runs goes on to its deadline; nothing is assumed of the
\* worker threads, which may be stuck in a system call for ever.
FairSpec ==
    Spec /\ \A c \in Caller : WF_vars(Submit(c) \/ Answered(c) \/ Timeout(c))

-----------------------------------------------------------------------------
(* Properties. *)

Stored(w) == \E i \in 1..Len(events) : events[i] = w
Position(w) == CHOOSE i \in 1..Len(events) : events[i] = w

\* Every variable has its type.
TypeOK ==
    /\ events \in Seq(Write)
    /\ worker \in 0..MaxWorkers
    /\ queue \in [Gen -> Seq(Write \cup {Stop})]
    /\ thread \in [Gen -> {"absent", "waiting", "writing", "exited"}]
    /\ call \in [Caller -> CallState]
    /\ wrote \in [Caller -> 0..MaxWrites]
    /\ result \in [Write -> {"none", "ok", "failed", "raised"}]
    /\ told \in [Write -> {"none", "ok", "failed", "dropped"}]
    /\ degraded \in BOOLEAN /\ lastError \in BOOLEAN
    /\ timeouts \in Nat

\* No event is in the log twice, although abandoned threads go on writing
\* while a new worker does (event_store_sync.py 209-213, 280-293).
NoDuplicate ==
    \A i, j \in 1..Len(events) : events[i] = events[j] => i = j

\* A caller that was given a sequence number finds its event in the log, and
\* its later acknowledged events after it: with several worker threads alive
\* the order still follows the caller's (event_store_sync.py 518-539).
AcknowledgedInOrder ==
    \A c \in Caller, m, n \in 1..MaxWrites :
        told[<<c, m>>] = "ok" =>
            /\ Stored(<<c, m>>)
            /\ (m < n /\ told[<<c, n>>] = "ok")
                  => Position(<<c, m>>) < Position(<<c, n>>)

\* "a healed filesystem recovers on the next attempt rather than queueing
\* behind a corpse": nothing that a caller has given up on is ahead of a write
\* on the current worker (event_store_sync.py 211-213, 280-293).
NoCorpseAhead ==
    worker # 0 =>
        \A i \in 1..Len(queue[worker]) :
            /\ queue[worker][i] # Stop
            /\ told[queue[worker][i]] = "none"

\* A caller that waits and can still be served waits on the current worker, so
\* that a deadline never abandons a worker other than the one that missed it
\* (event_store_sync.py 280-293, 323-346).
AbandonsItsOwnWorker ==
    \A c \in Caller : call[c].step = "wait" => worker \in {0, call[c].gen}

\* Every thread that was left behind cost a caller a deadline: threads do not
\* leak otherwise (event_store_sync.py 211-213).
LeakCostsTimeout ==
    Cardinality({g \in Gen : thread[g] \in {"waiting", "writing"}}) <= timeouts + 1

\* "The tool call continues - observability must not block it": a write
\* returns to its tool even if no worker thread ever takes another step
\* (event_store_sync.py 323-346).
WriteReturns ==
    \A c \in Caller : call[c].step # "idle" ~> call[c].step = "idle"

\* "A capability that can silently stop working must report its state"
\* (event_store_sync.py 370): when a caller gets its answer and the write had
\* failed, event_store_stats shows an error.
FailureIsReported ==
    [][\A w \in Write : told[w] = "none" /\ told'[w] = "failed" => lastError']_vars

-----------------------------------------------------------------------------
(* The log as its callers see it: module Delivery. *)

\* A worker has been handed the write and has not done it.
Queued(w) == \E g \in Gen : \E i \in 1..Len(queue[g]) : queue[g][i] = w

\* What has become of a write.  One that is queued can still be stored.
Fate(w) ==
    CASE result[w] = "ok" -> "landed"
      [] result[w] \in {"failed", "raised"} -> "lost"
      [] result[w] = "none" /\ told[w] = "none" ->
            IF w[2] > wrote[w[1]] THEN "ahead" ELSE "open"
      [] OTHER -> IF Queued(w) THEN "late" ELSE "lost"

\* What its caller knows: a default does not say why.
Known(w) == IF told[w] \in {"failed", "dropped"} THEN "default" ELSE told[w]

Contract ==
    INSTANCE Delivery WITH
        table <- events,
        fate <- [w \in Write |-> Fate(w)],
        told <- [w \in Write |-> Known(w)]

\* Queues, abandoned threads and deadlines do not show: the log delivers each
\* write at most once, and a caller that was given a sequence number has its
\* event in the table, after those it began before (event_store_sync.py
\* 202-213, 296-364).
ImplementsDelivery == Contract!Spec

=============================================================================
