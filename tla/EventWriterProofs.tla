------------------------- MODULE EventWriterProofs --------------------------
(***************************************************************************)
(* Proofs about EventWriter for any callers and any bounds: types, no      *)
(* event twice, acknowledged events in the caller's order, no corpse ahead *)
(* of a live write, and no thread left behind without a missed deadline.   *)
(* The inductive invariant says where a write can be at each stage of its  *)
(* call: nowhere before it is handed over, then in exactly one queue, and  *)
(* in the table or in a queue but never in both.  With two facts about     *)
(* callers it gives the refinement: the writer implements Delivery.        *)
(***************************************************************************)
EXTENDS EventWriter, SequenceTheorems, FiniteSetTheorems, TLAPS

-----------------------------------------------------------------------------
(* The inductive invariant. *)

\* No trace of a write: it is in no queue, not in the table, not answered.
Nowhere(w) ==
    /\ result[w] = "none"
    /\ \A i \in 1..Len(events) : events[i] # w
    /\ \A g \in Gen : \A i \in 1..Len(queue[g]) : queue[g][i] # w

\* A write that its caller has not handed over has left no trace.
NotHandedOver ==
    \A c \in Caller : \A n \in 1..MaxWrites :
        (n > wrote[c] \/ (n = wrote[c] /\ call[c].step = "submit"))
            => Nowhere(<<c, n>>)

\* The caller has been told nothing of a write that it has not finished.
NotToldYet ==
    \A c \in Caller : \A n \in 1..MaxWrites :
        (n > wrote[c] \/ (n = wrote[c] /\ call[c].step # "idle"))
            => told[<<c, n>>] = "none"

\* A write is at one place of one queue.
QueuedOnce ==
    \A g, h \in Gen : \A i \in 1..Len(queue[g]) : \A j \in 1..Len(queue[h]) :
        queue[g][i] = queue[h][j] /\ queue[g][i] # Stop => g = h /\ i = j

\* A write that is queued is neither stored nor answered.
QueuedIsOpen ==
    \A g \in Gen : \A i \in 1..Len(queue[g]) :
        queue[g][i] # Stop =>
            /\ result[queue[g][i]] = "none"
            /\ \A j \in 1..Len(events) : events[j] # queue[g][i]

\* Only a stored write is answered as stored, and only an answer is passed on.
AnswersAreTrue ==
    \A w \in Write : /\ result[w] = "ok" => Stored(w)
                     /\ told[w] = "ok" => result[w] = "ok"

\* A thread that writes has a job; one never started has not been given any.
ThreadsHaveJobs ==
    \A g \in Gen :
        /\ thread[g] = "writing" => queue[g] # <<>> /\ queue[g][1] # Stop
        /\ thread[g] = "absent" => queue[g] = <<>>

\* A call is bound to a thread that was started, which is the current worker
\* unless there is none.
CallsAreBound ==
    /\ worker # 0 => thread[worker] # "absent"
    /\ degraded => worker = 0
    /\ worker = 0 /\ ~degraded => \A c \in Caller : call[c].step = "idle"
    /\ \A c \in Caller : call[c].step # "idle" =>
            /\ wrote[c] >= 1
            /\ call[c].gen \in Gen
            /\ thread[call[c].gen] # "absent"
            /\ worker \in {0, call[c].gen}

\* The write is in the table, and nothing of the other one before it.
Before(w, v) ==
    \E i \in 1..Len(events) :
        /\ events[i] = w
        /\ \A j \in 1..Len(events) : events[j] = v => i < j

\* Nothing a caller began after an acknowledged write is before it.
InOrder ==
    \A c \in Caller : \A m, n \in 1..MaxWrites :
        told[<<c, m>>] = "ok" /\ m < n => Before(<<c, m>>, <<c, n>>)

\* Threads are started one at a time, each after the one before was given up.
ThreadsAreCounted ==
    \A g \in Gen : thread[g] # "absent" =>
        g <= timeouts + (IF worker # 0 THEN 1 ELSE 0)

IInv ==
    /\ TypeOK
    /\ NotHandedOver
    /\ NotToldYet
    /\ NoDuplicate
    /\ QueuedOnce
    /\ QueuedIsOpen
    /\ AnswersAreTrue
    /\ ThreadsHaveJobs
    /\ CallsAreBound
    /\ NoCorpseAhead
    /\ InOrder
    /\ ThreadsAreCounted

-----------------------------------------------------------------------------
(* Writes and queues. *)

\* A write is a pair, and no write is the stop of a worker.
LEMMA WriteFacts ==
    /\ \A c \in Caller, n \in 1..MaxWrites : <<c, n>> \in Write /\ <<c, n>> # Stop
    /\ \A w \in Write : w # Stop
    /\ \A w \in Write : \E c \in Caller, n \in 1..MaxWrites : w = <<c, n>>
BY DEF Write, Stop

\* The write that a caller is in (event_store_sync.py 323-346).
LEMMA CurrentFacts ==
    ASSUME IInv, NEW c \in Caller, call[c].step # "idle"
    PROVE  /\ wrote[c] \in 1..MaxWrites
           /\ Current(c) = <<c, wrote[c]>>
           /\ Current(c) \in Write /\ Current(c) # Stop
           /\ call[c].gen \in Gen
           /\ told[Current(c)] = "none"
           /\ call[c].step = "submit" => Nowhere(Current(c))
<1>1. wrote[c] \in 1..MaxWrites /\ call[c].gen \in Gen
  BY BoundAssumption DEF IInv, TypeOK, CallsAreBound
<1>2. QED
  BY <1>1, WriteFacts DEF Current, IInv, NotToldYet, NotHandedOver

\* Another job at the end of a queue.
LEMMA AppendFacts ==
    ASSUME NEW q \in Seq(Write \cup {Stop}), NEW w \in Write \cup {Stop}
    PROVE  /\ Append(q, w) \in Seq(Write \cup {Stop})
           /\ Append(q, w) # <<>>
           /\ Len(q) \in Nat
           /\ Len(Append(q, w)) = Len(q) + 1
           /\ \A i \in 1..Len(q) + 1 :
                Append(q, w)[i] = IF i = Len(q) + 1 THEN w ELSE q[i]
           /\ q # <<>> => Append(q, w)[1] = q[1]
<1>1. /\ Append(q, w) \in Seq(Write \cup {Stop})
      /\ Append(q, w) # <<>>
      /\ Len(Append(q, w)) = Len(q) + 1
      /\ \A i \in 1..Len(q) : Append(q, w)[i] = q[i]
      /\ Append(q, w)[Len(q) + 1] = w
  BY AppendProperties
<1>2. Len(q) \in Nat /\ (q # <<>> => Len(q) >= 1)
  BY LenProperties, EmptySeq
<1>3. QED
  BY <1>1, <1>2

\* The job at the head of a queue is taken off.
LEMMA TailFacts ==
    ASSUME NEW q \in Seq(Write \cup {Stop}), q # <<>>
    PROVE  /\ Tail(q) \in Seq(Write \cup {Stop})
           /\ Head(q) = q[1]
           /\ Len(q) \in Nat \ {0}
           /\ Len(Tail(q)) = Len(q) - 1
           /\ \A i \in 1..Len(q) - 1 : Tail(q)[i] = q[i + 1]
<1>1. /\ Tail(q) \in Seq(Write \cup {Stop})
      /\ Len(Tail(q)) = Len(q) - 1
      /\ \A i \in 1..Len(Tail(q)) : Tail(q)[i] = q[i + 1]
  BY HeadTailProperties
<1>2. Len(q) \in Nat \ {0}
  BY EmptySeq
<1>3. Head(q) = q[1]
  OBVIOUS
<1>4. QED
  BY <1>1, <1>2, <1>3

\* The first state satisfies the invariant.
LEMMA InitInv == Init => IInv
<1>1. SUFFICES ASSUME Init PROVE IInv
  OBVIOUS
<1>2. /\ events = <<>> /\ worker = 0 /\ degraded = FALSE
      /\ lastError = FALSE /\ timeouts = 0
      /\ queue = [g \in Gen |-> <<>>]
      /\ thread = [g \in Gen |-> "absent"]
      /\ call = [c \in Caller |-> NoCall]
      /\ wrote = [c \in Caller |-> 0]
      /\ result = [w \in Write |-> "none"]
      /\ told = [w \in Write |-> "none"]
  BY <1>1 DEF Init
<1>3. NoCall \in CallState /\ NoCall.step = "idle"
  BY BoundAssumption DEF NoCall, CallState
<1>4. /\ <<>> \in Seq(Write) /\ <<>> \in Seq(Write \cup {Stop}) /\ Len(<<>>) = 0
  BY EmptySeq
<1>5. TypeOK
  <2>1. queue \in [Gen -> Seq(Write \cup {Stop})]
    <3> HIDE DEF Stop
    <3>1. QED
      BY <1>2, <1>4
  <2>2. /\ call \in [Caller -> CallState]
        /\ wrote \in [Caller -> 0..MaxWrites]
        /\ worker \in 0..MaxWorkers
    BY <1>2, <1>3, BoundAssumption
  <2>3. QED
    BY <1>2, <1>4, <2>1, <2>2 DEF TypeOK
<1>6. NotHandedOver /\ NotToldYet
  BY <1>2, <1>4, WriteFacts DEF NotHandedOver, NotToldYet, Nowhere
<1>7. NoDuplicate /\ QueuedOnce /\ QueuedIsOpen
  BY <1>2, <1>4 DEF NoDuplicate, QueuedOnce, QueuedIsOpen
<1>8. AnswersAreTrue /\ ThreadsHaveJobs
  BY <1>2 DEF AnswersAreTrue, ThreadsHaveJobs
<1>9. CallsAreBound /\ NoCorpseAhead
  BY <1>2, <1>3 DEF CallsAreBound, NoCorpseAhead
<1>10. InOrder /\ ThreadsAreCounted
  BY <1>2, WriteFacts DEF InOrder, ThreadsAreCounted
<1>11. QED
  BY <1>5, <1>6, <1>7, <1>8, <1>9, <1>10 DEF IInv

\* The same write twice in the queues is one place in one queue.
LEMMA QueuedOnceAt ==
    ASSUME IInv, NEW g \in Gen, NEW h \in Gen,
           NEW i \in 1..Len(queue[g]), NEW j \in 1..Len(queue[h]),
           queue[g][i] = queue[h][j], queue[g][i] # Stop
    PROVE  g = h /\ i = j
BY DEF IInv, QueuedOnce

\* A step that leaves the log and the answers alone.
LEMMA LogKept ==
    ASSUME IInv, UNCHANGED <<events, result, told>>
    PROVE  (NoDuplicate /\ AnswersAreTrue /\ InOrder)'
<1>1. NoDuplicate'
  BY DEF IInv, NoDuplicate
<1>2. AnswersAreTrue'
  BY DEF IInv, AnswersAreTrue, Stored
<1>3. InOrder'
  <2>1. \A u, v : Before(u, v) => Before(u, v)'
    BY DEF Before
  <2>2. QED
    BY <2>1 DEF IInv, InOrder
<1>4. QED
  BY <1>1, <1>2, <1>3

-----------------------------------------------------------------------------
(* Steps of a caller. *)

\* A write skipped in the cool-down leaves no trace (event_store_sync.py 308-312).
LEMMA SkipInv ==
    ASSUME IInv, NEW c \in Caller, Skip(c)
    PROVE  IInv'
<1> DEFINE n == wrote[c] + 1
<1>1. /\ call[c].step = "idle" /\ wrote[c] < MaxWrites /\ degraded
      /\ wrote' = [wrote EXCEPT ![c] = n]
      /\ told' = [told EXCEPT ![<<c, n>>] = "dropped"]
      /\ UNCHANGED <<events, worker, queue, thread, call, result, degraded,
                     lastError, timeouts>>
  BY DEF Skip, CanWrite
<1>2. TypeOK
  BY DEF IInv
<1>3. n \in 1..MaxWrites /\ <<c, n>> \in Write /\ wrote[c] \in Nat
  BY <1>1, <1>2, BoundAssumption, WriteFacts DEF TypeOK
<1>4. \A d \in Caller, m \in 1..MaxWrites :
         told'[<<d, m>>] = IF d = c /\ m = n THEN "dropped" ELSE told[<<d, m>>]
  BY <1>1, <1>2, <1>3, WriteFacts DEF TypeOK
<1>5. wrote'[c] = n /\ \A d \in Caller \ {c} : wrote'[d] = wrote[d]
  BY <1>1, <1>2 DEF TypeOK
<1> HIDE DEF n
<1>6. TypeOK'
  BY <1>1, <1>2, <1>3 DEF TypeOK
<1>7. NotHandedOver'
  <2>1. \A w : Nowhere(w) => Nowhere(w)'
    BY <1>1 DEF Nowhere
  <2>2. \A d \in Caller, m \in 1..MaxWrites :
           m > wrote'[d] \/ (m = wrote'[d] /\ call'[d].step = "submit")
             => m > wrote[d] \/ (m = wrote[d] /\ call[d].step = "submit")
    BY <1>1, <1>2, <1>3, <1>5 DEF TypeOK, n
  <2>3. QED
    BY <2>1, <2>2 DEF IInv, NotHandedOver
<1>8. NotToldYet'
  <2>1. SUFFICES ASSUME NEW d \in Caller, NEW m \in 1..MaxWrites,
                        m > wrote'[d] \/ (m = wrote'[d] /\ call'[d].step # "idle")
                 PROVE  told'[<<d, m>>] = "none"
    BY DEF NotToldYet
  <2>2. /\ ~(d = c /\ m = n)
        /\ m > wrote[d] \/ (m = wrote[d] /\ call[d].step # "idle")
    BY <1>1, <1>2, <1>3, <1>5, <2>1 DEF TypeOK, n
  <2>3. QED
    BY <1>4, <2>2 DEF IInv, NotToldYet
<1>9. (NoDuplicate /\ QueuedOnce /\ QueuedIsOpen /\ ThreadsHaveJobs)'
  BY <1>1 DEF IInv, NoDuplicate, QueuedOnce, QueuedIsOpen, ThreadsHaveJobs
<1>10. AnswersAreTrue'
  BY <1>1, <1>2, <1>3 DEF IInv, TypeOK, AnswersAreTrue, Stored
<1>11. CallsAreBound'
  BY <1>1, <1>2, <1>5, <1>3 DEF IInv, TypeOK, CallsAreBound, n
<1>12. NoCorpseAhead'
  BY <1>1 DEF IInv, CallsAreBound, NoCorpseAhead
<1>13. InOrder'
  <2>1. \A d \in Caller, m \in 1..MaxWrites :
           told'[<<d, m>>] = "ok" => told[<<d, m>>] = "ok"
    BY <1>4
  <2>2. \A u, v : Before(u, v) => Before(u, v)'
    BY <1>1 DEF Before
  <2>3. QED
    BY <2>1, <2>2 DEF IInv, InOrder
<1>14. ThreadsAreCounted'
  BY <1>1 DEF IInv, ThreadsAreCounted
<1>15. QED
  BY <1>6, <1>7, <1>8, <1>9, <1>10, <1>11, <1>12, <1>13, <1>14 DEF IInv

\* A write is bound to the current worker, or to a thread started for it
\* (event_store_sync.py 303-313).
LEMMA TakeWorkerInv ==
    ASSUME IInv, NEW c \in Caller, TakeWorker(c)
    PROVE  IInv'
<1>1. /\ call[c].step = "idle" /\ wrote[c] < MaxWrites /\ ~degraded
      /\ wrote' = [wrote EXCEPT ![c] = wrote[c] + 1]
      /\ UNCHANGED <<events, queue, result, told, degraded, lastError, timeouts>>
  BY DEF TakeWorker, CanWrite
<1>2. TypeOK
  BY DEF IInv
<1>3. PICK g \in Gen :
         /\ worker' = g
         /\ call' = [call EXCEPT ![c] = [step |-> "submit", gen |-> g]]
         /\ thread' = IF worker # 0 THEN thread ELSE [thread EXCEPT ![g] = "waiting"]
         /\ worker # 0 => g = worker
         /\ worker = 0 => /\ thread[g] = "absent"
                          /\ \A h \in Gen : h < g => thread[h] # "absent"
  <2>1. CASE worker # 0
    <3>1. worker \in Gen
      BY <1>2, <2>1, BoundAssumption DEF TypeOK, Gen
    <3>2. QED
      BY <2>1, <3>1 DEF TakeWorker
  <2>2. CASE worker = 0
    BY <2>2 DEF TakeWorker
  <2>3. QED
    BY <2>1, <2>2
<1>4. /\ g \in Nat \ {0} /\ g \in 0..MaxWorkers /\ g # 0
      /\ wrote[c] \in Nat /\ wrote[c] + 1 \in 0..MaxWrites
  BY <1>1, <1>2, BoundAssumption DEF TypeOK, Gen
<1>5. /\ wrote'[c] = wrote[c] + 1
      /\ call'[c] = [step |-> "submit", gen |-> g]
      /\ \A d \in Caller \ {c} : wrote'[d] = wrote[d] /\ call'[d] = call[d]
  BY <1>1, <1>2, <1>3 DEF TypeOK
<1>6. /\ \A h \in Gen \ {g} : thread'[h] = thread[h]
      /\ worker # 0 => thread'[g] = thread[g]
      /\ worker = 0 => thread'[g] = "waiting"
      /\ thread'[g] # "absent"
  BY <1>2, <1>3 DEF IInv, CallsAreBound, TypeOK
<1>7. TypeOK'
  <2>1. [step |-> "submit", gen |-> g] \in CallState
    BY <1>4 DEF CallState
  <2>2. call' \in [Caller -> CallState] /\ wrote' \in [Caller -> 0..MaxWrites]
    BY <1>1, <1>2, <1>3, <1>4, <2>1 DEF TypeOK
  <2>3. thread' \in [Gen -> {"absent", "waiting", "writing", "exited"}]
    BY <1>2, <1>3 DEF TypeOK
  <2>4. QED
    BY <1>1, <1>2, <1>3, <1>4, <2>2, <2>3 DEF TypeOK
<1>8. NotHandedOver'
  <2>1. \A w : Nowhere(w) => Nowhere(w)'
    BY <1>1 DEF Nowhere
  <2>2. \A d \in Caller, m \in 1..MaxWrites :
           m > wrote'[d] \/ (m = wrote'[d] /\ call'[d].step = "submit")
             => m > wrote[d] \/ (m = wrote[d] /\ call[d].step = "submit")
    BY <1>2, <1>4, <1>5, BoundAssumption DEF TypeOK
  <2>3. QED
    BY <2>1, <2>2 DEF IInv, NotHandedOver
<1>9. NotToldYet'
  <2>1. \A d \in Caller, m \in 1..MaxWrites :
           m > wrote'[d] \/ (m = wrote'[d] /\ call'[d].step # "idle")
             => m > wrote[d] \/ (m = wrote[d] /\ call[d].step # "idle")
    BY <1>2, <1>4, <1>5, BoundAssumption DEF TypeOK
  <2>2. QED
    BY <1>1, <2>1 DEF IInv, NotToldYet
<1>10. (NoDuplicate /\ AnswersAreTrue /\ InOrder /\ QueuedOnce /\ QueuedIsOpen)'
  <2>1. (NoDuplicate /\ AnswersAreTrue /\ InOrder)'
    BY <1>1, LogKept
  <2>2. QED
    BY <1>1, <2>1 DEF IInv, QueuedOnce, QueuedIsOpen
<1>11. ThreadsHaveJobs'
  BY <1>1, <1>3, <1>6 DEF IInv, ThreadsHaveJobs
<1>12. CallsAreBound'
  <2>1. \A d \in Caller \ {c} : call'[d].step # "idle" =>
            /\ worker # 0 /\ call[d].gen = g
            /\ wrote[d] >= 1
    BY <1>1, <1>3, <1>4, <1>5 DEF IInv, CallsAreBound
  <2>2. /\ worker' # 0 /\ thread'[worker'] # "absent" /\ ~degraded'
    BY <1>1, <1>3, <1>4, <1>6
  <2>3. \A d \in Caller : call'[d].step # "idle" =>
            /\ wrote'[d] >= 1
            /\ call'[d].gen = g
    BY <1>4, <1>5, <2>1
  <2>4. QED
    BY <1>3, <1>6, <2>2, <2>3 DEF CallsAreBound
<1>13. NoCorpseAhead'
  <2>1. CASE worker # 0
    BY <1>1, <1>3, <2>1 DEF IInv, NoCorpseAhead
  <2>2. CASE worker = 0
    <3>1. queue[g] = <<>>
      BY <1>3, <2>2 DEF IInv, ThreadsHaveJobs
    <3>2. QED
      BY <1>1, <1>3, <3>1 DEF NoCorpseAhead
  <2>3. QED
    BY <2>1, <2>2
<1>14. ThreadsAreCounted'
  <2>1. CASE worker # 0
    BY <1>1, <1>3, <1>4, <2>1 DEF IInv, ThreadsAreCounted
  <2>2. CASE worker = 0
    <3>1. g <= timeouts + 1
      <4>1. CASE g = 1
        BY <1>2, <4>1 DEF TypeOK
      <4>2. CASE g # 1
        <5>1. g - 1 \in Gen /\ g - 1 < g
          BY <1>4, <4>2, BoundAssumption DEF Gen
        <5>2. g - 1 <= timeouts
          BY <1>2, <1>3, <2>2, <5>1 DEF IInv, ThreadsAreCounted, TypeOK
        <5>3. QED
          BY <1>2, <1>4, <5>2 DEF TypeOK
      <4>3. QED
        BY <4>1, <4>2
    <3>2. \A h \in Gen \ {g} : thread[h] # "absent" => h <= timeouts + 1
      BY <1>2, <2>2, BoundAssumption DEF IInv, ThreadsAreCounted, TypeOK, Gen
    <3>3. worker' # 0 /\ timeouts' = timeouts
      BY <1>1, <1>3, <1>4
    <3>4. QED
      BY <1>6, <3>1, <3>2, <3>3 DEF ThreadsAreCounted
  <2>3. QED
    BY <2>1, <2>2
<1>15. QED
  BY <1>7, <1>8, <1>9, <1>10, <1>11, <1>12, <1>13, <1>14 DEF IInv

\* A job put on the queue of a thread that may have been abandoned since
\* (event_store_sync.py 319-321).
LEMMA SubmitInv ==
    ASSUME IInv, NEW c \in Caller, Submit(c)
    PROVE  IInv'
<1> DEFINE w == Current(c)
           g == call[c].gen
           q == queue[g]
<1>1. /\ call[c].step = "submit"
      /\ queue' = [queue EXCEPT ![g] = Append(q, w)]
      /\ call' = [call EXCEPT ![c].step = "wait"]
      /\ UNCHANGED <<events, worker, thread, wrote, result, told, degraded,
                     lastError, timeouts>>
  BY DEF Submit
<1>2. TypeOK
  BY DEF IInv
<1>3. /\ wrote[c] \in 1..MaxWrites /\ w = <<c, wrote[c]>>
      /\ w \in Write /\ w # Stop
      /\ g \in Gen /\ told[w] = "none" /\ Nowhere(w)
  BY <1>1, CurrentFacts
<1>4. q \in Seq(Write \cup {Stop})
  BY <1>2, <1>3 DEF TypeOK
<1>5. /\ \A h \in Gen \ {g} : queue'[h] = queue[h]
      /\ queue'[g] \in Seq(Write \cup {Stop})
      /\ queue'[g] # <<>>
      /\ Len(q) \in Nat
      /\ Len(queue'[g]) = Len(q) + 1
      /\ \A i \in 1..Len(q) + 1 : queue'[g][i] = IF i = Len(q) + 1 THEN w ELSE q[i]
      /\ q # <<>> => queue'[g][1] = q[1]
  <2>1. queue'[g] = Append(q, w) /\ \A h \in Gen \ {g} : queue'[h] = queue[h]
    BY <1>1, <1>2, <1>3 DEF TypeOK
  <2> HIDE DEF w, g, q
  <2>2. QED
    BY <1>3, <1>4, <2>1, AppendFacts
<1>6. \A d \in Caller : /\ call'[d].gen = call[d].gen
                        /\ call'[d].step = IF d = c THEN "wait" ELSE call[d].step
  BY <1>1, <1>2 DEF TypeOK, CallState
<1> HIDE DEF w, g, q
\* What is in a queue was there before, or is this write.
<1>7. \A h \in Gen : \A i \in 1..Len(queue'[h]) :
         \/ h = g /\ i = Len(q) + 1 /\ queue'[h][i] = w
         \/ i \in 1..Len(queue[h]) /\ queue'[h][i] = queue[h][i]
  BY <1>5 DEF q
<1>8. TypeOK'
  <2>1. queue' \in [Gen -> Seq(Write \cup {Stop})]
    BY <1>1, <1>2, <1>3, <1>5 DEF TypeOK
  <2>2. call' \in [Caller -> CallState]
    BY <1>1, <1>2 DEF TypeOK, CallState
  <2>3. QED
    BY <1>1, <1>2, <2>1, <2>2 DEF TypeOK
<1>9. NotHandedOver'
  <2>1. SUFFICES ASSUME NEW d \in Caller, NEW m \in 1..MaxWrites,
                        m > wrote'[d] \/ (m = wrote'[d] /\ call'[d].step = "submit")
                 PROVE  Nowhere(<<d, m>>)'
    BY DEF NotHandedOver
  <2>2. m > wrote[d] \/ (m = wrote[d] /\ call[d].step = "submit" /\ d # c)
    BY <1>1, <1>6, <2>1
  <2>3. Nowhere(<<d, m>>) /\ <<d, m>> # w
    BY <1>3, <2>2 DEF IInv, NotHandedOver
  <2>4. QED
    BY <1>1, <1>7, <2>3 DEF Nowhere
<1>10. NotToldYet'
  BY <1>1, <1>6 DEF IInv, NotToldYet
<1>11. (NoDuplicate /\ AnswersAreTrue /\ InOrder /\ ThreadsAreCounted)'
  <2>1. (NoDuplicate /\ AnswersAreTrue /\ InOrder)'
    BY <1>1, LogKept
  <2>2. QED
    BY <1>1, <2>1 DEF IInv, ThreadsAreCounted
<1>12. QueuedOnce'
  <2>1. SUFFICES ASSUME NEW h \in Gen, NEW k \in Gen,
                        NEW i \in 1..Len(queue'[h]), NEW j \in 1..Len(queue'[k]),
                        queue'[h][i] = queue'[k][j], queue'[h][i] # Stop
                 PROVE  h = k /\ i = j
    BY DEF QueuedOnce
  <2>2. /\ \/ h = g /\ i = Len(q) + 1 /\ queue'[h][i] = w
           \/ i \in 1..Len(queue[h]) /\ queue'[h][i] = queue[h][i]
        /\ \/ k = g /\ j = Len(q) + 1 /\ queue'[k][j] = w
           \/ j \in 1..Len(queue[k]) /\ queue'[k][j] = queue[k][j]
    BY <1>7
  <2>3. \A e \in Gen : \A l \in 1..Len(queue[e]) : queue[e][l] # w
    BY <1>3 DEF Nowhere
  <2>4. CASE queue'[h][i] = w
    BY <2>1, <2>2, <2>3, <2>4
  <2>5. CASE queue'[h][i] # w
    <3>1. /\ i \in 1..Len(queue[h]) /\ j \in 1..Len(queue[k])
          /\ queue[h][i] = queue[k][j] /\ queue[h][i] # Stop
      BY <2>1, <2>2, <2>5
    <3>2. QED
      BY <3>1, QueuedOnceAt
  <2>6. QED
    BY <2>4, <2>5
<1>13. QueuedIsOpen'
  BY <1>1, <1>3, <1>7 DEF IInv, QueuedIsOpen, Nowhere
<1>14. ThreadsHaveJobs'
  <2>1. thread[g] # "absent"
    BY <1>1 DEF IInv, CallsAreBound, g
  <2>2. QED
    BY <1>1, <1>5, <2>1 DEF IInv, ThreadsHaveJobs, q
<1>15. CallsAreBound'
  <2>1. \A d \in Caller : call'[d].step = "idle" <=> call[d].step = "idle"
    BY <1>1, <1>6
  <2>2. QED
    BY <1>1, <1>6, <2>1 DEF IInv, CallsAreBound
<1>16. NoCorpseAhead'
  BY <1>1, <1>2, <1>3, <1>7, BoundAssumption DEF IInv, NoCorpseAhead, TypeOK, Gen
<1>17. QED
  BY <1>8, <1>9, <1>10, <1>11, <1>12, <1>13, <1>14, <1>15, <1>16 DEF IInv


\* The answer is passed on, and the call is over (event_store_sync.py 348-360).
LEMMA AnsweredInv ==
    ASSUME IInv, NEW c \in Caller, Answered(c)
    PROVE  IInv'
<1> DEFINE w == Current(c)
<1>1. /\ call[c].step = "wait" /\ result[w] # "none"
      /\ told' = [told EXCEPT ![w] = Returned(result[w])]
      /\ lastError' = (result[w] = "raised")
      /\ call' = [call EXCEPT ![c] = NoCall]
      /\ UNCHANGED <<events, worker, queue, thread, wrote, result, degraded, timeouts>>
  BY DEF Answered
<1>2. TypeOK
  BY DEF IInv
<1>3. wrote[c] \in 1..MaxWrites /\ w = <<c, wrote[c]>> /\ w \in Write
  BY <1>1, CurrentFacts
<1> HIDE DEF w
<1>4. /\ told'[w] = "ok" <=> result[w] = "ok"
      /\ \A v \in Write \ {w} : told'[v] = told[v]
      /\ told' \in [Write -> {"none", "ok", "failed", "dropped"}]
  BY <1>1, <1>2, <1>3 DEF TypeOK, Returned
<1>5. /\ NoCall \in CallState /\ NoCall.step = "idle"
      /\ \A d \in Caller : call'[d] = IF d = c THEN NoCall ELSE call[d]
  BY <1>1, <1>2, BoundAssumption DEF NoCall, CallState, TypeOK
<1>6. TypeOK'
  <2>1. call' \in [Caller -> CallState]
    BY <1>1, <1>2, <1>5 DEF TypeOK
  <2>2. lastError' \in BOOLEAN
    BY <1>1
  <2>3. QED
    BY <1>1, <1>2, <1>4, <2>1, <2>2 DEF TypeOK
<1>7. NotHandedOver'
  <2>1. \A v : Nowhere(v) => Nowhere(v)'
    BY <1>1 DEF Nowhere
  <2>2. \A d \in Caller : call'[d].step = "submit" => call[d].step = "submit"
    BY <1>5
  <2>3. QED
    BY <1>1, <2>1, <2>2 DEF IInv, NotHandedOver
<1>8. NotToldYet'
  <2>1. SUFFICES ASSUME NEW d \in Caller, NEW m \in 1..MaxWrites,
                        m > wrote'[d] \/ (m = wrote'[d] /\ call'[d].step # "idle")
                 PROVE  told'[<<d, m>>] = "none"
    BY DEF NotToldYet
  <2>2. /\ m > wrote[d] \/ (m = wrote[d] /\ call[d].step # "idle")
        /\ <<d, m>> # w /\ <<d, m>> \in Write
    BY <1>1, <1>3, <1>5, <2>1, WriteFacts
  <2>3. QED
    BY <1>4, <2>2 DEF IInv, NotToldYet
<1>9. (NoDuplicate /\ QueuedOnce /\ QueuedIsOpen /\ ThreadsHaveJobs
         /\ ThreadsAreCounted)'
  BY <1>1 DEF IInv, NoDuplicate, QueuedOnce, QueuedIsOpen, ThreadsHaveJobs,
              ThreadsAreCounted
<1>10. AnswersAreTrue'
  BY <1>1, <1>4 DEF IInv, AnswersAreTrue, Stored
<1>11. CallsAreBound'
  BY <1>1, <1>5 DEF IInv, CallsAreBound
<1>12. NoCorpseAhead'
  <2>1. SUFFICES ASSUME worker # 0, NEW i \in 1..Len(queue[worker])
                 PROVE  queue[worker][i] # Stop /\ told'[queue[worker][i]] = "none"
    BY <1>1 DEF NoCorpseAhead
  <2>2. worker \in Gen
    BY <1>2, <2>1, BoundAssumption DEF TypeOK, Gen
  <2>3. /\ queue[worker][i] # Stop /\ told[queue[worker][i]] = "none"
        /\ result[queue[worker][i]] = "none"
    BY <2>1, <2>2 DEF IInv, NoCorpseAhead, QueuedIsOpen
  <2>4. queue[worker][i] \in Write
    BY <1>2, <2>1, <2>2, <2>3, ElementOfSeq DEF TypeOK
  <2>5. QED
    BY <1>1, <1>4, <2>3, <2>4
<1>13. InOrder'
  <2>1. SUFFICES ASSUME NEW d \in Caller,
                        NEW m \in 1..MaxWrites, NEW n \in 1..MaxWrites,
                        told'[<<d, m>>] = "ok", m < n
                 PROVE  Before(<<d, m>>, <<d, n>>)
    <3>1. \A u, v : Before(u, v) => Before(u, v)'
      BY <1>1 DEF Before
    <3>2. QED
      BY <3>1 DEF InOrder
  <2>2. CASE <<d, m>> = w
    <3>1. d = c /\ m = wrote[c]
      BY <1>3, <2>2
    <3>2. \A j \in 1..Len(events) : events[j] # <<d, n>>
      BY <2>1, <3>1 DEF IInv, NotHandedOver, Nowhere
    <3>3. Stored(<<d, m>>)
      BY <1>1, <1>3, <1>4, <2>1, <2>2 DEF IInv, AnswersAreTrue
    <3>4. QED
      BY <3>2, <3>3 DEF Stored, Before
  <2>3. CASE <<d, m>> # w
    <3>1. told[<<d, m>>] = "ok"
      BY <1>4, <2>1, <2>3, WriteFacts
    <3>2. QED
      BY <2>1, <3>1 DEF IInv, InOrder
  <2>4. QED
    BY <2>2, <2>3
<1>14. QED
  BY <1>6, <1>7, <1>8, <1>9, <1>10, <1>11, <1>12, <1>13 DEF IInv

\* A deadline passes: the current worker is told to stop, and the log is
\* degraded (event_store_sync.py 280-293, 323-346).
LEMMA TimeoutInv ==
    ASSUME IInv, NEW c \in Caller, Timeout(c)
    PROVE  IInv'
<1> DEFINE w == Current(c)
           q == queue[worker]
<1>1. /\ call[c].step = "wait"
      /\ told' = [told EXCEPT ![w] = "dropped"]
      /\ timeouts' = timeouts + 1
      /\ degraded' = TRUE /\ lastError' = TRUE
      /\ worker' = 0
      /\ queue' = IF worker = 0 THEN queue
                  ELSE [queue EXCEPT ![worker] = Append(q, Stop)]
      /\ call' = [call EXCEPT ![c] = NoCall]
      /\ UNCHANGED <<events, thread, wrote, result>>
  BY DEF Timeout
<1>2. TypeOK
  BY DEF IInv
<1>3. wrote[c] \in 1..MaxWrites /\ w = <<c, wrote[c]>> /\ w \in Write
  BY <1>1, CurrentFacts
<1> HIDE DEF w
<1>4. /\ told'[w] = "dropped"
      /\ \A v \in Write \ {w} : told'[v] = told[v]
      /\ told' \in [Write -> {"none", "ok", "failed", "dropped"}]
  BY <1>1, <1>2, <1>3 DEF TypeOK
<1>5. /\ NoCall \in CallState /\ NoCall.step = "idle"
      /\ \A d \in Caller : call'[d] = IF d = c THEN NoCall ELSE call[d]
  BY <1>1, <1>2, BoundAssumption DEF NoCall, CallState, TypeOK
\* What is in a queue was there before, or is the stop.
<1>6. /\ queue' \in [Gen -> Seq(Write \cup {Stop})]
      /\ \A h \in Gen :
            /\ queue[h] # <<>> => queue'[h] # <<>> /\ queue'[h][1] = queue[h][1]
            /\ h # worker => queue'[h] = queue[h]
            /\ \A i \in 1..Len(queue'[h]) :
                  \/ queue'[h][i] = Stop
                  \/ i \in 1..Len(queue[h]) /\ queue'[h][i] = queue[h][i]
  <2>1. CASE worker = 0
    BY <1>1, <1>2, <2>1 DEF TypeOK
  <2>2. CASE worker # 0
    <3>1. worker \in Gen
      BY <1>2, <2>2, BoundAssumption DEF TypeOK, Gen
    <3>2. q \in Seq(Write \cup {Stop})
      BY <1>2, <3>1 DEF TypeOK
    <3>3. queue'[worker] = Append(q, Stop) /\ \A h \in Gen \ {worker} : queue'[h] = queue[h]
      BY <1>1, <1>2, <2>2, <3>1 DEF TypeOK
    <3> HIDE DEF q
    <3>4. /\ Append(q, Stop) \in Seq(Write \cup {Stop})
          /\ Append(q, Stop) # <<>>
          /\ Len(q) \in Nat
          /\ Len(Append(q, Stop)) = Len(q) + 1
          /\ \A i \in 1..Len(q) + 1 :
                Append(q, Stop)[i] = IF i = Len(q) + 1 THEN Stop ELSE q[i]
          /\ q # <<>> => Append(q, Stop)[1] = q[1]
      BY <3>2, AppendFacts
    <3>5. queue' \in [Gen -> Seq(Write \cup {Stop})]
      BY <1>1, <1>2, <2>2, <3>4 DEF TypeOK
    <3>6. \A i \in 1..Len(queue'[worker]) :
             \/ queue'[worker][i] = Stop
             \/ i \in 1..Len(q) /\ queue'[worker][i] = q[i]
      BY <3>3, <3>4
    <3>7. QED
      BY <3>1, <3>3, <3>4, <3>5, <3>6 DEF q
  <2>3. QED
    BY <2>1, <2>2
<1>7. TypeOK'
  <2>1. call' \in [Caller -> CallState]
    BY <1>1, <1>2, <1>5 DEF TypeOK
  <2>2. worker' \in 0..MaxWorkers /\ timeouts' \in Nat
    BY <1>1, <1>2, BoundAssumption DEF TypeOK
  <2>3. degraded' \in BOOLEAN /\ lastError' \in BOOLEAN
    BY <1>1
  <2>4. QED
    BY <1>1, <1>2, <1>4, <1>6, <2>1, <2>2, <2>3 DEF TypeOK
<1>8. NotHandedOver'
  <2>1. SUFFICES ASSUME NEW d \in Caller, NEW m \in 1..MaxWrites,
                        m > wrote'[d] \/ (m = wrote'[d] /\ call'[d].step = "submit")
                 PROVE  Nowhere(<<d, m>>)'
    BY DEF NotHandedOver
  <2>2. m > wrote[d] \/ (m = wrote[d] /\ call[d].step = "submit")
    BY <1>1, <1>5, <2>1
  <2>3. Nowhere(<<d, m>>) /\ <<d, m>> # Stop
    BY <2>2, WriteFacts DEF IInv, NotHandedOver
  <2>4. \A h \in Gen : \A i \in 1..Len(queue'[h]) : queue'[h][i] # <<d, m>>
    BY <1>6, <2>3 DEF Nowhere
  <2>5. QED
    BY <1>1, <2>3, <2>4 DEF Nowhere
<1>9. NotToldYet'
  <2>1. SUFFICES ASSUME NEW d \in Caller, NEW m \in 1..MaxWrites,
                        m > wrote'[d] \/ (m = wrote'[d] /\ call'[d].step # "idle")
                 PROVE  told'[<<d, m>>] = "none"
    BY DEF NotToldYet
  <2>2. /\ m > wrote[d] \/ (m = wrote[d] /\ call[d].step # "idle")
        /\ <<d, m>> # w /\ <<d, m>> \in Write
    BY <1>1, <1>3, <1>5, <2>1, WriteFacts
  <2>3. QED
    BY <1>4, <2>2 DEF IInv, NotToldYet
<1>10. NoDuplicate' /\ AnswersAreTrue'
  BY <1>1, <1>4 DEF IInv, NoDuplicate, AnswersAreTrue, Stored
<1>11. QueuedOnce'
  <2>1. SUFFICES ASSUME NEW h \in Gen, NEW k \in Gen,
                        NEW i \in 1..Len(queue'[h]), NEW j \in 1..Len(queue'[k]),
                        queue'[h][i] = queue'[k][j], queue'[h][i] # Stop
                 PROVE  h = k /\ i = j
    BY DEF QueuedOnce
  <2>2. /\ i \in 1..Len(queue[h]) /\ queue'[h][i] = queue[h][i]
        /\ j \in 1..Len(queue[k]) /\ queue'[k][j] = queue[k][j]
    BY <1>6, <2>1
  <2>3. queue[h][i] = queue[k][j] /\ queue[h][i] # Stop
    BY <2>1, <2>2
  <2>4. QED
    BY <2>2, <2>3, QueuedOnceAt
<1>12. QueuedIsOpen'
  BY <1>1, <1>6 DEF IInv, QueuedIsOpen
<1>13. ThreadsHaveJobs'
  <2>1. worker # 0 => thread[worker] # "absent"
    BY DEF IInv, CallsAreBound
  <2>2. \A h \in Gen : thread[h] = "absent" => queue'[h] = <<>>
    <3>1. SUFFICES ASSUME NEW h \in Gen, thread[h] = "absent"
                   PROVE  queue'[h] = <<>>
      OBVIOUS
    <3>2. h # worker
      BY <2>1, <3>1, BoundAssumption DEF Gen
    <3>3. QED
      BY <1>6, <3>1, <3>2 DEF IInv, ThreadsHaveJobs
  <2>3. QED
    BY <1>1, <1>6, <2>2 DEF IInv, ThreadsHaveJobs
<1>14. CallsAreBound'
  BY <1>1, <1>5 DEF IInv, CallsAreBound
<1>15. NoCorpseAhead'
  BY <1>1 DEF NoCorpseAhead
<1>16. InOrder'
  <2>1. \A d \in Caller, m \in 1..MaxWrites :
           told'[<<d, m>>] = "ok" => told[<<d, m>>] = "ok"
    BY <1>4, WriteFacts
  <2>2. \A u, v : Before(u, v) => Before(u, v)'
    BY <1>1 DEF Before
  <2>3. QED
    BY <2>1, <2>2 DEF IInv, InOrder
<1>17. ThreadsAreCounted'
  BY <1>1, <1>2, BoundAssumption DEF IInv, ThreadsAreCounted, TypeOK, Gen
<1>18. QED
  BY <1>7, <1>8, <1>9, <1>10, <1>11, <1>12, <1>13, <1>14, <1>15, <1>16, <1>17 DEF IInv

\* The cool-down ends with nobody in a call (event_store_sync.py 310).
LEMMA CooldownEndsInv ==
    ASSUME IInv, CooldownEnds
    PROVE  IInv'
<1>1. /\ \A c \in Caller : call[c].step = "idle"
      /\ degraded' = FALSE
      /\ UNCHANGED <<events, worker, queue, thread, call, wrote, result, told,
                     lastError, timeouts>>
  BY DEF CooldownEnds
<1>2. TypeOK'
  <2>1. degraded' \in BOOLEAN
    BY <1>1
  <2>2. QED
    BY <1>1, <2>1 DEF IInv, TypeOK
<1>3. (NotHandedOver /\ NotToldYet /\ QueuedOnce /\ QueuedIsOpen)'
  BY <1>1 DEF IInv, NotHandedOver, Nowhere, NotToldYet, QueuedOnce, QueuedIsOpen
<1>4. (NoDuplicate /\ AnswersAreTrue /\ InOrder)'
  BY <1>1, LogKept
<1>5. (ThreadsHaveJobs /\ CallsAreBound /\ NoCorpseAhead /\ ThreadsAreCounted)'
  BY <1>1 DEF IInv, ThreadsHaveJobs, CallsAreBound, NoCorpseAhead, ThreadsAreCounted
<1>6. QED
  BY <1>2, <1>3, <1>4, <1>5 DEF IInv


-----------------------------------------------------------------------------
(* Steps of a worker thread. *)

\* Taking the head off one queue leaves every write at one place.
LEMMA QueuesShift ==
    ASSUME IInv, NEW g \in Gen,
           \A h \in Gen : \A i \in 1..Len(queue'[h]) :
              IF h = g THEN /\ i + 1 \in 2..Len(queue[g])
                            /\ queue'[g][i] = queue[g][i + 1]
              ELSE i \in 1..Len(queue[h]) /\ queue'[h][i] = queue[h][i]
    PROVE  QueuedOnce'
<1>1. SUFFICES ASSUME NEW h \in Gen, NEW k \in Gen,
                      NEW i \in 1..Len(queue'[h]), NEW j \in 1..Len(queue'[k]),
                      queue'[h][i] = queue'[k][j], queue'[h][i] # Stop
               PROVE  h = k /\ i = j
  BY DEF QueuedOnce
<1> DEFINE i0 == IF h = g THEN i + 1 ELSE i
           j0 == IF k = g THEN j + 1 ELSE j
<1>2. i0 \in 1..Len(queue[h]) /\ queue'[h][i] = queue[h][i0]
  <2>1. CASE h = g
    BY <2>1
  <2>2. CASE h # g
    BY <2>2
  <2>3. QED
    BY <2>1, <2>2
<1>3. j0 \in 1..Len(queue[k]) /\ queue'[k][j] = queue[k][j0]
  <2>1. CASE k = g
    BY <2>1
  <2>2. CASE k # g
    BY <2>2
  <2>3. QED
    BY <2>1, <2>2
<1>4. h = k /\ i0 = j0
  <2> HIDE DEF i0, j0
  <2>1. queue[h][i0] = queue[k][j0] /\ queue[h][i0] # Stop
    BY <1>1, <1>2, <1>3
  <2>2. QED
    BY <1>2, <1>3, <2>1, QueuedOnceAt
<1>5. i \in Int /\ j \in Int
  OBVIOUS
<1>6. QED
  BY <1>4, <1>5

\* The job at the head of its queue leaves the queue (event_store_sync.py
\* 245-261): what a queue holds was there before, one place further on.
LEMMA HeadLeaves ==
    ASSUME IInv, NEW g \in Gen, queue[g] # <<>>, thread[g] # "absent",
           NEW s \in {"waiting", "exited"},
           queue' = [queue EXCEPT ![g] = Tail(queue[g])],
           thread' = [thread EXCEPT ![g] = s]
    PROVE  /\ queue' \in [Gen -> Seq(Write \cup {Stop})]
           /\ thread' \in [Gen -> {"absent", "waiting", "writing", "exited"}]
           /\ \A h \in Gen : \A i \in 1..Len(queue'[h]) :
                IF h = g THEN /\ i + 1 \in 2..Len(queue[g])
                              /\ queue'[g][i] = queue[g][i + 1]
                ELSE i \in 1..Len(queue[h]) /\ queue'[h][i] = queue[h][i]
           /\ \A h \in Gen : thread'[h] = "absent" <=> thread[h] = "absent"
           /\ QueuedOnce'
           /\ ThreadsHaveJobs'
<1> DEFINE q == queue[g]
<1>1. TypeOK
  BY DEF IInv
<1>2. /\ q \in Seq(Write \cup {Stop})
      /\ queue'[g] = Tail(q)
      /\ \A h \in Gen \ {g} : queue'[h] = queue[h] /\ thread'[h] = thread[h]
      /\ thread'[g] = s
      /\ thread' \in [Gen -> {"absent", "waiting", "writing", "exited"}]
  BY <1>1 DEF TypeOK
<1> HIDE DEF q
<1>3. /\ Tail(q) \in Seq(Write \cup {Stop})
      /\ Len(q) \in Nat \ {0}
      /\ Len(Tail(q)) = Len(q) - 1
      /\ \A i \in 1..Len(q) - 1 : Tail(q)[i] = q[i + 1]
  <2>1. q # <<>>
    BY DEF q
  <2>2. QED
    BY <1>2, <2>1, TailFacts
<1>4. queue' \in [Gen -> Seq(Write \cup {Stop})]
  BY <1>1, <1>3 DEF TypeOK, q
<1>5. \A h \in Gen : \A i \in 1..Len(queue'[h]) :
         IF h = g THEN /\ i + 1 \in 2..Len(q)
                       /\ queue'[g][i] = q[i + 1]
         ELSE i \in 1..Len(queue[h]) /\ queue'[h][i] = queue[h][i]
  BY <1>2, <1>3
<1>6. QueuedOnce'
  BY <1>3, <1>5, QueuesShift DEF q
<1>7. ThreadsHaveJobs'
  <2>1. \A h \in Gen \ {g} : /\ thread'[h] = "writing" => queue'[h] # <<>> /\ queue'[h][1] # Stop
                             /\ thread'[h] = "absent" => queue'[h] = <<>>
    BY <1>2 DEF IInv, ThreadsHaveJobs
  <2>2. QED
    BY <1>2, <2>1 DEF ThreadsHaveJobs
<1>8. \A h \in Gen : thread'[h] = "absent" <=> thread[h] = "absent"
  BY <1>2
<1>9. QED
  BY <1>2, <1>4, <1>5, <1>6, <1>7, <1>8 DEF q

\* A step of a worker in which nothing new is queued.
LEMMA QueuesShrink ==
    ASSUME IInv,
           UNCHANGED <<worker, call, wrote, told, degraded, timeouts>>,
           \A h \in Gen : \A i \in 1..Len(queue'[h]) :
              \E j \in 1..Len(queue[h]) : queue'[h][i] = queue[h][j],
           \A h \in Gen : thread'[h] = "absent" <=> thread[h] = "absent"
    PROVE  (CallsAreBound /\ NoCorpseAhead /\ ThreadsAreCounted)'
<1>1. worker # 0 => worker \in Gen
  BY BoundAssumption DEF IInv, TypeOK, Gen
<1>2. CallsAreBound'
  BY <1>1 DEF IInv, CallsAreBound
<1>3. NoCorpseAhead'
  BY <1>1 DEF IInv, NoCorpseAhead
<1>4. ThreadsAreCounted'
  BY DEF IInv, ThreadsAreCounted
<1>5. QED
  BY <1>2, <1>3, <1>4

\* The next job is taken, or the stop is and ends the thread
\* (event_store_sync.py 245-250).
LEMMA NextJobInv ==
    ASSUME IInv, NEW g \in Gen, NextJob(g)
    PROVE  IInv'
<1>1. /\ thread[g] = "waiting" /\ queue[g] # <<>>
      /\ UNCHANGED <<events, worker, call, wrote, result, told, degraded,
                     lastError, timeouts>>
  BY DEF NextJob
<1>2. TypeOK
  BY DEF IInv
<1>3. Head(queue[g]) = queue[g][1]
  BY <1>1, <1>2, TailFacts DEF TypeOK
<1>4. (NoDuplicate /\ AnswersAreTrue /\ InOrder)'
  BY <1>1, LogKept
<1>5. NotToldYet'
  BY <1>1 DEF IInv, NotToldYet
<1>6. CASE Head(queue[g]) # Stop
  <2>1. UNCHANGED queue /\ thread' = [thread EXCEPT ![g] = "writing"]
    BY <1>6 DEF NextJob
  <2>2. /\ thread' \in [Gen -> {"absent", "waiting", "writing", "exited"}]
        /\ thread'[g] = "writing"
        /\ \A h \in Gen \ {g} : thread'[h] = thread[h]
    BY <1>2, <2>1 DEF TypeOK
  <2>3. \A h \in Gen : thread'[h] = "absent" <=> thread[h] = "absent"
    BY <1>1, <2>2
  <2>4. TypeOK'
    BY <1>1, <1>2, <2>1, <2>2 DEF TypeOK
  <2>5. (NotHandedOver /\ QueuedOnce /\ QueuedIsOpen /\ NoCorpseAhead)'
    BY <1>1, <2>1 DEF IInv, NotHandedOver, Nowhere, QueuedOnce, QueuedIsOpen,
                      NoCorpseAhead
  <2>6. ThreadsHaveJobs'
    BY <1>1, <1>3, <1>6, <2>1, <2>2 DEF IInv, ThreadsHaveJobs
  <2>7. CallsAreBound' /\ ThreadsAreCounted'
    BY <1>1, <1>2, <2>3, BoundAssumption
       DEF IInv, CallsAreBound, ThreadsAreCounted, TypeOK, Gen
  <2>8. QED
    BY <1>4, <1>5, <2>4, <2>5, <2>6, <2>7 DEF IInv
<1>7. CASE Head(queue[g]) = Stop
  <2>1. /\ queue' = [queue EXCEPT ![g] = Tail(queue[g])]
        /\ thread' = [thread EXCEPT ![g] = "exited"]
    BY <1>7 DEF NextJob
  <2>2. /\ queue' \in [Gen -> Seq(Write \cup {Stop})]
        /\ thread' \in [Gen -> {"absent", "waiting", "writing", "exited"}]
        /\ \A h \in Gen : \A i \in 1..Len(queue'[h]) :
              \E j \in 1..Len(queue[h]) : queue'[h][i] = queue[h][j]
        /\ \A h \in Gen : thread'[h] = "absent" <=> thread[h] = "absent"
        /\ QueuedOnce' /\ ThreadsHaveJobs'
    <3>1. thread[g] # "absent" /\ "exited" \in {"waiting", "exited"}
      BY <1>1
    <3>2. /\ queue' \in [Gen -> Seq(Write \cup {Stop})]
          /\ thread' \in [Gen -> {"absent", "waiting", "writing", "exited"}]
          /\ \A h \in Gen : \A i \in 1..Len(queue'[h]) :
                IF h = g THEN /\ i + 1 \in 2..Len(queue[g])
                              /\ queue'[g][i] = queue[g][i + 1]
                ELSE i \in 1..Len(queue[h]) /\ queue'[h][i] = queue[h][i]
          /\ \A h \in Gen : thread'[h] = "absent" <=> thread[h] = "absent"
          /\ QueuedOnce' /\ ThreadsHaveJobs'
      BY <1>1, <2>1, <3>1, HeadLeaves
    <3>3. \A h \in Gen : \A i \in 1..Len(queue'[h]) :
             \E j \in 1..Len(queue[h]) : queue'[h][i] = queue[h][j]
      <4>1. SUFFICES ASSUME NEW h \in Gen, NEW i \in 1..Len(queue'[h])
                     PROVE  \E j \in 1..Len(queue[h]) : queue'[h][i] = queue[h][j]
        OBVIOUS
      <4>2. CASE h = g
        <5>1. i + 1 \in 1..Len(queue[g]) /\ queue'[g][i] = queue[g][i + 1]
          BY <3>2, <4>2
        <5>2. QED
          BY <4>2, <5>1
      <4>3. CASE h # g
        BY <3>2, <4>3
      <4>4. QED
        BY <4>2, <4>3
    <3>4. QED
      BY <3>2, <3>3
  <2>3. (CallsAreBound /\ NoCorpseAhead /\ ThreadsAreCounted)'
    BY <1>1, <2>2, QueuesShrink
  <2>4. TypeOK'
    BY <1>1, <1>2, <2>2 DEF TypeOK
  <2>5. NotHandedOver'
    <3>1. \A v : Nowhere(v) => Nowhere(v)'
      BY <1>1, <2>2 DEF Nowhere
    <3>2. QED
      BY <1>1, <3>1 DEF IInv, NotHandedOver
  <2>6. QueuedIsOpen'
    <3>1. SUFFICES ASSUME NEW h \in Gen, NEW i \in 1..Len(queue'[h]),
                          queue'[h][i] # Stop
                   PROVE  /\ result[queue'[h][i]] = "none"
                          /\ \A j \in 1..Len(events) : events[j] # queue'[h][i]
      BY <1>1 DEF QueuedIsOpen
    <3>2. PICK j \in 1..Len(queue[h]) : queue'[h][i] = queue[h][j]
      BY <2>2
    <3>3. QED
      BY <3>1, <3>2 DEF IInv, QueuedIsOpen
  <2>7. QED
    BY <1>4, <1>5, <2>2, <2>3, <2>4, <2>5, <2>6 DEF IInv
<1>8. QED
  BY <1>6, <1>7

\* A write is done with: its event is in the table or it is not, and the job
\* leaves the queue (event_store_sync.py 245-261, 518-539).
LEMMA JobDoneInv ==
    ASSUME IInv, NEW g \in Gen, Commit(g) \/ Fail(g)
    PROVE  IInv'
<1> DEFINE L == Len(events)
<1>0. PICK w : w = Head(queue[g])
  OBVIOUS
<1>1. /\ thread[g] = "writing"
      /\ queue' = [queue EXCEPT ![g] = Tail(queue[g])]
      /\ thread' = [thread EXCEPT ![g] = "waiting"]
      /\ UNCHANGED <<worker, call, wrote, told, degraded, lastError, timeouts>>
      /\ \/ events' = Append(events, w) /\ result' = [result EXCEPT ![w] = "ok"]
         \/ /\ events' = events
            /\ \E r \in {"failed", "raised"} : result' = [result EXCEPT ![w] = r]
  BY <1>0 DEF Commit, Fail
<1>2. TypeOK
  BY DEF IInv
<1>3. /\ queue[g] # <<>> /\ queue[g][1] # Stop
      /\ queue[g] \in Seq(Write \cup {Stop})
  BY <1>1, <1>2 DEF IInv, ThreadsHaveJobs, TypeOK
<1>4. /\ 1 \in 1..Len(queue[g]) /\ w = queue[g][1] /\ w \in Write /\ w # Stop
  <2>1. Head(queue[g]) = queue[g][1] /\ Len(queue[g]) \in Nat \ {0}
    BY <1>3, TailFacts
  <2>2. 1 \in 1..Len(queue[g])
    BY <2>1
  <2>3. queue[g][1] \in Write \cup {Stop}
    BY <1>3, <2>2, ElementOfSeq
  <2>4. QED
    BY <1>0, <1>3, <2>1, <2>2, <2>3
<1> HIDE DEF L
<1>5. /\ queue' \in [Gen -> Seq(Write \cup {Stop})]
      /\ thread' \in [Gen -> {"absent", "waiting", "writing", "exited"}]
      /\ \A h \in Gen : \A i \in 1..Len(queue'[h]) :
            IF h = g THEN /\ i + 1 \in 2..Len(queue[g])
                          /\ queue'[g][i] = queue[g][i + 1]
            ELSE i \in 1..Len(queue[h]) /\ queue'[h][i] = queue[h][i]
      /\ \A h \in Gen : thread'[h] = "absent" <=> thread[h] = "absent"
      /\ QueuedOnce' /\ ThreadsHaveJobs'
  BY <1>1, <1>3, HeadLeaves
\* What is queued was queued, and is not this write.
<1>6. \A h \in Gen : \A i \in 1..Len(queue'[h]) :
         \E j \in 1..Len(queue[h]) :
            queue'[h][i] = queue[h][j] /\ queue'[h][i] # w
  <2>1. SUFFICES ASSUME NEW h \in Gen, NEW i \in 1..Len(queue'[h])
                 PROVE  \E j \in 1..Len(queue[h]) :
                           queue'[h][i] = queue[h][j] /\ queue'[h][i] # w
    OBVIOUS
  <2>2. CASE h = g
    <3>1. i + 1 \in 1..Len(queue[g]) /\ i + 1 # 1 /\ queue'[g][i] = queue[g][i + 1]
      BY <1>5, <2>2
    <3>2. queue[g][i + 1] # w
      BY <1>4, <3>1, QueuedOnceAt
    <3>3. QED
      BY <2>2, <3>1, <3>2
  <2>3. CASE h # g
    <3>1. i \in 1..Len(queue[h]) /\ queue'[h][i] = queue[h][i]
      BY <1>5, <2>3
    <3>2. queue[h][i] # w
      BY <1>4, <2>3, <3>1, QueuedOnceAt
    <3>3. QED
      BY <3>1, <3>2
  <2>4. QED
    BY <2>2, <2>3
<1>7. /\ result[w] = "none"
      /\ \A j \in 1..L : events[j] # w
      /\ events \in Seq(Write) /\ L \in Nat
  <2>1. result[w] = "none" /\ \A j \in 1..L : events[j] # w
    BY <1>4 DEF IInv, QueuedIsOpen, L
  <2>2. events \in Seq(Write) /\ L \in Nat
    BY <1>2, LenProperties DEF TypeOK, L
  <2>3. QED
    BY <2>1, <2>2
<1>8. /\ result' \in [Write -> {"none", "ok", "failed", "raised"}]
      /\ \A v \in Write \ {w} : result'[v] = result[v]
      /\ result'[w] = "ok" => Len(events') = L + 1
  <2>1. events' = Append(events, w) => Len(events') = L + 1
    BY <1>4, <1>7, AppendProperties DEF L
  <2>2. QED
    BY <1>1, <1>2, <1>4, <2>1 DEF TypeOK
<1>9. /\ events' \in Seq(Write)
      /\ Len(events') \in {L, L + 1}
      /\ \A i \in 1..L : events'[i] = events[i]
      /\ Len(events') = L + 1 => events'[L + 1] = w
  <2>1. CASE events' = events
    BY <1>7, <2>1 DEF L
  <2>2. CASE events' = Append(events, w)
    BY <1>4, <1>7, <2>2, AppendProperties DEF L
  <2>3. QED
    BY <1>1, <2>1, <2>2
<1>10. \A i \in 1..Len(events') : \/ i \in 1..L /\ events'[i] = events[i]
                                  \/ i = L + 1 /\ events'[i] = w
  BY <1>7, <1>9
<1>11. (CallsAreBound /\ NoCorpseAhead /\ ThreadsAreCounted)'
  <2>1. \A h \in Gen : \A i \in 1..Len(queue'[h]) :
           \E j \in 1..Len(queue[h]) : queue'[h][i] = queue[h][j]
    BY <1>6
  <2>2. UNCHANGED <<worker, call, wrote, told, degraded, timeouts>>
    BY <1>1
  <2>3. QED
    BY <1>5, <2>1, <2>2, QueuesShrink
<1>12. TypeOK'
  BY <1>1, <1>2, <1>5, <1>8, <1>9 DEF TypeOK
<1>13. NotHandedOver'
  <2>1. SUFFICES ASSUME NEW d \in Caller, NEW m \in 1..MaxWrites,
                        m > wrote'[d] \/ (m = wrote'[d] /\ call'[d].step = "submit")
                 PROVE  Nowhere(<<d, m>>)'
    BY DEF NotHandedOver
  <2>2. Nowhere(<<d, m>>) /\ <<d, m>> \in Write
    BY <1>1, <2>1, WriteFacts DEF IInv, NotHandedOver
  <2>3. <<d, m>> # w
    BY <1>4, <2>2 DEF Nowhere
  <2>4. result'[<<d, m>>] = "none"
    BY <1>8, <2>2, <2>3 DEF Nowhere
  <2>5. \A i \in 1..Len(events') : events'[i] # <<d, m>>
    BY <1>10, <2>2, <2>3 DEF Nowhere, L
  <2>6. \A h \in Gen : \A i \in 1..Len(queue'[h]) : queue'[h][i] # <<d, m>>
    <3>1. SUFFICES ASSUME NEW h \in Gen, NEW i \in 1..Len(queue'[h])
                   PROVE  queue'[h][i] # <<d, m>>
      OBVIOUS
    <3>2. PICK j \in 1..Len(queue[h]) : queue'[h][i] = queue[h][j]
      BY <1>6
    <3>3. QED
      BY <2>2, <3>2 DEF Nowhere
  <2>7. QED
    BY <2>4, <2>5, <2>6 DEF Nowhere
<1>14. NotToldYet'
  BY <1>1 DEF IInv, NotToldYet
<1>15. NoDuplicate'
  <2>1. SUFFICES ASSUME NEW i \in 1..Len(events'), NEW j \in 1..Len(events'),
                        events'[i] = events'[j]
                 PROVE  i = j
    BY DEF NoDuplicate
  <2>2. \/ i \in 1..L /\ j \in 1..L /\ events[i] = events[j]
        \/ i = L + 1 /\ j = L + 1
    BY <1>7, <1>10, <2>1
  <2>3. QED
    BY <2>2 DEF IInv, NoDuplicate, L
<1>16. QueuedIsOpen'
  <2>1. SUFFICES ASSUME NEW h \in Gen, NEW i \in 1..Len(queue'[h]),
                        queue'[h][i] # Stop
                 PROVE  /\ result'[queue'[h][i]] = "none"
                        /\ \A j \in 1..Len(events') : events'[j] # queue'[h][i]
    BY DEF QueuedIsOpen
  <2>2. PICK j \in 1..Len(queue[h]) : queue'[h][i] = queue[h][j] /\ queue'[h][i] # w
    BY <1>6
  <2>3. /\ result[queue[h][j]] = "none"
        /\ \A k \in 1..L : events[k] # queue[h][j]
    BY <2>1, <2>2 DEF IInv, QueuedIsOpen, L
  <2>4. queue[h][j] \in Write
    BY <1>2, <2>1, <2>2, ElementOfSeq DEF TypeOK
  <2>5. QED
    BY <1>8, <1>10, <2>2, <2>3, <2>4
<1>17. AnswersAreTrue'
  <2>1. \A v \in Write : Stored(v) => Stored(v)'
    <3>1. SUFFICES ASSUME NEW v \in Write, Stored(v)
                   PROVE  Stored(v)'
      OBVIOUS
    <3>2. PICK i \in 1..L : events[i] = v
      BY <3>1 DEF Stored, L
    <3>3. i \in 1..Len(events') /\ events'[i] = v
      BY <1>7, <1>9, <3>2
    <3>4. QED
      BY <3>3 DEF Stored
  <2>2. result'[w] = "ok" => Stored(w)'
    <3>1. SUFFICES ASSUME result'[w] = "ok" PROVE Stored(w)'
      OBVIOUS
    <3>2. PICK i \in 1..Len(events') : events'[i] = w
      BY <1>7, <1>8, <1>9, <3>1
    <3>3. (\E k \in 1..Len(events) : events[k] = w)'
      BY <3>2
    <3>4. QED
      BY <3>3 DEF Stored
  <2>3. \A v \in Write : result'[v] = "ok" => Stored(v)'
    BY <1>8, <2>1, <2>2 DEF IInv, AnswersAreTrue
  <2>4. \A v \in Write : told'[v] = "ok" => result'[v] = "ok"
    BY <1>1, <1>7, <1>8 DEF IInv, AnswersAreTrue
  <2>5. QED
    BY <2>3, <2>4 DEF AnswersAreTrue
<1>18. InOrder'
  <2>1. \A u, v : Before(u, v) => Before(u, v)'
    <3>1. SUFFICES ASSUME NEW u, NEW v, Before(u, v)
                   PROVE  Before(u, v)'
      OBVIOUS
    <3>2. PICK i \in 1..L : /\ events[i] = u
                            /\ \A j \in 1..L : events[j] = v => i < j
      BY <3>1 DEF Before, L
    <3>3. i \in 1..Len(events') /\ events'[i] = u
      BY <1>7, <1>9, <3>2
    <3>4. \A j \in 1..Len(events') : events'[j] = v => i < j
      BY <1>7, <1>10, <3>2
    <3>5. QED
      BY <3>3, <3>4 DEF Before
  <2>2. QED
    BY <1>1, <2>1 DEF IInv, InOrder
<1>19. QED
  BY <1>5, <1>11, <1>12, <1>13, <1>14, <1>15, <1>16, <1>17, <1>18 DEF IInv

-----------------------------------------------------------------------------
(* The invariant. *)

\* Every step of a caller, of a worker or of the clock keeps the invariant.
LEMMA NextInv == IInv /\ [Next]_vars => IInv'
<1>1. SUFFICES ASSUME IInv, [Next]_vars PROVE IInv'
  OBVIOUS
<1>2. CASE \E c \in Caller : CallerStep(c)
  <2>1. PICK c \in Caller : CallerStep(c)
    BY <1>2
  <2>2. QED
    BY <1>1, <2>1, SkipInv, TakeWorkerInv, SubmitInv, AnsweredInv, TimeoutInv
       DEF CallerStep
<1>3. CASE \E g \in Gen : WorkerStep(g)
  <2>1. PICK g \in Gen : WorkerStep(g)
    BY <1>3
  <2>2. QED
    BY <1>1, <2>1, NextJobInv, JobDoneInv DEF WorkerStep
<1>4. CASE CooldownEnds
  BY <1>1, <1>4, CooldownEndsInv
<1>5. CASE UNCHANGED vars
  <2>1. TypeOK'
    BY <1>1, <1>5 DEF vars, IInv, TypeOK
  <2>2. (NotHandedOver /\ NotToldYet /\ QueuedOnce /\ QueuedIsOpen)'
    BY <1>1, <1>5 DEF vars, IInv, NotHandedOver, Nowhere, NotToldYet,
                      QueuedOnce, QueuedIsOpen
  <2>3. (NoDuplicate /\ AnswersAreTrue /\ InOrder)'
    BY <1>1, <1>5, LogKept DEF vars
  <2>4. (ThreadsHaveJobs /\ CallsAreBound /\ NoCorpseAhead /\ ThreadsAreCounted)'
    BY <1>1, <1>5 DEF vars, IInv, ThreadsHaveJobs, CallsAreBound, NoCorpseAhead,
                      ThreadsAreCounted
  <2>5. QED
    BY <2>1, <2>2, <2>3, <2>4 DEF IInv
<1>6. QED
  BY <1>1, <1>2, <1>3, <1>4, <1>5 DEF Next

\* The invariant holds in every state the writer can reach, for any number of
\* callers, of writes and of worker threads.
THEOREM Inductive == Spec => []IInv
<1>1. Init => IInv
  BY InitInv
<1>2. IInv /\ [Next]_vars => IInv'
  BY NextInv
<1>3. QED
  BY <1>1, <1>2, PTL DEF Spec

-----------------------------------------------------------------------------
(* What follows from it. *)

\* Every variable of the writer keeps its type.
THEOREM TypeCorrect == Spec => []TypeOK
<1>1. IInv => TypeOK
  BY DEF IInv
<1>2. QED
  BY <1>1, Inductive, PTL

\* However many threads were abandoned and go on writing, no event is in the
\* log twice (event_store_sync.py 209-213, 280-293).
THEOREM NeverTwice == Spec => []NoDuplicate
<1>1. IInv => NoDuplicate
  BY DEF IInv
<1>2. QED
  BY <1>1, Inductive, PTL

\* What a caller was given a sequence number for is in the log, in the order
\* in which the caller wrote it, whichever threads wrote it
\* (event_store_sync.py 518-539).
THEOREM AcknowledgedStaysInOrder == Spec => []AcknowledgedInOrder
<1>1. ASSUME IInv PROVE AcknowledgedInOrder
  <2>1. SUFFICES ASSUME NEW c \in Caller,
                        NEW m \in 1..MaxWrites, NEW n \in 1..MaxWrites,
                        told[<<c, m>>] = "ok"
                 PROVE  /\ Stored(<<c, m>>)
                        /\ (m < n /\ told[<<c, n>>] = "ok")
                              => Position(<<c, m>>) < Position(<<c, n>>)
    BY DEF AcknowledgedInOrder
  <2>2. Stored(<<c, m>>)
    BY <1>1, <2>1, WriteFacts DEF IInv, AnswersAreTrue
  <2>3. ASSUME m < n, told[<<c, n>>] = "ok"
        PROVE  Position(<<c, m>>) < Position(<<c, n>>)
    <3>1. Stored(<<c, n>>)
      BY <1>1, <2>3, WriteFacts DEF IInv, AnswersAreTrue
    <3>2. /\ Position(<<c, m>>) \in 1..Len(events)
          /\ events[Position(<<c, m>>)] = <<c, m>>
      BY <2>2 DEF Stored, Position
    <3>3. /\ Position(<<c, n>>) \in 1..Len(events)
          /\ events[Position(<<c, n>>)] = <<c, n>>
      BY <3>1 DEF Stored, Position
    <3>4. PICK i \in 1..Len(events) :
             /\ events[i] = <<c, m>>
             /\ \A j \in 1..Len(events) : events[j] = <<c, n>> => i < j
      BY <1>1, <2>1, <2>3 DEF IInv, InOrder, Before
    <3>5. i = Position(<<c, m>>)
      BY <1>1, <3>2, <3>4 DEF IInv, NoDuplicate
    <3>6. QED
      BY <3>3, <3>4, <3>5
  <2>4. QED
    BY <2>2, <2>3
<1>2. QED
  BY <1>1, Inductive, PTL

\* A deadline abandons the worker that missed it and no other
\* (event_store_sync.py 280-293, 323-346).
THEOREM AbandonsOnlyItsOwn == Spec => []AbandonsItsOwnWorker
<1>1. IInv => AbandonsItsOwnWorker
  BY DEF IInv, CallsAreBound, AbandonsItsOwnWorker
<1>2. QED
  BY <1>1, Inductive, PTL

\* A write on the current worker never waits behind one that was given up
\* (event_store_sync.py 211-213, 280-293).
THEOREM NoCorpseIsAhead == Spec => []NoCorpseAhead
<1>1. IInv => NoCorpseAhead
  BY DEF IInv
<1>2. QED
  BY <1>1, Inductive, PTL

\* The threads alive are at most one more than the deadlines missed
\* (event_store_sync.py 211-213).
THEOREM LeaksAreCounted == Spec => []LeakCostsTimeout
<1>1. ASSUME IInv PROVE LeakCostsTimeout
  <2> DEFINE A == {g \in Gen : thread[g] \in {"waiting", "writing"}}
             B == 1..(timeouts + 1)
  <2>1. timeouts \in Nat
    BY <1>1 DEF IInv, TypeOK
  <2>2. A \subseteq B
    BY <1>1, <2>1, BoundAssumption DEF IInv, ThreadsAreCounted, Gen
  <2>3. IsFiniteSet(B) /\ Cardinality(B) = timeouts + 1
    BY <2>1, FS_Interval
  <2>4. Cardinality(A) <= Cardinality(B)
    BY <2>2, <2>3, FS_Subset
  <2>5. QED
    BY <2>3, <2>4 DEF LeakCostsTimeout
<1>2. QED
  BY <1>1, Inductive, PTL

-----------------------------------------------------------------------------
(* The writer implements Delivery. *)

\* A write whose caller waits has been answered or is in a queue.
WaitingIsServed ==
    \A c \in Caller : call[c].step = "wait" =>
        result[Current(c)] # "none" \/ Queued(Current(c))

\* A caller has been told of every write that it has finished.
FinishedIsTold ==
    \A c \in Caller : \A n \in 1..MaxWrites :
        (n < wrote[c] \/ (n = wrote[c] /\ call[c].step = "idle"))
            => told[<<c, n>>] # "none"

DInv == IInv /\ WaitingIsServed /\ FinishedIsTold

\* A job more at the end of a queue.
LEMMA QueuedAppend ==
    ASSUME IInv, NEW g \in Gen, NEW x \in Write \cup {Stop},
           queue' = [queue EXCEPT ![g] = Append(queue[g], x)]
    PROVE  \A w \in Write : Queued(w)' <=> Queued(w) \/ w = x
<1> DEFINE q == queue[g]
           r == queue'[g]
<1>1. /\ q \in Seq(Write \cup {Stop})
      /\ r = Append(q, x)
      /\ \A h \in Gen \ {g} : queue'[h] = queue[h]
  BY DEF IInv, TypeOK
<1> HIDE DEF q, r
<1>2. /\ Len(q) \in Nat /\ Len(r) = Len(q) + 1
      /\ \A i \in 1..Len(q) + 1 : r[i] = IF i = Len(q) + 1 THEN x ELSE q[i]
  BY <1>1, AppendFacts
<1>3. \A w : (\E i \in 1..Len(r) : r[i] = w)
               <=> (\E i \in 1..Len(q) : q[i] = w) \/ w = x
  BY <1>2
<1>4. \A w : Queued(w)' <=> \/ \E i \in 1..Len(r) : r[i] = w
                            \/ \E h \in Gen \ {g} :
                                  \E i \in 1..Len(queue[h]) : queue[h][i] = w
  BY <1>1 DEF Queued, r
<1>5. \A w : Queued(w) <=> \/ \E i \in 1..Len(q) : q[i] = w
                           \/ \E h \in Gen \ {g} :
                                 \E i \in 1..Len(queue[h]) : queue[h][i] = w
  BY DEF Queued, q
<1>6. QED
  BY <1>3, <1>4, <1>5

\* The head of a queue is taken off: no other write leaves.
LEMMA QueuedTail ==
    ASSUME IInv, NEW g \in Gen, queue[g] # <<>>,
           queue' = [queue EXCEPT ![g] = Tail(queue[g])]
    PROVE  \A w \in Write : Queued(w)' <=> Queued(w) /\ w # queue[g][1]
<1> DEFINE q == queue[g]
           r == queue'[g]
<1>1. /\ q \in Seq(Write \cup {Stop}) /\ q # <<>>
      /\ r = Tail(q)
      /\ \A h \in Gen \ {g} : queue'[h] = queue[h]
  BY DEF IInv, TypeOK
<1> HIDE DEF q, r
<1>2. /\ Len(q) \in Nat \ {0} /\ Len(r) = Len(q) - 1
      /\ \A i \in 1..Len(q) - 1 : r[i] = q[i + 1]
  BY <1>1, TailFacts
<1>3. ASSUME NEW w \in Write, NEW h \in Gen, NEW i \in 1..Len(queue[h]),
             queue[h][i] = w, w = q[1]
      PROVE  h = g /\ i = 1
  <2>1. 1 \in 1..Len(queue[g]) /\ queue[g][1] = w /\ w # Stop
    BY <1>2, <1>3, WriteFacts DEF q
  <2>2. QED
    BY <1>3, <2>1, QueuedOnceAt
<1>4. ASSUME NEW w \in Write
      PROVE  (\E i \in 1..Len(r) : r[i] = w)
               <=> (\E i \in 1..Len(q) : q[i] = w) /\ w # q[1]
  <2>1. ASSUME NEW i \in 1..Len(r), r[i] = w
        PROVE  (\E j \in 1..Len(q) : q[j] = w) /\ w # q[1]
    <3>1. i + 1 \in 1..Len(q) /\ q[i + 1] = w /\ i + 1 # 1
      BY <1>2, <2>1
    <3>2. w # q[1]
      BY <1>3, <3>1 DEF q
    <3>3. QED
      BY <3>1, <3>2
  <2>2. ASSUME NEW i \in 1..Len(q), q[i] = w, w # q[1]
        PROVE  \E j \in 1..Len(r) : r[j] = w
    <3>1. i - 1 \in 1..Len(r) /\ r[i - 1] = w
      BY <1>2, <2>2
    <3>2. QED
      BY <3>1
  <2>3. QED
    BY <2>1, <2>2
<1>5. \A w : Queued(w)' <=> \/ \E i \in 1..Len(r) : r[i] = w
                            \/ \E h \in Gen \ {g} :
                                  \E i \in 1..Len(queue[h]) : queue[h][i] = w
  BY <1>1 DEF Queued, r
<1>6. \A w : Queued(w) <=> \/ \E i \in 1..Len(q) : q[i] = w
                           \/ \E h \in Gen \ {g} :
                                 \E i \in 1..Len(queue[h]) : queue[h][i] = w
  BY DEF Queued, q
<1>7. \A w \in Write : w = q[1] =>
         ~ \E h \in Gen \ {g} : \E i \in 1..Len(queue[h]) : queue[h][i] = w
  BY <1>3
<1>8. \A w \in Write : Queued(w)' <=> Queued(w) /\ w # q[1]
  BY <1>4, <1>5, <1>6, <1>7
<1>9. QED
  BY <1>8 DEF q

\* The cases of Fate and Known.
LEMMA FateFacts ==
    ASSUME IInv, NEW w \in Write
    PROVE  /\ result[w] = "ok" => Fate(w) = "landed"
           /\ result[w] \in {"failed", "raised"} => Fate(w) = "lost"
           /\ result[w] = "none" /\ told[w] = "none" =>
                Fate(w) = IF w[2] > wrote[w[1]] THEN "ahead" ELSE "open"
           /\ result[w] = "none" /\ told[w] # "none" =>
                Fate(w) = IF Queued(w) THEN "late" ELSE "lost"
           /\ result[w] \in {"none", "ok", "failed", "raised"}
           /\ told[w] \in {"none", "ok", "failed", "dropped"}
<1>1. /\ result[w] \in {"none", "ok", "failed", "raised"}
      /\ told[w] \in {"none", "ok", "failed", "dropped"}
  BY DEF IInv, TypeOK
<1>2. QED
  BY <1>1 DEF Fate

\* The same after a step that keeps the invariant.
LEMMA FateFactsNext ==
    ASSUME IInv', NEW w \in Write
    PROVE  /\ result'[w] = "ok" => Fate(w)' = "landed"
           /\ result'[w] \in {"failed", "raised"} => Fate(w)' = "lost"
           /\ result'[w] = "none" /\ told'[w] = "none" =>
                Fate(w)' = IF w[2] > wrote'[w[1]] THEN "ahead" ELSE "open"
           /\ result'[w] = "none" /\ told'[w] # "none" =>
                Fate(w)' = IF Queued(w)' THEN "late" ELSE "lost"
           /\ result'[w] \in {"none", "ok", "failed", "raised"}
           /\ told'[w] \in {"none", "ok", "failed", "dropped"}
<1>1. /\ result'[w] \in {"none", "ok", "failed", "raised"}
      /\ told'[w] \in {"none", "ok", "failed", "dropped"}
  BY DEF IInv, TypeOK
<1>2. QED
  BY <1>1 DEF Fate

\* A write keeps its fate while its answer, its place in a queue and what its
\* caller has begun and been told stay.
LEMMA FateKept ==
    ASSUME IInv, IInv', NEW w \in Write,
           result'[w] = result[w], told'[w] = told[w],
           w[2] > wrote'[w[1]] <=> w[2] > wrote[w[1]],
           told[w] # "none" => (Queued(w)' <=> Queued(w))
    PROVE  Fate(w)' = Fate(w) /\ Known(w)' = Known(w)
<1>1. Fate(w)' = Fate(w)
  BY FateFacts, FateFactsNext
<1>2. QED
  BY <1>1 DEF Known

\* One write's fate changes, or what its caller knows.
LEMMA BecomesFacts ==
    ASSUME NEW w \in Write, NEW f, NEW t,
           \A v \in Write \ {w} : Fate(v)' = Fate(v) /\ Known(v)' = Known(v),
           Fate(w)' = f, Known(w)' = t
    PROVE  /\ Contract!Becomes(w, f)
           /\ Contract!IsTold(w, t)
           /\ f = Fate(w) => UNCHANGED [v \in Write |-> Fate(v)]
           /\ t = Known(w) => UNCHANGED [v \in Write |-> Known(v)]
<1>1. Contract!Becomes(w, f)
  BY DEF Contract!Becomes
<1>2. Contract!IsTold(w, t)
  BY DEF Contract!IsTold
<1>3. f = Fate(w) => UNCHANGED [v \in Write |-> Fate(v)]
  OBVIOUS
<1>4. t = Known(w) => UNCHANGED [v \in Write |-> Known(v)]
  OBVIOUS
<1>5. QED
  BY <1>1, <1>2, <1>3, <1>4

\* A write is the n-th of its caller.
LEMMA WriteParts ==
    ASSUME NEW w \in Write
    PROVE  /\ w[1] \in Caller /\ w[2] \in 1..MaxWrites /\ w = <<w[1], w[2]>>
           /\ \A c \in Caller, n \in 1..MaxWrites :
                 w = <<c, n>> <=> w[1] = c /\ w[2] = n
BY DEF Write

\* Whoever waits goes on waiting for a write that is served.
LEMMA ServedKept ==
    ASSUME DInv,
           \A d \in Caller : call'[d].step = "wait" =>
              call[d].step = "wait" /\ wrote'[d] = wrote[d],
           \A w \in Write : result[w] # "none" => result'[w] # "none",
           \A w \in Write : Queued(w) => Queued(w)' \/ result'[w] # "none"
    PROVE  WaitingIsServed'
<1>1. SUFFICES ASSUME NEW d \in Caller, call'[d].step = "wait"
               PROVE  result'[Current(d)'] # "none" \/ Queued(Current(d))'
  BY DEF WaitingIsServed
<1>2. Current(d)' = Current(d) /\ Current(d) \in Write
  BY <1>1, CurrentFacts DEF Current, DInv
<1>3. result[Current(d)] # "none" \/ Queued(Current(d))
  BY <1>1 DEF DInv, WaitingIsServed
<1>4. Queued(Current(d))' <=> Queued(<<d, wrote[d]>>)'
  BY <1>1 DEF Current, Queued
<1>5. QED
  BY <1>2, <1>3, <1>4 DEF Current

\* A caller begins a write only when it has been told of the one before.
LEMMA FinishedKept ==
    ASSUME DInv,
           \A w \in Write : told[w] # "none" => told'[w] # "none",
           \A d \in Caller :
              \/ /\ wrote'[d] = wrote[d]
                 /\ call'[d].step = "idle" =>
                      \/ call[d].step = "idle"
                      \/ told'[<<d, wrote[d]>>] # "none"
              \/ /\ wrote'[d] = wrote[d] + 1 /\ call[d].step = "idle"
                 /\ call'[d].step = "idle" => told'[<<d, wrote[d] + 1>>] # "none"
    PROVE  FinishedIsTold'
<1>1. SUFFICES ASSUME NEW d \in Caller, NEW n \in 1..MaxWrites,
                      n < wrote'[d] \/ (n = wrote'[d] /\ call'[d].step = "idle")
               PROVE  told'[<<d, n>>] # "none"
  BY DEF FinishedIsTold
<1>2. <<d, n>> \in Write /\ wrote[d] \in Nat
  BY WriteFacts, BoundAssumption DEF DInv, IInv, TypeOK
<1>3. CASE n < wrote[d] \/ (n = wrote[d] /\ call[d].step = "idle")
  BY <1>2, <1>3 DEF DInv, FinishedIsTold
<1>4. CASE ~(n < wrote[d] \/ (n = wrote[d] /\ call[d].step = "idle"))
  <2>1. n \in Nat
    BY BoundAssumption
  <2>2. \/ wrote'[d] = wrote[d]
           /\ (call'[d].step = "idle" => \/ call[d].step = "idle"
                                        \/ told'[<<d, wrote[d]>>] # "none")
        \/ /\ wrote'[d] = wrote[d] + 1 /\ call[d].step = "idle"
           /\ call'[d].step = "idle" => told'[<<d, wrote[d] + 1>>] # "none"
    OBVIOUS
  <2>3. CASE wrote'[d] = wrote[d]
    <3>1. n = wrote[d] /\ call'[d].step = "idle" /\ call[d].step # "idle"
      BY <1>1, <1>4, <2>3
    <3>2. QED
      BY <1>2, <2>2, <2>3, <3>1
  <2>4. CASE wrote'[d] = wrote[d] + 1 /\ call[d].step = "idle"
    <3>1. n = wrote[d] + 1 /\ call'[d].step = "idle"
      BY <1>1, <1>2, <1>4, <2>1, <2>4
    <3>2. QED
      BY <1>2, <2>2, <2>4, <3>1
  <2>5. QED
    BY <2>2, <2>3, <2>4
<1>5. QED
  BY <1>3, <1>4

\* A caller that is not in a call may begin its next write.
LEMMA NextWrite ==
    ASSUME DInv, NEW c \in Caller, CanWrite(c)
    PROVE  /\ wrote[c] \in Nat /\ wrote[c] + 1 \in 1..MaxWrites
           /\ <<c, wrote[c] + 1>> \in Write
           /\ Nowhere(<<c, wrote[c] + 1>>)
           /\ told[<<c, wrote[c] + 1>>] = "none"
           /\ Contract!IsNext(<<c, wrote[c] + 1>>)
<1> DEFINE n == wrote[c] + 1
<1>1. /\ wrote[c] \in Nat /\ n \in 1..MaxWrites /\ <<c, n>> \in Write
      /\ call[c].step = "idle"
  BY WriteFacts, BoundAssumption DEF CanWrite, DInv, IInv, TypeOK
<1>2. Nowhere(<<c, n>>) /\ told[<<c, n>>] = "none"
  BY <1>1 DEF DInv, IInv, NotHandedOver, NotToldYet
<1>3. Fate(<<c, n>>) = "ahead"
  <2>1. result[<<c, n>>] = "none"
    BY <1>2 DEF Nowhere
  <2>2. QED
    BY <1>1, <1>2, <2>1, FateFacts DEF DInv
<1>4. \A m \in 1..(n - 1) : <<c, m>> \in Write /\ Known(<<c, m>>) # "none"
  <2>1. \A m \in 1..(n - 1) : m \in 1..MaxWrites
    BY <1>1, BoundAssumption
  <2>2. \A m \in 1..(n - 1) : <<c, m>> \in Write /\ told[<<c, m>>] # "none"
    BY <1>1, <2>1, WriteFacts DEF DInv, FinishedIsTold
  <2>3. QED
    BY <2>2 DEF Known
<1>5. Contract!IsNext(<<c, n>>)
  BY <1>1, <1>3, <1>4 DEF Contract!IsNext
<1>6. QED
  BY <1>1, <1>2, <1>5

\* Beginning a write does not change the fate of another.
LEMMA OthersAhead ==
    ASSUME DInv, NEW c \in Caller, CanWrite(c),
           wrote' = [wrote EXCEPT ![c] = wrote[c] + 1],
           NEW v \in Write, v # <<c, wrote[c] + 1>>
    PROVE  v[2] > wrote'[v[1]] <=> v[2] > wrote[v[1]]
<1>1. /\ v[1] \in Caller /\ v[2] \in 1..MaxWrites
      /\ ~(v[1] = c /\ v[2] = wrote[c] + 1)
  BY NextWrite, WriteParts
<1>2. \A d \in Caller : wrote'[d] = IF d = c THEN wrote[c] + 1 ELSE wrote[d]
  BY DEF DInv, IInv, TypeOK
<1>3. wrote[c] \in Nat
  BY NextWrite
<1>4. QED
  BY <1>1, <1>2, <1>3, BoundAssumption

\* In the cool-down a write is dropped for good (event_store_sync.py 308-312).
LEMMA SkipDelivers ==
    ASSUME DInv, IInv', NEW c \in Caller, Skip(c)
    PROVE  (WaitingIsServed /\ FinishedIsTold)' /\ Contract!Next
<1>0. PICK w : w = <<c, wrote[c] + 1>>
  OBVIOUS
<1>1. /\ CanWrite(c)
      /\ wrote' = [wrote EXCEPT ![c] = wrote[c] + 1]
      /\ told' = [told EXCEPT ![w] = "dropped"]
      /\ UNCHANGED <<events, queue, call, result>>
  BY <1>0 DEF Skip
<1>2. IInv
  BY DEF DInv
<1>3. w \in Write /\ Nowhere(w) /\ told[w] = "none" /\ Contract!IsNext(w)
  BY <1>0, <1>1, NextWrite
<1>4. /\ told'[w] = "dropped"
      /\ \A v \in Write \ {w} : told'[v] = told[v]
      /\ \A d \in Caller : wrote'[d] = IF d = c THEN wrote[c] + 1 ELSE wrote[d]
  BY <1>1, <1>2, <1>3 DEF IInv, TypeOK
<1>5. \A v : Queued(v)' <=> Queued(v)
  BY <1>1 DEF Queued
<1>6. \A v \in Write \ {w} : Fate(v)' = Fate(v) /\ Known(v)' = Known(v)
  <2>1. SUFFICES ASSUME NEW v \in Write, v # w
                 PROVE  Fate(v)' = Fate(v) /\ Known(v)' = Known(v)
    OBVIOUS
  <2>2. v[2] > wrote'[v[1]] <=> v[2] > wrote[v[1]]
    BY <1>0, <1>1, <2>1, OthersAhead
  <2>3. QED
    BY <1>1, <1>2, <1>4, <1>5, <2>1, <2>2, FateKept
<1>7. Fate(w)' = "lost" /\ Known(w)' = "default"
  <2>1. ~Queued(w) /\ result[w] = "none"
    BY <1>3 DEF Nowhere, Queued
  <2>2. Fate(w)' = "lost"
    BY <1>1, <1>3, <1>4, <1>5, <2>1, FateFactsNext
  <2>3. QED
    BY <1>4, <2>2 DEF Known
<1>8. Contract!Drop(w)
  BY <1>1, <1>3, <1>6, <1>7, BecomesFacts DEF Contract!Drop
<1>9. WaitingIsServed'
  BY <1>1, <1>4, <1>5, ServedKept DEF CanWrite
<1>10. FinishedIsTold'
  BY <1>0, <1>1, <1>4, FinishedKept DEF CanWrite
<1>11. QED
  BY <1>3, <1>8, <1>9, <1>10 DEF Contract!Next, Contract!Write, Write

\* A write bound to a worker is on its way (event_store_sync.py 303-313).
LEMMA TakeWorkerDelivers ==
    ASSUME DInv, IInv', NEW c \in Caller, TakeWorker(c)
    PROVE  (WaitingIsServed /\ FinishedIsTold)' /\ Contract!Next
<1>0. PICK w : w = <<c, wrote[c] + 1>>
  OBVIOUS
<1>1. /\ CanWrite(c)
      /\ wrote' = [wrote EXCEPT ![c] = wrote[c] + 1]
      /\ \E g : call' = [call EXCEPT ![c] = [step |-> "submit", gen |-> g]]
      /\ UNCHANGED <<events, queue, result, told>>
  BY DEF TakeWorker
<1>2. IInv
  BY DEF DInv
<1>3. w \in Write /\ Nowhere(w) /\ told[w] = "none" /\ Contract!IsNext(w)
  BY <1>0, <1>1, NextWrite
<1>4. /\ call'[c].step = "submit"
      /\ \A d \in Caller \ {c} : call'[d] = call[d]
      /\ \A d \in Caller : wrote'[d] = IF d = c THEN wrote[c] + 1 ELSE wrote[d]
  BY <1>1, <1>2 DEF IInv, TypeOK
<1>5. \A v : Queued(v)' <=> Queued(v)
  BY <1>1 DEF Queued
<1>6. \A v \in Write \ {w} : Fate(v)' = Fate(v) /\ Known(v)' = Known(v)
  <2>1. SUFFICES ASSUME NEW v \in Write, v # w
                 PROVE  Fate(v)' = Fate(v) /\ Known(v)' = Known(v)
    OBVIOUS
  <2>2. v[2] > wrote'[v[1]] <=> v[2] > wrote[v[1]]
    BY <1>0, <1>1, <2>1, OthersAhead
  <2>3. QED
    BY <1>1, <1>2, <1>5, <2>1, <2>2, FateKept
<1>7. Fate(w)' = "open" /\ Known(w)' = "none" /\ Known(w) = "none"
  <2>1. result'[w] = "none" /\ told'[w] = "none"
    BY <1>1, <1>3 DEF Nowhere
  <2>2. ~(w[2] > wrote'[w[1]])
    BY <1>0, <1>1, <1>4, NextWrite
  <2>3. Fate(w)' = "open"
    BY <1>3, <2>1, <2>2, FateFactsNext
  <2>4. QED
    BY <1>1, <2>1, <2>3 DEF Known
<1>8. Contract!Begin(w)
  BY <1>1, <1>3, <1>6, <1>7, BecomesFacts DEF Contract!Begin
<1>9. WaitingIsServed'
  BY <1>1, <1>4, <1>5, ServedKept
<1>10. FinishedIsTold'
  BY <1>1, <1>4, FinishedKept DEF CanWrite
<1>11. QED
  BY <1>3, <1>8, <1>9, <1>10 DEF Contract!Next, Contract!Write, Write

\* A step that changes no fate and nothing that a caller knows.
LEMMA NothingShows ==
    ASSUME IInv, IInv', UNCHANGED <<events, result, told, wrote>>,
           \A w \in Write : told[w] # "none" => (Queued(w)' <=> Queued(w))
    PROVE  UNCHANGED Contract!vars
<1>1. \A w \in Write : Fate(w)' = Fate(w) /\ Known(w)' = Known(w)
  BY FateKept
<1>2. QED
  BY <1>1 DEF Contract!vars

\* Handing a write over does not show: it was on its way (event_store_sync.py 319-321).
LEMMA SubmitDelivers ==
    ASSUME DInv, IInv', NEW c \in Caller, Submit(c)
    PROVE  (WaitingIsServed /\ FinishedIsTold)' /\ UNCHANGED Contract!vars
<1>0. PICK w : w = Current(c)
  OBVIOUS
<1>1. /\ call[c].step = "submit"
      /\ queue' = [queue EXCEPT ![call[c].gen] = Append(queue[call[c].gen], w)]
      /\ call' = [call EXCEPT ![c].step = "wait"]
      /\ UNCHANGED <<events, wrote, result, told>>
  BY <1>0 DEF Submit
<1>2. IInv
  BY DEF DInv
<1>3. w \in Write /\ call[c].gen \in Gen /\ told[w] = "none"
  BY <1>0, <1>1, <1>2, CurrentFacts
<1>4. \A d \in Caller : call'[d].step = IF d = c THEN "wait" ELSE call[d].step
  BY <1>1, <1>2 DEF IInv, TypeOK, CallState
<1>5. \A v \in Write : Queued(v)' <=> Queued(v) \/ v = w
  BY <1>1, <1>2, <1>3, QueuedAppend
<1>6. UNCHANGED Contract!vars
  BY <1>1, <1>2, <1>3, <1>5, NothingShows
<1>7. WaitingIsServed'
  <2>1. SUFFICES ASSUME NEW d \in Caller, call'[d].step = "wait"
                 PROVE  result'[Current(d)'] # "none" \/ Queued(Current(d))'
    BY DEF WaitingIsServed
  <2>2. PICK v : v = Current(d)
    OBVIOUS
  <2>3. v = Current(d)' /\ (Queued(v)' <=> Queued(Current(d))')
    BY <1>1, <2>2 DEF Current, Queued
  <2>4. CASE d = c
    BY <1>0, <1>3, <1>5, <2>2, <2>3, <2>4
  <2>5. CASE d # c
    <3>1. call[d].step = "wait"
      BY <1>4, <2>1, <2>5
    <3>2. v \in Write
      BY <1>2, <2>2, <3>1, CurrentFacts
    <3>3. result[v] # "none" \/ Queued(v)
      BY <2>2, <3>1 DEF DInv, WaitingIsServed
    <3>4. QED
      BY <1>1, <1>5, <2>3, <3>2, <3>3
  <2>6. QED
    BY <2>4, <2>5
<1>8. FinishedIsTold'
  BY <1>1, <1>4, FinishedKept
<1>9. QED
  BY <1>6, <1>7, <1>8

\* An answer in time tells the caller what has become of its write
\* (event_store_sync.py 348-360).
LEMMA AnsweredDelivers ==
    ASSUME DInv, IInv', NEW c \in Caller, Answered(c)
    PROVE  (WaitingIsServed /\ FinishedIsTold)' /\ Contract!Next
<1>0. PICK w : w = Current(c)
  OBVIOUS
<1>1. /\ call[c].step = "wait" /\ result[w] # "none"
      /\ told' = [told EXCEPT ![w] = Returned(result[w])]
      /\ call' = [call EXCEPT ![c] = NoCall]
      /\ UNCHANGED <<events, queue, wrote, result>>
  BY <1>0 DEF Answered
<1>2. IInv
  BY DEF DInv
<1>3. w \in Write /\ told[w] = "none" /\ w = <<c, wrote[c]>>
  BY <1>0, <1>1, <1>2, CurrentFacts
<1>4. /\ told'[w] = Returned(result[w])
      /\ \A v \in Write \ {w} : told'[v] = told[v]
      /\ \A d \in Caller : call'[d] = IF d = c THEN NoCall ELSE call[d]
  BY <1>1, <1>2, <1>3 DEF IInv, TypeOK
<1>5. \A v : Queued(v)' <=> Queued(v)
  BY <1>1 DEF Queued
<1>6. \A v \in Write \ {w} : Fate(v)' = Fate(v) /\ Known(v)' = Known(v)
  BY <1>1, <1>2, <1>4, <1>5, FateKept
<1>7. Fate(w)' = Fate(w) /\ Known(w) = "none"
  BY <1>1, <1>2, <1>3, FateFacts, FateFactsNext DEF Known
<1>8. \/ Fate(w) = "landed" /\ Known(w)' = "ok"
      \/ Fate(w) = "lost" /\ Known(w)' = "default"
  <2>1. \/ result[w] = "ok" /\ Fate(w) = "landed"
        \/ result[w] \in {"failed", "raised"} /\ Fate(w) = "lost"
    BY <1>1, <1>2, <1>3, FateFacts
  <2>2. QED
    BY <1>4, <2>1 DEF Known, Returned
<1>9. PICK t : t = Known(w)'
  OBVIOUS
<1>10. Contract!IsTold(w, t) /\ UNCHANGED [v \in Write |-> Fate(v)]
  BY <1>3, <1>6, <1>7, <1>9, BecomesFacts
<1>11. Contract!Tell(w)
  BY <1>1, <1>3, <1>7, <1>8, <1>9, <1>10 DEF Contract!Tell
<1>12. WaitingIsServed'
  BY <1>1, <1>4, <1>5, ServedKept DEF NoCall
<1>13. told'[w] # "none"
  BY <1>1, <1>4 DEF Returned
<1>14. FinishedIsTold'
  BY <1>1, <1>3, <1>4, <1>13, FinishedKept
<1>15. QED
  BY <1>3, <1>11, <1>12, <1>14 DEF Contract!Next, Contract!Write, Write

\* At the deadline the caller gives its write up, which is done, or in a queue
\* and may still be done (event_store_sync.py 323-346).
LEMMA TimeoutDelivers ==
    ASSUME DInv, IInv', NEW c \in Caller, Timeout(c)
    PROVE  (WaitingIsServed /\ FinishedIsTold)' /\ Contract!Next
<1>0. PICK w : w = Current(c)
  OBVIOUS
<1>1. /\ call[c].step = "wait"
      /\ told' = [told EXCEPT ![w] = "dropped"]
      /\ call' = [call EXCEPT ![c] = NoCall]
      /\ queue' = IF worker = 0 THEN queue
                  ELSE [queue EXCEPT ![worker] = Append(queue[worker], Stop)]
      /\ UNCHANGED <<events, wrote, result>>
  BY <1>0 DEF Timeout
<1>2. IInv
  BY DEF DInv
<1>3. w \in Write /\ told[w] = "none" /\ w = <<c, wrote[c]>> /\ wrote[c] \in 1..MaxWrites
  BY <1>0, <1>1, <1>2, CurrentFacts
<1>4. /\ told'[w] = "dropped"
      /\ \A v \in Write \ {w} : told'[v] = told[v]
      /\ \A d \in Caller : call'[d] = IF d = c THEN NoCall ELSE call[d]
  BY <1>1, <1>2, <1>3 DEF IInv, TypeOK
<1>5. \A v \in Write : Queued(v)' <=> Queued(v)
  <2>1. CASE worker = 0
    BY <1>1, <2>1 DEF Queued
  <2>2. CASE worker # 0
    <3>1. worker \in Gen
      BY <1>2, <2>2, BoundAssumption DEF IInv, TypeOK, Gen
    <3>2. \A v \in Write : Queued(v)' <=> Queued(v) \/ v = Stop
      BY <1>1, <1>2, <2>2, <3>1, QueuedAppend
    <3>3. QED
      BY <3>2, WriteFacts
  <2>3. QED
    BY <2>1, <2>2
<1>6. \A v \in Write \ {w} : Fate(v)' = Fate(v) /\ Known(v)' = Known(v)
  BY <1>1, <1>2, <1>4, <1>5, FateKept
<1>7. /\ Fate(w) \in {"open", "landed", "lost"} /\ Known(w) = "none"
      /\ Fate(w)' = IF Fate(w) = "open" THEN "late" ELSE Fate(w)
      /\ Known(w)' = "default"
  <2>1. result[w] # "none" \/ Queued(w)
    BY <1>0, <1>1 DEF DInv, WaitingIsServed
  <2>2. CASE result[w] = "none"
    <3>1. ~(w[2] > wrote[w[1]])
      BY <1>3, BoundAssumption
    <3>2. Fate(w) = "open" /\ Fate(w)' = "late"
      BY <1>1, <1>2, <1>3, <1>4, <1>5, <2>1, <2>2, <3>1, FateFacts, FateFactsNext
    <3>3. QED
      BY <1>3, <1>4, <3>2 DEF Known
  <2>3. CASE result[w] # "none"
    <3>1. Fate(w)' = Fate(w) /\ Fate(w) \in {"landed", "lost"}
      BY <1>1, <1>2, <1>3, <2>3, FateFacts, FateFactsNext
    <3>2. QED
      BY <1>3, <1>4, <3>1 DEF Known
  <2>4. QED
    BY <2>2, <2>3
<1>8. PICK f : f = Fate(w)'
  OBVIOUS
<1>9. Contract!Becomes(w, f) /\ Contract!IsTold(w, "default")
  BY <1>3, <1>6, <1>7, <1>8, BecomesFacts
<1>10. Contract!GiveUp(w)
  BY <1>1, <1>3, <1>7, <1>8, <1>9 DEF Contract!GiveUp
<1>11. WaitingIsServed'
  BY <1>1, <1>4, <1>5, ServedKept DEF NoCall
<1>12. FinishedIsTold'
  BY <1>1, <1>3, <1>4, FinishedKept
<1>13. QED
  BY <1>3, <1>10, <1>11, <1>12 DEF Contract!Next, Contract!Write, Write

\* Taking a job, or the stop, does not show (event_store_sync.py 245-250).
LEMMA NextJobDelivers ==
    ASSUME DInv, IInv', NEW g \in Gen, NextJob(g)
    PROVE  (WaitingIsServed /\ FinishedIsTold)' /\ UNCHANGED Contract!vars
<1>1. /\ queue[g] # <<>>
      /\ UNCHANGED <<events, call, wrote, result, told>>
  BY DEF NextJob
<1>2. IInv
  BY DEF DInv
<1>3. \A v \in Write : Queued(v)' <=> Queued(v)
  <2>1. CASE queue' = queue
    BY <2>1 DEF Queued
  <2>2. CASE Head(queue[g]) = Stop /\ queue' = [queue EXCEPT ![g] = Tail(queue[g])]
    <3>1. queue[g][1] = Stop
      BY <1>1, <1>2, <2>2, TailFacts DEF IInv, TypeOK
    <3>2. QED
      BY <1>1, <1>2, <2>2, <3>1, QueuedTail, WriteFacts
  <2>3. QED
    BY <2>1, <2>2 DEF NextJob
<1>4. UNCHANGED Contract!vars
  BY <1>1, <1>2, <1>3, NothingShows
<1>5. WaitingIsServed'
  BY <1>1, <1>3, ServedKept
<1>6. FinishedIsTold'
  BY <1>1, FinishedKept
<1>7. QED
  BY <1>4, <1>5, <1>6

\* A write that is done with lands or is lost, whether its caller still waits
\* or not (event_store_sync.py 245-261, 518-539).
LEMMA JobDoneDelivers ==
    ASSUME DInv, IInv', NEW g \in Gen, Commit(g) \/ Fail(g)
    PROVE  (WaitingIsServed /\ FinishedIsTold)' /\ Contract!Next
<1>0. PICK w : w = Head(queue[g])
  OBVIOUS
<1>1. /\ thread[g] = "writing"
      /\ queue' = [queue EXCEPT ![g] = Tail(queue[g])]
      /\ UNCHANGED <<call, wrote, told>>
      /\ \/ events' = Append(events, w) /\ result' = [result EXCEPT ![w] = "ok"]
         \/ /\ events' = events
            /\ \E r \in {"failed", "raised"} : result' = [result EXCEPT ![w] = r]
  BY <1>0 DEF Commit, Fail
<1>2. IInv
  BY DEF DInv
<1>3. /\ queue[g] # <<>> /\ queue[g][1] # Stop
      /\ queue[g] \in Seq(Write \cup {Stop})
  BY <1>1, <1>2 DEF IInv, ThreadsHaveJobs, TypeOK
<1>4. 1 \in 1..Len(queue[g]) /\ w = queue[g][1] /\ w \in Write
  <2>1. Head(queue[g]) = queue[g][1] /\ Len(queue[g]) \in Nat \ {0}
    BY <1>3, TailFacts
  <2>2. 1 \in 1..Len(queue[g])
    BY <2>1
  <2>3. queue[g][1] \in Write \cup {Stop}
    BY <1>3, <2>2, ElementOfSeq
  <2>4. QED
    BY <1>0, <1>3, <2>1, <2>2, <2>3
<1>5. result[w] = "none" /\ Queued(w)
  BY <1>2, <1>3, <1>4 DEF IInv, QueuedIsOpen, Queued
<1>6. ~(w[2] > wrote[w[1]])
  <2>1. w[1] \in Caller /\ w[2] \in 1..MaxWrites /\ w = <<w[1], w[2]>>
    BY <1>4, WriteParts
  <2>2. ~Nowhere(<<w[1], w[2]>>)
    BY <1>4, <2>1 DEF Nowhere
  <2>3. QED
    BY <1>2, <2>1, <2>2 DEF IInv, NotHandedOver
<1>7. Fate(w) \in {"open", "late"}
  BY <1>2, <1>4, <1>5, <1>6, FateFacts
<1>8. /\ \A v \in Write \ {w} : result'[v] = result[v]
      /\ \/ events' = Append(events, w) /\ result'[w] = "ok"
         \/ events' = events /\ result'[w] \in {"failed", "raised"}
  BY <1>1, <1>2, <1>4 DEF IInv, TypeOK
<1>9. \A v \in Write : Queued(v)' <=> Queued(v) /\ v # w
  BY <1>1, <1>2, <1>3, <1>4, QueuedTail
<1>10. /\ \A v \in Write \ {w} : Fate(v)' = Fate(v) /\ Known(v)' = Known(v)
       /\ Known(w)' = Known(w)
  <2>1. \A v \in Write \ {w} : Fate(v)' = Fate(v) /\ Known(v)' = Known(v)
    BY <1>1, <1>2, <1>8, <1>9, FateKept
  <2>2. Known(w)' = Known(w)
    BY <1>1 DEF Known
  <2>3. QED
    BY <2>1, <2>2
<1>11. ASSUME events' = Append(events, w), result'[w] = "ok"
       PROVE  Contract!Land(w)
  <2>1. Fate(w)' = "landed"
    BY <1>4, <1>11, FateFactsNext
  <2>2. PICK t : t = Known(w)'
    OBVIOUS
  <2>3. /\ Contract!Becomes(w, "landed")
        /\ UNCHANGED [v \in Write |-> Known(v)]
    BY <1>4, <1>10, <2>1, <2>2, BecomesFacts
  <2>4. QED
    BY <1>4, <1>7, <1>11, <2>3 DEF Contract!Land
<1>12. ASSUME events' = events, result'[w] \in {"failed", "raised"}
       PROVE  Contract!Lose(w)
  <2>1. Fate(w)' = "lost"
    BY <1>4, <1>12, FateFactsNext
  <2>2. PICK t : t = Known(w)'
    OBVIOUS
  <2>3. /\ Contract!Becomes(w, "lost")
        /\ UNCHANGED [v \in Write |-> Known(v)]
    BY <1>4, <1>10, <2>1, <2>2, BecomesFacts
  <2>4. QED
    BY <1>4, <1>7, <1>12, <2>3 DEF Contract!Lose
<1>13. Contract!Next
  BY <1>4, <1>8, <1>11, <1>12 DEF Contract!Next, Contract!Write, Write
<1>14. WaitingIsServed'
  BY <1>1, <1>8, <1>9, ServedKept
<1>15. FinishedIsTold'
  BY <1>1, FinishedKept
<1>16. QED
  BY <1>13, <1>14, <1>15

\* The end of the cool-down does not show.
LEMMA CooldownDelivers ==
    ASSUME DInv, IInv', CooldownEnds \/ UNCHANGED vars
    PROVE  (WaitingIsServed /\ FinishedIsTold)' /\ UNCHANGED Contract!vars
<1>1. UNCHANGED <<events, queue, call, wrote, result, told>>
  BY DEF CooldownEnds, vars
<1>2. \A v : Queued(v)' <=> Queued(v)
  BY <1>1 DEF Queued
<1>3. UNCHANGED Contract!vars
  BY <1>1, <1>2, NothingShows DEF DInv
<1>4. WaitingIsServed'
  BY <1>1, <1>2, ServedKept
<1>5. FinishedIsTold'
  BY <1>1, FinishedKept
<1>6. QED
  BY <1>3, <1>4, <1>5

\* Every step of the writer is one of Delivery, or does not show.
LEMMA StepDelivers ==
    DInv /\ [Next]_vars => DInv' /\ [Contract!Next]_(Contract!vars)
<1>1. SUFFICES ASSUME DInv, [Next]_vars
               PROVE  DInv' /\ [Contract!Next]_(Contract!vars)
  OBVIOUS
<1>2. IInv'
  BY <1>1, NextInv DEF DInv
<1>3. SUFFICES /\ (WaitingIsServed /\ FinishedIsTold)'
               /\ Contract!Next \/ UNCHANGED Contract!vars
  BY <1>2 DEF DInv
<1>4. CASE \E c \in Caller : CallerStep(c)
  <2>1. PICK c \in Caller : CallerStep(c)
    BY <1>4
  <2>2. QED
    BY <1>1, <1>2, <2>1, SkipDelivers, TakeWorkerDelivers, SubmitDelivers,
       AnsweredDelivers, TimeoutDelivers DEF CallerStep
<1>5. CASE \E g \in Gen : WorkerStep(g)
  <2>1. PICK g \in Gen : WorkerStep(g)
    BY <1>5
  <2>2. QED
    BY <1>1, <1>2, <2>1, NextJobDelivers, JobDoneDelivers DEF WorkerStep
<1>6. CASE CooldownEnds \/ UNCHANGED vars
  BY <1>1, <1>2, <1>6, CooldownDelivers
<1>7. QED
  BY <1>1, <1>4, <1>5, <1>6 DEF Next

\* The first state is the first state of Delivery.
LEMMA InitDelivers == Init => DInv /\ Contract!Init
<1>1. SUFFICES ASSUME Init PROVE DInv /\ Contract!Init
  OBVIOUS
<1>2. IInv
  BY <1>1, InitInv
<1>3. /\ events = <<>>
      /\ \A c \in Caller : call[c].step = "idle" /\ wrote[c] = 0
      /\ \A w \in Write : result[w] = "none" /\ told[w] = "none"
  BY <1>1 DEF Init, NoCall
<1>4. WaitingIsServed /\ FinishedIsTold
  BY <1>3, BoundAssumption DEF WaitingIsServed, FinishedIsTold
<1>5. \A w \in Write : Fate(w) = "ahead" /\ Known(w) = "none"
  <2>1. \A w \in Write : w[1] \in Caller /\ w[2] > 0
    BY BoundAssumption DEF Write
  <2>2. QED
    BY <1>2, <1>3, <2>1, FateFacts DEF Known
<1>6. Contract!Init
  BY <1>3, <1>5 DEF Contract!Init, Contract!Write, Write
<1>7. QED
  BY <1>2, <1>4, <1>6 DEF DInv

\* Threads, queues and deadlines do not show: for any number of callers and of
\* worker threads, what becomes of the writes and what their callers are told
\* is as Delivery says (event_store_sync.py 202-213, 296-364).
THEOREM Refinement == Spec => ImplementsDelivery
<1>1. Init => DInv /\ Contract!Init
  BY InitDelivers
<1>2. DInv /\ [Next]_vars => DInv' /\ [Contract!Next]_(Contract!vars)
  BY StepDelivers
<1>3. QED
  BY <1>1, <1>2, PTL DEF Spec, ImplementsDelivery, Contract!Spec
=============================================================================
