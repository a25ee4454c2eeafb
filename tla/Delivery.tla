------------------------------ MODULE Delivery -------------------------------
(***************************************************************************)
(* What a tool may rely on when it writes to the event log                 *)
(* (workflow/event_store_sync.py): no queues, threads or deadlines, only    *)
(* what becomes of each write and what its caller is told.                  *)
(*                                                                         *)
(* A write lands in the table once or never.  Its caller is told "ok", the  *)
(* sequence number, only if it has landed.  "default" says nothing: the     *)
(* write may have landed, may land later, behind younger ones, or never.    *)
(***************************************************************************)
EXTENDS Naturals, Sequences

CONSTANTS
    Caller,      \* tool threads
    MaxWrites    \* bound: writes of one caller

VARIABLES
    table,       \* the writes in the order of their sequence numbers
    fate,        \* fate[w]: "ahead", "open", "late", "landed" or "lost"
    told         \* told[w]: "none", "ok" or "default"

vars == <<table, fate, told>>

Write == Caller \X (1..MaxWrites)

Init ==
    /\ table = <<>>
    /\ fate = [w \in Write |-> "ahead"]
    /\ told = [w \in Write |-> "none"]

\* A caller's next write: it has been told of every earlier one.
IsNext(w) ==
    /\ fate[w] = "ahead"
    /\ \A n \in 1..(w[2] - 1) : told[<<w[1], n>>] # "none"

Becomes(w, f) == fate' = [fate EXCEPT ![w] = f]
IsTold(w, t) == told' = [told EXCEPT ![w] = t]

\* The write is on its way, and its caller waits.
Begin(w) == IsNext(w) /\ Becomes(w, "open") /\ UNCHANGED <<table, told>>

\* The write is dropped at once, for good.
Drop(w) == IsNext(w) /\ Becomes(w, "lost") /\ IsTold(w, "default") /\ UNCHANGED table

\* The event is stored under the next sequence number, whoever still waits.
Land(w) ==
    /\ fate[w] \in {"open", "late"}
    /\ table' = Append(table, w)
    /\ Becomes(w, "landed")
    /\ UNCHANGED told

\* The event will never be stored.
Lose(w) ==
    /\ fate[w] \in {"open", "late"}
    /\ Becomes(w, "lost")
    /\ UNCHANGED <<table, told>>

\* The caller is told what has become of its write.
Tell(w) ==
    /\ told[w] = "none"
    /\ \/ fate[w] = "landed" /\ IsTold(w, "ok")
       \/ fate[w] = "lost" /\ IsTold(w, "default")
    /\ UNCHANGED <<table, fate>>

\* The caller gives the write up and does not learn what becomes of it.
GiveUp(w) ==
    /\ told[w] = "none"
    /\ fate[w] \in {"open", "landed", "lost"}
    /\ Becomes(w, IF fate[w] = "open" THEN "late" ELSE fate[w])
    /\ IsTold(w, "default")
    /\ UNCHANGED table

Next == \E w \in Write :
    Begin(w) \/ Drop(w) \/ Land(w) \/ Lose(w) \/ Tell(w) \/ GiveUp(w)

Spec == Init /\ [][Next]_vars
=============================================================================
