----------------------------- MODULE Hydration -----------------------------
(* Datasets of a mini app view, from the server's store to the rows a chart  *)
(* is drawn from.  The server answers a request with a payload that carries  *)
(* descriptors (a preview of the rows and a continuation token) and revision *)
(* labels; the browser merges the payload into its view and starts, for each *)
(* dataset whose (revision, row count) changed, a loop that fetches the rest *)
(* of the rows page by page.  Payloads may be delayed, overtaken, delivered  *)
(* twice or lost, and a fetch may fail.                                      *)
(*                                                                           *)
(* A row is the revision that introduced it: the contents of a revision are  *)
(* a sequence of such numbers, so rows of two replacements of a dataset can  *)
(* be told apart and an appended revision shares the rows of its base.       *)
EXTENDS Naturals, Sequences, FiniteSets

CONSTANTS
    Keys,          \* the datasets of the view
    RowCap,        \* RowCap[k]: the row cap of dataset k
    KindsOf,       \* KindsOf[k]: the requests that replace dataset k
    PreviewLimit,  \* rows a descriptor carries
    PageSize,      \* the most rows of a page
    EveryPage,     \* publish policy: every page, or each doubling
    InitRows,      \* rows of each dataset when the view opens
    MaxRows,       \* bound: rows of a dataset
    MaxRequests,   \* bound: requests the user makes
    MaxFaults,     \* bound: lost and repeated payloads, failed fetches
    Unknown        \* a goal no contents are equal to

ASSUME HydrationAssumption ==
    /\ RowCap \in [Keys -> Nat \ {0}]
    /\ KindsOf \in [Keys -> SUBSET {"load", "append", "attach"}]
    /\ PreviewLimit \in Nat
    /\ PageSize \in Nat \ {0}
    /\ EveryPage \in BOOLEAN
    /\ InitRows \in Nat
    /\ MaxRows \in Nat
    /\ MaxRequests \in Nat
    /\ MaxFaults \in Nat
    /\ Unknown \notin [rev : Nat, rows : Seq(Nat)]

VARIABLES
    hist,     \* hist[k]: the contents of every revision of k, oldest first
    newest,   \* newest[k]: request_revisions of the channel that loads k
    tasks,    \* requests the server has not answered
    replies,  \* payloads on their way to the browser
    view,     \* the browser's view: descriptor and label of each dataset
    reg,      \* loopsRef: the registered loop of each dataset
    loops,    \* hydration loops that await a page
    out,      \* what the consumer of each dataset sees
    sent,     \* requests made
    faults    \* faults so far

vars == <<hist, newest, tasks, replies, view, reg, loops, out, sent, faults>>

---------------------------------------------------------------------------
(* Helpers *)

Least(m, n) == IF m < n THEN m ELSE n
Most(m, n) == IF m < n THEN n ELSE m

Prefix(s, n) == SubSeq(s, 1, Least(n, Len(s)))

IsPrefixOf(s, t) == /\ Len(s) <= Len(t)
                    /\ \A i \in 1 .. Len(s) : s[i] = t[i]

(* n rows introduced by revision r. *)
Fresh(r, n) == [i \in 1 .. n |-> r]

(* dataset_revisions[k]: the label of the current contents. *)
Revision(k) == Len(hist[k])
Contents(k) == hist[k][Len(hist[k])]

(* A descriptor of rows c with a preview of `limit` rows, under label r.     *)
(* Its page token is Len(rows), and absent once the preview is everything.   *)
(* own: rows and label were read together (only the properties read it).     *)
Descriptor(c, limit, r, o) ==
    [rows |-> Prefix(c, limit), total |-> Len(c), rev |-> r, own |-> o]

Descriptors == [rows : Seq(Nat), total : Nat, rev : Nat \ {0}, own : BOOLEAN]

\* Faulty: the labels are read before the commit bumps them.
SnapshotOldLabels == [kind |-> "initial",
             desc |-> [k \in Keys |->
                 Descriptor(Contents(k), PreviewLimit, Revision(k) - 1, TRUE)]]

(* The payload of build_payload: every dataset of one snapshot of the view. *)
Snapshot == [kind |-> "initial",
             desc |-> [k \in Keys |->
                 Descriptor(Contents(k), PreviewLimit, Revision(k), TRUE)]]

---------------------------------------------------------------------------
(* The server *)

Kinds == {"load", "append", "attach"}

Task(i, kind, k) == [id |-> i, kind |-> kind, key |-> k, st |-> "sent",
                     rev |-> 0, base |-> 0]

Tasks == [id : Nat \ {0}, kind : Kinds, key : Keys,
          st : {"sent", "running", "done"}, rev : Nat, base : Nat]

Without(t) == tasks \ {t}

(* The browser calls a tool: a load or an append carries the next request   *)
(* id, a group load (attach) is additive and carries none.                  *)
Request(kind, k) ==
    /\ kind \in KindsOf[k]
    /\ sent < MaxRequests
    /\ sent' = sent + 1
    /\ tasks' = tasks \cup {Task(sent + 1, kind, k)}
    /\ UNCHANGED <<hist, newest, replies, view, reg, loops, out, faults>>

(* reserve_view_request: newest wins.  A request older than the newest one   *)
(* is answered with the view as it is.                                       *)
Reserve(t) ==
    /\ t.st = "sent" /\ t.kind # "attach"
    /\ IF t.id < newest[t.key]
       THEN /\ tasks' = Without(t)
            /\ replies' = replies \cup {Snapshot}
            /\ UNCHANGED newest
       ELSE /\ tasks' = Without(t) \cup {[t EXCEPT !.st = "running"]}
            /\ newest' = [newest EXCEPT ![t.key] = t.id]
            /\ UNCHANGED replies
    /\ UNCHANGED <<hist, view, reg, loops, out, sent, faults>>

(* The contents a task may commit: the queried rows, or the rows of the      *)
(* current revision and the rows of one more scan.  Either may be no rows:   *)
(* an empty query, the stub of a failed one, a scan that found nothing new.  *)
Outcomes(t) ==
    LET r == Revision(t.key) + 1 IN
    IF t.kind = "append"
    THEN {Contents(t.key) \o Fresh(r, n) :
            n \in 0 .. (MaxRows - Len(Contents(t.key)))}
    ELSE {Fresh(r, n) : n \in 0 .. MaxRows}

(* commit_view_update (attach_dataset for a group): the newest-wins check is *)
(* repeated, the dataset is replaced and its revision grows by one.          *)
Commit(t) ==
    /\ \/ t.st = "running"
       \/ t.st = "sent" /\ t.kind = "attach"
    /\ IF t.kind # "attach" /\ t.id < newest[t.key]
       THEN /\ tasks' = Without(t)
            /\ replies' = replies \cup {Snapshot}
            /\ UNCHANGED hist
       ELSE /\ \E c \in Outcomes(t) :
                hist' = [hist EXCEPT ![t.key] = Append(@, c)]
            /\ tasks' = Without(t) \cup
                {[t EXCEPT !.st = "done", !.base = Revision(t.key),
                           !.rev = Revision(t.key) + 1]}
            /\ UNCHANGED replies
    /\ UNCHANGED <<newest, view, reg, loops, out, sent, faults>>

(* The rows an append added to its base. *)
Added(t) == SubSeq(hist[t.key][t.rev], Len(hist[t.key][t.base]) + 1,
                   Len(hist[t.key][t.rev]))

(* build_dataset_append_patch: the added rows, a fallback of the current     *)
(* contents without preview, and the labels of ALL datasets of the view.     *)
DeltaOf(t) ==
    [kind |-> "delta", key |-> t.key, base |-> t.base,
     baseRows |-> Len(hist[t.key][t.base]), rows |-> Added(t),
     fallback |-> Descriptor(Contents(t.key), 0, Revision(t.key), TRUE),
     revs |-> [k \in Keys |-> Revision(k)],
     own |-> Revision(t.key) = t.rev]

(* The group patch: the descriptor of the rows the task loaded, under the    *)
(* label that is current when the patch is built.                            *)
PatchOf(t) ==
    [kind |-> "patch", key |-> t.key,
     desc |-> Descriptor(hist[t.key][t.rev], PreviewLimit, Revision(t.key),
                         Revision(t.key) = t.rev)]

(* The reply is built after the commit, from a later snapshot of the view.   *)
Answer(t) ==
    /\ t.st = "done"
    /\ tasks' = Without(t)
    /\ replies' = replies \cup
        {CASE t.kind = "load" -> Snapshot
           [] t.kind = "append" -> DeltaOf(t)
           [] t.kind = "attach" -> PatchOf(t)}
    /\ UNCHANGED <<hist, newest, view, reg, loops, out, sent, faults>>

---------------------------------------------------------------------------
(* The browser's view *)

\* Faulty: any base with as many rows will do.
CanAppendByCount(v, m) == Len(v[m.key].rows) = m.baseRows

(* applyMiniAppPatch for one delta.  The patch is ignored as a whole when    *)
(* its target is no newer.  Otherwise the rows are appended only to exactly  *)
(* the base they extend; else the fallback starts from row zero.  The labels *)
(* of all datasets grow to those of the patch.                               *)
CanAppend(v, m) == /\ v[m.key].rev = m.base
                   /\ Len(v[m.key].rows) = m.baseRows

Appended(v, m) == v[m.key].rows \o m.rows

Extended(v, m) ==
    IF CanAppend(v, m) /\ Len(Appended(v, m)) = m.fallback.total
    THEN [m.fallback EXCEPT !.rows = Appended(v, m),
                            !.own = m.own /\ v[m.key].own]
    ELSE m.fallback

Relabelled(d, r) == IF r <= d.rev THEN d ELSE [d EXCEPT !.rev = r, !.own = FALSE]

\* Faulty: a delta is applied however old its target is.
ApplyDeltaAlways(v, m) ==
    [k \in Keys |-> IF k = m.key THEN Extended(v, m)
                    ELSE Relabelled(v[k], m.revs[k])]

ApplyDelta(v, m) ==
    IF m.revs[m.key] <= v[m.key].rev THEN v
    ELSE [k \in Keys |-> IF k = m.key THEN Extended(v, m)
                         ELSE Relabelled(v[k], m.revs[k])]

(* applyPayload: INITIAL_LOAD replaces the view, a patch its own datasets. *)
Apply(v, m) ==
    CASE m.kind = "initial" -> m.desc
      [] m.kind = "patch" -> [v EXCEPT ![m.key] = m.desc]
      [] m.kind = "delta" -> ApplyDelta(v, m)

Deliver(m) ==
    /\ view' = Apply(view, m)
    /\ replies' = replies \ {m}
    /\ UNCHANGED <<hist, newest, tasks, reg, loops, out, sent, faults>>

(* A tool result that also arrives as a notification is applied twice. *)
DeliverTwice(m) ==
    /\ faults < MaxFaults
    /\ faults' = faults + 1
    /\ view' = Apply(view, m)
    /\ UNCHANGED <<hist, newest, tasks, replies, reg, loops, out, sent>>

Lose(m) ==
    /\ faults < MaxFaults
    /\ faults' = faults + 1
    /\ replies' = replies \ {m}
    /\ UNCHANGED <<hist, newest, tasks, view, reg, loops, out, sent>>

---------------------------------------------------------------------------
(* useHydratedDatasets *)

NotHydrated == [rows |-> <<>>, phase |-> "none", truncated |-> FALSE]

Phases == {"none", "loading", "complete", "failed"}
Shown == [rows : Seq(Nat), phase : Phases, truncated : BOOLEAN]

NotRegistered == [rev |-> 0, total |-> 0, own |-> FALSE]
Registered == [rev : Nat, total : Nat, own : BOOLEAN]

NoPage == [ok |-> FALSE, rows |-> <<>>, total |-> 0, more |-> FALSE]
Pages == [ok : BOOLEAN, rows : Seq(Nat), total : Nat, more : BOOLEAN]

(* A loop: the rows accumulated, the row count at its last publication (0    *)
(* before the first), and the page it awaits or has been given.  live: its   *)
(* token is the registered object; a restart registers another one for good. *)
Loop(d) == [live |-> TRUE, rev |-> d.rev, own |-> d.own, acc |-> d.rows,
            pub |-> 0, st |-> "asked", page |-> NoPage]
Loops == [live : BOOLEAN, rev : Nat \ {0}, own : BOOLEAN, acc : Seq(Nat),
          pub : Nat, st : {"asked", "answered"}, page : Pages]

Orphaned(ls) == {[l EXCEPT !.live = FALSE] : l \in ls}

Changed(k) == <<reg[k].rev, reg[k].total>> # <<view[k].rev, view[k].total>>

CanHydrate(k) == /\ Len(view[k].rows) < view[k].total
                 /\ Len(view[k].rows) < RowCap[k]

(* What a dataset shows right after it is (re)started from its preview. *)
Restarted(k) ==
    [rows |-> view[k].rows,
     phase |-> IF CanHydrate(k) THEN "loading" ELSE "complete",
     truncated |-> /\ Len(view[k].rows) < view[k].total
                   /\ Len(view[k].rows) >= RowCap[k]]

(* The effect runs after a render, so once for all payloads merged since the *)
(* last one.  A dataset with the same label and row count keeps its rows and *)
(* its loop; any other is restarted and its old loop is orphaned.            *)
Hydrate ==
    /\ \E k \in Keys : Changed(k)
    /\ reg' = [k \in Keys |->
        IF Changed(k) THEN [rev |-> view[k].rev, total |-> view[k].total,
                            own |-> view[k].own]
        ELSE reg[k]]
    /\ out' = [k \in Keys |-> IF Changed(k) THEN Restarted(k) ELSE out[k]]
    /\ loops' = [k \in Keys |->
        IF ~Changed(k) THEN loops[k]
        ELSE Orphaned(loops[k]) \cup
             (IF CanHydrate(k) THEN {Loop(view[k])} ELSE {})]
    /\ UNCHANGED <<hist, newest, tasks, replies, view, sent, faults>>

\* Faulty: the last row of a page is the first of the next one.
PageFromLastRow(k, l, n) ==
    LET end == Len(l.acc) + n IN
    [ok |-> TRUE, rows |-> SubSeq(Contents(k), Most(1, Len(l.acc)), end - 1),
     total |-> Len(Contents(k)), more |-> end < Len(Contents(k))]

(* get_view_dataset_page: refused unless the requested revision is current;  *)
(* the bytes of a page decide how many rows it holds, at least one.          *)
PageOf(k, l, n) ==
    LET end == Len(l.acc) + n IN
    [ok |-> TRUE, rows |-> SubSeq(Contents(k), Len(l.acc) + 1, end),
     total |-> Len(Contents(k)), more |-> end < Len(Contents(k))]

PageLimit(k, l) == Least(Least(PageSize, RowCap[k] - Len(l.acc)),
                         Len(Contents(k)) - Len(l.acc))

Given(l, page) == [l EXCEPT !.st = "answered", !.page = page]

\* Faulty: the page is served whatever revision was asked for.
RefusedByOffset(k, l) == Len(l.acc) > Len(Contents(k))

Refused(k, l) == l.rev # Revision(k) \/ Len(l.acc) > Len(Contents(k))

Serve(k, l) ==
    /\ l.st = "asked"
    /\ \E page \in IF Refused(k, l) THEN {NoPage}
                   ELSE {PageOf(k, l, n) : n \in Least(1, PageLimit(k, l)) .. PageLimit(k, l)} :
        loops' = [loops EXCEPT ![k] = (@ \ {l}) \cup {Given(l, page)}]
    /\ UNCHANGED <<hist, newest, tasks, replies, view, reg, out, sent, faults>>

(* fetchRows returns null when the call throws. *)
FetchFails(k, l) ==
    /\ l.st = "asked"
    /\ faults < MaxFaults
    /\ faults' = faults + 1
    /\ loops' = [loops EXCEPT ![k] = (@ \ {l}) \cup {Given(l, NoPage)}]
    /\ UNCHANGED <<hist, newest, tasks, replies, view, reg, out, sent>>

\* Faulty: a loop never notices that it was orphaned.
StaleNever(l) == FALSE

Stale(l) == ~l.live

Sum(l) == l.acc \o l.page.rows

(* A page that ends the load in an error: none came, more rows than were     *)
(* promised, a token that does not move, or the end below the promised total. *)
Broken(k, l) ==
    \/ ~l.page.ok
    \/ l.page.total < Len(Sum(l))
    \/ l.page.more /\ l.page.rows = <<>>
    \/ ~l.page.more /\ Len(Sum(l)) < l.page.total /\ Len(Sum(l)) < RowCap[k]

GoesOn(k, l) == l.page.more /\ Len(Sum(l)) < RowCap[k]

Publishes(l) == EveryPage \/ l.pub = 0 \/ Len(Sum(l)) >= 2 * l.pub

Asking(l) == [l EXCEPT !.acc = Sum(l), !.st = "asked", !.page = NoPage,
                       !.pub = IF Publishes(l) THEN Most(1, Len(Sum(l))) ELSE @]

(* The loop resumes with the page.  An orphaned loop returns silently. *)
ResumeStale(k, l) ==
    /\ l.st = "answered" /\ Stale(l)
    /\ loops' = [loops EXCEPT ![k] = @ \ {l}]
    /\ UNCHANGED <<hist, newest, tasks, replies, view, reg, out, sent, faults>>

\* Faulty: without a page the loop returns as an orphaned one does.
ResumeBrokenSilently(k, l) ==
    /\ l.st = "answered" /\ ~Stale(l) /\ Broken(k, l)
    /\ loops' = [loops EXCEPT ![k] = @ \ {l}]
    /\ UNCHANGED <<hist, newest, tasks, replies, view, reg, out, sent, faults>>

ResumeBroken(k, l) ==
    /\ l.st = "answered" /\ ~Stale(l) /\ Broken(k, l)
    /\ loops' = [loops EXCEPT ![k] = @ \ {l}]
    /\ out' = [out EXCEPT ![k] =
        [rows |-> IF l.page.ok THEN Sum(l) ELSE l.acc,
         phase |-> "failed", truncated |-> FALSE]]
    /\ UNCHANGED <<hist, newest, tasks, replies, view, reg, sent, faults>>

ResumeOn(k, l) ==
    /\ l.st = "answered" /\ ~Stale(l) /\ ~Broken(k, l) /\ GoesOn(k, l)
    /\ loops' = [loops EXCEPT ![k] = (@ \ {l}) \cup {Asking(l)}]
    /\ out' = IF Publishes(l)
              THEN [out EXCEPT ![k].rows = Sum(l), ![k].phase = "loading"]
              ELSE out
    /\ UNCHANGED <<hist, newest, tasks, replies, view, reg, sent, faults>>

ResumeDone(k, l) ==
    /\ l.st = "answered" /\ ~Stale(l) /\ ~Broken(k, l) /\ ~GoesOn(k, l)
    /\ loops' = [loops EXCEPT ![k] = @ \ {l}]
    /\ out' = [out EXCEPT ![k] =
        [rows |-> Sum(l), phase |-> "complete",
         truncated |-> /\ Len(Sum(l)) >= RowCap[k]
                       /\ l.page.more \/ Len(Sum(l)) < l.page.total]]
    /\ UNCHANGED <<hist, newest, tasks, replies, view, reg, sent, faults>>

---------------------------------------------------------------------------

Opened(k) == Fresh(1, InitRows)

Init ==
    /\ hist = [k \in Keys |-> <<Opened(k)>>]
    /\ newest = [k \in Keys |-> 0]
    /\ tasks = {}
    /\ replies = {}
    /\ view = [k \in Keys |-> Descriptor(Opened(k), PreviewLimit, 1, TRUE)]
    /\ reg = [k \in Keys |-> NotRegistered]
    /\ loops = [k \in Keys |-> {}]
    /\ out = [k \in Keys |-> NotHydrated]
    /\ sent = 0
    /\ faults = 0

ServerStep == \E t \in tasks : Reserve(t) \/ Commit(t) \/ Answer(t)

LoopStep(k, l) == \/ Serve(k, l) \/ FetchFails(k, l)
                  \/ ResumeStale(k, l) \/ ResumeBroken(k, l)
                  \/ ResumeOn(k, l) \/ ResumeDone(k, l)

Next ==
    \/ \E k \in Keys, kind \in Kinds : Request(kind, k)
    \/ ServerStep
    \/ \E m \in replies : Deliver(m) \/ DeliverTwice(m) \/ Lose(m)
    \/ Hydrate
    \/ \E k \in Keys : \E l \in loops[k] : LoopStep(k, l)

Spec == Init /\ [][Next]_vars

(* A page is answered and its loop resumed; the effect runs after a render. *)
PageAnswered(k) == \E l \in loops[k] : Serve(k, l)
Resumes(k) == \E l \in loops[k] :
    \/ ResumeStale(k, l) \/ ResumeBroken(k, l)
    \/ ResumeOn(k, l) \/ ResumeDone(k, l)

Fairness == /\ WF_vars(Hydrate)
            /\ \A k \in Keys : WF_vars(PageAnswered(k)) /\ WF_vars(Resumes(k))

FairSpec == Spec /\ Fairness
---------------------------------------------------------------------------
(* Properties *)

Payloads ==
    [kind : {"initial"}, desc : [Keys -> Descriptors]]
    \cup [kind : {"patch"}, key : Keys, desc : Descriptors]
    \cup [kind : {"delta"}, key : Keys, base : Nat, baseRows : Nat,
          rows : Seq(Nat), fallback : Descriptors, revs : [Keys -> Nat],
          own : BOOLEAN]

(* Types of the store, the payloads, the view and the hydration state. *)
TypeOK ==
    /\ hist \in [Keys -> Seq(Seq(Nat))]
    /\ newest \in [Keys -> Nat]
    /\ tasks \subseteq Tasks
    /\ replies \subseteq Payloads
    /\ view \in [Keys -> Descriptors]
    /\ reg \in [Keys -> Registered]
    /\ loops \in [Keys -> SUBSET Loops]
    /\ out \in [Keys -> Shown]
    /\ sent \in Nat
    /\ faults \in Nat

(* A dataset restarted from a descriptor and a label that were read together *)
(* shows the first rows of that revision and no other, whatever overtook the *)
(* payload or its pages; shown as complete, it has all of them, or is marked *)
(* truncated and has as many as its cap (useHydratedDatasets.ts:279-314).    *)
CompleteIsExact ==
    \A k \in Keys : reg[k].own =>
        LET c == hist[k][reg[k].rev] IN
        /\ IsPrefixOf(out[k].rows, c)
        /\ out[k].phase = "complete" =>
            IF out[k].truncated THEN Len(out[k].rows) >= RowCap[k]
            ELSE Len(out[k].rows) = Len(c)

(* A dataset is shown as loading exactly while a registered loop works for   *)
(* it, and never two: no spinner is left behind by an orphaned loop, and no  *)
(* loop publishes under a dataset that looks finished.                       *)
LoadingHasLoop ==
    \A k \in Keys :
        /\ (out[k].phase = "loading") <=> (\E l \in loops[k] : l.live)
        /\ \A l, m \in loops[k] : l.live /\ m.live => l = m

(* A delta that arrives once more, as a result and as a notification or late,*)
(* changes nothing (useMiniApp.ts:121-123).                                  *)
DeltaOnce ==
    \A m \in replies : m.kind = "delta" =>
        Apply(Apply(view, m), m) = Apply(view, m)

(* A view that took its descriptor and its label together holds rows of the  *)
(* revision the label names, also where it appended a delta to its own rows. *)
AppendIsExact ==
    \A k \in Keys : view[k].own =>
        /\ IsPrefixOf(view[k].rows, hist[k][view[k].rev])
        /\ view[k].total = Len(hist[k][view[k].rev])

(* Every load ends: complete or failed, or it is replaced by another load. *)
LoadingEnds == \A k \in Keys : []<>(out[k].phase # "loading")

(* "A hydration loop must never concatenate pages from two replacements of   *)
(* the same dataset key" (mini_apps.py:942-943).                             *)
NeverMixes ==
    \A k \in Keys : \E r \in 1 .. Len(hist[k]) :
        IsPrefixOf(out[k].rows, hist[k][r])

(* The revision a dataset works towards, and its contents, where label and   *)
(* descriptor were read together.                                            *)
Goal(k) == IF reg[k].own THEN [rev |-> reg[k].rev, rows |-> hist[k][reg[k].rev]]
           ELSE Unknown

(* What a consumer may rely on is the contract: the rows of one revision at  *)
(* a time, that only grow until another revision takes their place.          *)
Contract ==
    INSTANCE DatasetContract WITH
        goal <- [k \in Keys |-> Goal(k)], shown <- out

ImplementsContract == Contract!Spec
=============================================================================
