-------------------------- MODULE HydrationProofs --------------------------
(***************************************************************************)
(* Proofs about Hydration for any datasets, caps, page sizes and bounds:   *)
(* types, what a view and a finished load hold, the pairing of a dataset   *)
(* that is loading with its loop, and that the hydration of datasets       *)
(* implements DatasetContract.  The inductive invariant follows the rows   *)
(* from the store through tasks, payloads and pages to the consumer.       *)
(***************************************************************************)
EXTENDS Hydration, SequenceTheorems, TLAPS

-----------------------------------------------------------------------------
(* Prefixes. *)

\* What IsPrefixOf says of sequences of rows.
LEMMA PrefixSelf ==
    ASSUME NEW s \in Seq(Nat)
    PROVE  IsPrefixOf(s, s)
BY DEF IsPrefixOf

\* A prefix of a prefix is a prefix.
LEMMA PrefixTrans ==
    ASSUME NEW s \in Seq(Nat), NEW t \in Seq(Nat), NEW u \in Seq(Nat),
           IsPrefixOf(s, t), IsPrefixOf(t, u)
    PROVE  IsPrefixOf(s, u)
BY LenProperties DEF IsPrefixOf

\* A prefix as long as the whole is the whole.
LEMMA PrefixFull ==
    ASSUME NEW s \in Seq(Nat), NEW t \in Seq(Nat),
           IsPrefixOf(s, t), Len(t) <= Len(s)
    PROVE  s = t
<1>1. Len(s) = Len(t)
  BY LenProperties DEF IsPrefixOf
<1>2. QED
  BY <1>1, SeqEqual DEF IsPrefixOf

\* The preview of a descriptor (mini_apps.py 1009-1037).
LEMMA PreviewFacts ==
    ASSUME NEW s \in Seq(Nat), NEW n \in Nat
    PROVE  /\ Prefix(s, n) \in Seq(Nat)
           /\ IsPrefixOf(Prefix(s, n), s)
<1> DEFINE m == Least(n, Len(s))
<1>1. m \in Nat /\ m <= Len(s)
  BY LenProperties DEF Least
<1>2. \A i \in 1 .. m : s[i] \in Nat
  BY <1>1, ElementOfSeq
<1>3. /\ SubSeq(s, 1, m) \in Seq(Nat)
      /\ Len(SubSeq(s, 1, m)) = m
      /\ \A i \in 1 .. m : SubSeq(s, 1, m)[i] = s[i]
  <2> HIDE DEF m
  <2>1. 1 \in Int /\ m \in Int
    BY <1>1
  <2>2. QED
    BY <1>1, <1>2, <2>1, SubSeqProperties
<1>4. QED
  BY <1>1, <1>3 DEF Prefix, IsPrefixOf

\* Rows added at the end leave what is there a prefix.
LEMMA ConcatFacts ==
    ASSUME NEW s \in Seq(Nat), NEW t \in Seq(Nat)
    PROVE  /\ s \o t \in Seq(Nat)
           /\ Len(s \o t) = Len(s) + Len(t)
           /\ IsPrefixOf(s, s \o t)
BY ConcatProperties, LenProperties DEF IsPrefixOf

\* The next rows of t after its prefix s, up to row e (get_view_dataset_page).
LEMMA NextRows ==
    ASSUME NEW s \in Seq(Nat), NEW t \in Seq(Nat), NEW e \in Int,
           Len(s) <= Len(t), e <= Len(t)
    PROVE  /\ SubSeq(t, Len(s) + 1, e) \in Seq(Nat)
           /\ IsPrefixOf(s, t) => IsPrefixOf(s \o SubSeq(t, Len(s) + 1, e), t)
           /\ IsPrefixOf(s, t) /\ e = Len(t) => s \o SubSeq(t, Len(s) + 1, e) = t
<1> DEFINE u == SubSeq(t, Len(s) + 1, e)
<1>1. Len(s) \in Nat /\ Len(t) \in Nat
  BY LenProperties
<1>2. \A i \in Len(s) + 1 .. e : t[i] \in Nat
  BY <1>1, ElementOfSeq
<1>3. /\ u \in Seq(Nat)
      /\ Len(u) = IF Len(s) + 1 <= e THEN e - Len(s) ELSE 0
      /\ \A i \in 1 .. e - Len(s) : u[i] = t[Len(s) + i]
  <2>1. Len(s) + 1 \in Int
    BY <1>1
  <2>2. /\ u \in Seq(Nat)
        /\ Len(u) = IF Len(s) + 1 <= e THEN e - (Len(s) + 1) + 1 ELSE 0
        /\ \A i \in 1 .. e - (Len(s) + 1) + 1 : u[i] = t[Len(s) + 1 + i - 1]
    BY <1>2, <2>1, SubSeqProperties
  <2>3. QED
    BY <1>1, <2>2
<1> HIDE DEF u
<1>4. /\ s \o u \in Seq(Nat)
      /\ Len(s \o u) = Len(s) + Len(u)
      /\ \A i \in 1 .. Len(s) + Len(u) :
             (s \o u)[i] = IF i <= Len(s) THEN s[i] ELSE u[i - Len(s)]
  BY <1>3, ConcatProperties
<1>5. IsPrefixOf(s, t) => IsPrefixOf(s \o u, t)
  BY <1>1, <1>3, <1>4 DEF IsPrefixOf
<1>6. IsPrefixOf(s, t) /\ e = Len(t) => s \o u = t
  <2>1. SUFFICES ASSUME IsPrefixOf(s, t), e = Len(t)
                 PROVE  s \o u = t
    OBVIOUS
  <2>2. Len(t) <= Len(s \o u)
    BY <1>1, <1>3, <1>4, <2>1
  <2>3. QED
    BY <1>4, <1>5, <2>1, <2>2, PrefixFull
<1>7. QED
  BY <1>3, <1>5, <1>6 DEF u

-----------------------------------------------------------------------------
(* The inductive invariant, one part for each place that holds rows. *)

(* A dataset has a current revision. *)
StoreOK(h) == 1 <= Len(h)

(* A descriptor that came with its label is one of the revision it names. *)
Exact(h, d) ==
    d.own => /\ d.rev \in 1 .. Len(h)
             /\ IsPrefixOf(d.rows, h[d.rev])
             /\ d.total = Len(h[d.rev])

(* A task that has committed names its base and its result. *)
TaskOK(h, t) ==
    t.st = "done" =>
        /\ t.base \in 1 .. Len(h)
        /\ t.rev \in 1 .. Len(h)
        /\ t.kind = "append" => IsPrefixOf(h[t.base], h[t.rev])

(* A delta extends its base to its target, unless the target has moved on. *)
DeltaOK(h, m) ==
    /\ m.base \in 1 .. Len(h)
    /\ m.baseRows = Len(h[m.base])
    /\ Exact(h, m.fallback)
    /\ m.fallback.rev = m.revs[m.key]
    /\ m.own => /\ m.fallback.rev \in 1 .. Len(h)
                /\ m.fallback.total = Len(h[m.fallback.rev])
                /\ h[m.fallback.rev] = h[m.base] \o m.rows

ReplyOK(H, m) ==
    /\ m.kind = "initial" => \A k \in Keys : Exact(H[k], m.desc[k])
    /\ m.kind = "patch" => Exact(H[m.key], m.desc)
    /\ m.kind = "delta" => DeltaOK(H[m.key], m)

(* A registered loop works for the registered label, ahead of what is shown, *)
(* and the page it was given continues its rows.                             *)
LoopOK(h, r, o, l) ==
    l.live => /\ l.rev = r.rev
              /\ l.own = r.own
              /\ r.own =>
                   /\ IsPrefixOf(l.acc, h[r.rev])
                   /\ IsPrefixOf(o.rows, l.acc)
                   /\ l.st = "answered" /\ l.page.ok =>
                        /\ IsPrefixOf(Sum(l), h[r.rev])
                        /\ l.page.total = Len(h[r.rev])

(* What is shown is faithful to the registered revision. *)
ShownOK(h, r, o, cap) ==
    r.own => /\ r.rev \in 1 .. Len(h)
             /\ r.total = Len(h[r.rev])
             /\ IsPrefixOf(o.rows, h[r.rev])
             /\ o.phase = "complete" =>
                 IF o.truncated THEN Len(o.rows) >= cap
                 ELSE Len(o.rows) = Len(h[r.rev])

(* A loading dataset has one registered loop, any other has none. *)
Paired(o, ls) ==
    /\ (o.phase = "loading") <=> (\E l \in ls : l.live)
    /\ \A l, m \in ls : l.live /\ m.live => l = m

HydratedOK(h, r, o, ls, cap) ==
    /\ ShownOK(h, r, o, cap)
    /\ \A l \in ls : LoopOK(h, r, o, l)
    /\ Paired(o, ls)

ServerOK ==
    /\ \A k \in Keys : StoreOK(hist[k])
    /\ \A t \in tasks : TaskOK(hist[t.key], t)

BrowserOK ==
    /\ \A m \in replies : ReplyOK(hist, m)
    /\ \A k \in Keys : Exact(hist[k], view[k])
    /\ \A k \in Keys : HydratedOK(hist[k], reg[k], out[k], loops[k], RowCap[k])

IInv == TypeOK /\ ServerOK /\ BrowserOK

-----------------------------------------------------------------------------
(* A store that grows keeps everything true that was said of it. *)

Grown(h, g) == /\ Len(h) <= Len(g)
               /\ \A r \in 1 .. Len(h) : g[r] = h[r]

Histories == Seq(Seq(Nat))

\* A commit keeps the revisions before it (mini_apps.py, commit_view_update).
LEMMA AppendGrows ==
    ASSUME NEW h \in Histories, NEW c \in Seq(Nat)
    PROVE  /\ Append(h, c) \in Histories
           /\ Len(Append(h, c)) = Len(h) + 1
           /\ Append(h, c)[Len(h) + 1] = c
           /\ Grown(h, Append(h, c))
BY AppendProperties, LenProperties DEF Grown, Histories

\* Descriptors, tasks and deltas stay right when the store grows.
LEMMA GrownKeeps ==
    ASSUME NEW h \in Histories, NEW g \in Histories, Grown(h, g)
    PROVE  /\ \A d \in Descriptors : Exact(h, d) => Exact(g, d)
           /\ \A t \in Tasks : TaskOK(h, t) => TaskOK(g, t)
           /\ \A r \in Registered : \A o, l, cap :
                /\ ShownOK(h, r, o, cap) => ShownOK(g, r, o, cap)
                /\ ShownOK(h, r, o, cap) /\ LoopOK(h, r, o, l) => LoopOK(g, r, o, l)
<1>1. /\ Len(h) \in Nat /\ Len(g) \in Nat
      /\ \A r \in 1 .. Len(h) : r \in 1 .. Len(g) /\ g[r] = h[r]
  BY LenProperties DEF Grown, Histories
<1>2. \A d \in Descriptors : Exact(h, d) => Exact(g, d)
  BY <1>1 DEF Exact
<1>3. \A t \in Tasks : TaskOK(h, t) => TaskOK(g, t)
  BY <1>1 DEF TaskOK
<1>4. \A r \in Registered : \A o, l, cap :
         /\ ShownOK(h, r, o, cap) => ShownOK(g, r, o, cap)
         /\ ShownOK(h, r, o, cap) /\ LoopOK(h, r, o, l) => LoopOK(g, r, o, l)
  BY <1>1 DEF ShownOK, LoopOK
<1>5. QED
  BY <1>2, <1>3, <1>4

\* A delta on its way stays right when the store grows.
LEMMA GrownKeepsDelta ==
    ASSUME NEW h \in Histories, NEW g \in Histories, Grown(h, g),
           NEW m, m.fallback \in Descriptors, DeltaOK(h, m)
    PROVE  DeltaOK(g, m)
<1>1. /\ Len(h) \in Nat /\ Len(g) \in Nat
      /\ \A r \in 1 .. Len(h) : r \in 1 .. Len(g) /\ g[r] = h[r]
  BY LenProperties DEF Grown, Histories
<1>2. Exact(g, m.fallback)
  BY GrownKeeps DEF DeltaOK
<1>3. QED
  BY <1>1, <1>2 DEF DeltaOK

-----------------------------------------------------------------------------
(* What the server builds. *)

\* The current contents are those of the newest revision.
LEMMA CurrentFacts ==
    ASSUME TypeOK, ServerOK, NEW k \in Keys
    PROVE  /\ hist[k] \in Histories
           /\ StoreOK(hist[k])
           /\ Len(hist[k]) \in Nat \ {0}
           /\ Revision(k) = Len(hist[k])
           /\ Revision(k) \in 1 .. Len(hist[k])
           /\ Contents(k) = hist[k][Revision(k)]
           /\ Contents(k) \in Seq(Nat)
           /\ Len(Contents(k)) \in Nat
<1>1. hist[k] \in Histories /\ StoreOK(hist[k])
  BY DEF TypeOK, ServerOK, Histories
<1>2. Len(hist[k]) \in Nat \ {0}
  BY <1>1, LenProperties DEF Histories, StoreOK
<1>3. hist[k][Len(hist[k])] \in Seq(Nat)
  BY <1>1, <1>2, ElementOfSeq DEF Histories
<1>4. Len(hist[k][Len(hist[k])]) \in Nat
  BY <1>3, LenProperties
<1>5. QED
  BY <1>1, <1>2, <1>3, <1>4 DEF Revision, Contents

\* The contents of any revision are rows.
LEMMA RevisionRows ==
    ASSUME NEW h \in Histories, NEW r \in 1 .. Len(h)
    PROVE  h[r] \in Seq(Nat) /\ Len(h[r]) \in Nat
<1>1. h[r] \in Seq(Nat)
  BY ElementOfSeq DEF Histories
<1>2. QED
  BY <1>1, LenProperties

\* A descriptor of a revision under its own label is exact.
LEMMA DescriptorFacts ==
    ASSUME NEW c \in Seq(Nat), NEW limit \in Nat, NEW r \in Nat \ {0},
           NEW o \in BOOLEAN
    PROVE  /\ Descriptor(c, limit, r, o) \in Descriptors
           /\ \A h \in Histories : r \in 1 .. Len(h) /\ (o => h[r] = c)
                => Exact(h, Descriptor(c, limit, r, o))
<1>1. Prefix(c, limit) \in Seq(Nat) /\ IsPrefixOf(Prefix(c, limit), c)
  BY PreviewFacts
<1>2. Len(c) \in Nat
  BY LenProperties
<1>3. QED
  BY <1>1, <1>2 DEF Descriptor, Descriptors, Exact

\* The payload of a load is exact for every dataset (mini_apps.py 180-204).
LEMMA SnapshotFacts ==
    ASSUME TypeOK, ServerOK
    PROVE  Snapshot \in Payloads /\ ReplyOK(hist, Snapshot)
<1>1. PreviewLimit \in Nat
  BY HydrationAssumption
<1>2. \A k \in Keys :
         LET d == Descriptor(Contents(k), PreviewLimit, Revision(k), TRUE)
         IN  d \in Descriptors /\ Exact(hist[k], d)
  BY <1>1, CurrentFacts, DescriptorFacts
<1>3. QED
  BY <1>2 DEF Snapshot, Payloads, ReplyOK

\* The initial states satisfy the invariant.
LEMMA InitInv == Init => IInv
<1>1. SUFFICES ASSUME Init PROVE IInv
  OBVIOUS
<1>2. InitRows \in Nat /\ PreviewLimit \in Nat
  BY HydrationAssumption
<1> DEFINE c == Fresh(1, InitRows)
           h == <<c>>
<1>3. c \in Seq(Nat) /\ Len(c) = InitRows /\ \A i \in 1 .. Len(c) : c[i] = 1
  BY <1>2 DEF Fresh
<1> HIDE DEF c
<1>4. h \in Histories /\ Len(h) = 1 /\ h[1] = c
  BY <1>3 DEF Histories
<1>5. StoreOK(h)
  BY <1>3, <1>4 DEF StoreOK
<1> HIDE DEF h
<1> DEFINE d == Descriptor(c, PreviewLimit, 1, TRUE)
<1>6. d \in Descriptors /\ Exact(h, d)
  <2>1. 1 \in Nat \ {0} /\ TRUE \in BOOLEAN /\ 1 \in 1 .. Len(h)
    BY <1>4
  <2>2. d \in Descriptors
    BY <1>2, <1>3, <2>1, DescriptorFacts
  <2>3. \A g \in Histories : 1 \in 1 .. Len(g) /\ (TRUE => g[1] = c) => Exact(g, d)
    BY <1>2, <1>3, <2>1, DescriptorFacts
  <2>4. QED
    BY <1>4, <2>1, <2>2, <2>3
<1> HIDE DEF d
<1>7. /\ hist = [k \in Keys |-> h]
      /\ view = [k \in Keys |-> d]
      /\ newest = [k \in Keys |-> 0]
      /\ tasks = {} /\ replies = {}
      /\ reg = [k \in Keys |-> NotRegistered]
      /\ loops = [k \in Keys |-> {}]
      /\ out = [k \in Keys |-> NotHydrated]
      /\ sent = 0 /\ faults = 0
  BY <1>1 DEF Init, Opened, c, h, d
<1>8. NotRegistered \in Registered /\ NotHydrated \in Shown
  BY EmptySeq DEF NotRegistered, Registered, NotHydrated, Shown, Phases
<1>9. TypeOK
  BY <1>4, <1>6, <1>7, <1>8 DEF TypeOK, Histories
<1>10. ServerOK
  BY <1>5, <1>7 DEF ServerOK
<1>11. \A k \in Keys : HydratedOK(hist[k], reg[k], out[k], loops[k], RowCap[k])
  BY <1>7 DEF HydratedOK, ShownOK, Paired, NotRegistered, NotHydrated
<1>12. BrowserOK
  BY <1>6, <1>7, <1>11 DEF BrowserOK
<1>13. QED
  BY <1>9, <1>10, <1>12 DEF IInv

-----------------------------------------------------------------------------
(* Steps of the user and the server. *)

\* The rows of n new rows (_install_dataset, mini_apps.py 337-374).
LEMMA FreshFacts ==
    ASSUME NEW r \in Nat, NEW n \in Nat
    PROVE  /\ Fresh(r, n) \in Seq(Nat)
           /\ Len(Fresh(r, n)) = n
           /\ \A i \in 1 .. n : Fresh(r, n)[i] = r
BY DEF Fresh

\* What a task may commit is a new revision; an append extends the current one.
LEMMA OutcomeFacts ==
    ASSUME TypeOK, ServerOK, NEW t \in Tasks, NEW c \in Outcomes(t)
    PROVE  /\ c \in Seq(Nat)
           /\ StoreOK(Append(hist[t.key], c))
           /\ t.kind = "append" => IsPrefixOf(Contents(t.key), c)
<1> DEFINE h == hist[t.key]
           r == Len(h) + 1
           s == Contents(t.key)
<1>1. t.key \in Keys
  BY DEF Tasks
<1>2. /\ h \in Histories /\ Len(h) \in Nat \ {0}
      /\ s \in Seq(Nat) /\ Len(s) \in Nat
      /\ Revision(t.key) = Len(h)
  BY <1>1, CurrentFacts
<1>3. MaxRows \in Nat
  BY HydrationAssumption
<1>4. c \in Seq(Nat) /\ (t.kind = "append" => IsPrefixOf(s, c))
  <2>1. CASE t.kind = "append"
    <3>1. PICK n \in 0 .. (MaxRows - Len(s)) : c = s \o Fresh(r, n)
      BY <1>2, <2>1 DEF Outcomes
    <3>2. n \in Nat /\ r \in Nat
      BY <1>2, <1>3
    <3>3. Fresh(r, n) \in Seq(Nat)
      BY <3>2, FreshFacts
    <3> HIDE DEF s, r
    <3>4. QED
      BY <1>2, <3>1, <3>3, ConcatFacts
  <2>2. CASE t.kind # "append"
    <3>1. PICK n \in 0 .. MaxRows : c = Fresh(r, n)
      BY <1>2, <2>2 DEF Outcomes
    <3>2. n \in Nat /\ r \in Nat
      BY <1>2, <1>3
    <3>3. QED
      BY <2>2, <3>1, <3>2, FreshFacts
  <2>3. QED
    BY <2>1, <2>2
<1>5. StoreOK(Append(h, c))
  BY <1>2, <1>4, AppendGrows DEF StoreOK
<1>6. QED
  BY <1>4, <1>5 DEF h, s

\* What was said of the browser's side holds while it and the store stay.
LEMMA BrowserStays ==
    ASSUME BrowserOK, UNCHANGED <<hist, replies, view, reg, loops, out>>
    PROVE  BrowserOK'
BY DEF BrowserOK

\* Another sound payload on its way changes nothing else.
LEMMA OneMoreReply ==
    ASSUME BrowserOK, UNCHANGED <<hist, view, reg, loops, out>>,
           NEW m, ReplyOK(hist, m), replies' = replies \cup {m}
    PROVE  BrowserOK'
<1>1. \A n \in replies' : ReplyOK(hist, n)
  BY DEF BrowserOK
<1>2. QED
  BY <1>1 DEF BrowserOK

\* A new request has committed nothing.
LEMMA RequestInv ==
    ASSUME IInv, NEW kind \in Kinds, NEW k \in Keys, Request(kind, k)
    PROVE  IInv'
<1>1. /\ sent' = sent + 1
      /\ tasks' = tasks \cup {Task(sent + 1, kind, k)}
      /\ UNCHANGED <<hist, newest, replies, view, reg, loops, out, faults>>
  BY DEF Request
<1>2. Task(sent + 1, kind, k) \in Tasks /\ Task(sent + 1, kind, k).st = "sent"
  BY DEF IInv, TypeOK, Task, Tasks
<1>3. TypeOK'
  BY <1>1, <1>2 DEF IInv, TypeOK
<1>4. \A t \in tasks' : TaskOK(hist[t.key], t)
  BY <1>1, <1>2 DEF IInv, ServerOK, TaskOK
<1>5. ServerOK'
  BY <1>1, <1>4 DEF IInv, ServerOK
<1>6. BrowserOK'
  BY <1>1, BrowserStays DEF IInv
<1>7. QED
  BY <1>3, <1>5, <1>6 DEF IInv

\* A reservation starts a task or answers with the view as it is
\* (mini_apps.py, reserve_view_request).
LEMMA ReserveInv ==
    ASSUME IInv, NEW t \in tasks, Reserve(t)
    PROVE  IInv'
<1>1. UNCHANGED <<hist, view, reg, loops, out, sent, faults>>
  BY DEF Reserve
<1>2. t \in Tasks /\ Snapshot \in Payloads /\ ReplyOK(hist, Snapshot)
  BY SnapshotFacts DEF IInv, TypeOK
<1>3. CASE t.id < newest[t.key]
  <2>1. /\ tasks' = Without(t)
        /\ replies' = replies \cup {Snapshot}
        /\ newest' = newest
    BY <1>3 DEF Reserve
  <2>2. TypeOK'
    BY <1>1, <1>2, <2>1 DEF IInv, TypeOK, Without
  <2>3. ServerOK'
    BY <1>1, <2>1 DEF IInv, ServerOK, Without
  <2>4. BrowserOK'
    BY <1>1, <1>2, <2>1, OneMoreReply DEF IInv
  <2>5. QED
    BY <2>2, <2>3, <2>4 DEF IInv
<1>4. CASE ~(t.id < newest[t.key])
  <2> DEFINE u == [t EXCEPT !.st = "running"]
  <2>1. /\ tasks' = Without(t) \cup {u}
        /\ newest' = [newest EXCEPT ![t.key] = t.id]
        /\ replies' = replies
    BY <1>4 DEF Reserve
  <2>2. u \in Tasks /\ u.st = "running"
    BY <1>2 DEF Tasks
  <2> HIDE DEF u
  <2>3. TypeOK'
    BY <1>1, <1>2, <2>1, <2>2 DEF IInv, TypeOK, Without, Tasks
  <2>4. \A s \in tasks' : TaskOK(hist[s.key], s)
    BY <2>1, <2>2 DEF IInv, ServerOK, Without, TaskOK
  <2>5. ServerOK'
    BY <1>1, <2>4 DEF IInv, ServerOK
  <2>6. BrowserOK'
    BY <1>1, <2>1, BrowserStays DEF IInv
  <2>7. QED
    BY <2>3, <2>5, <2>6 DEF IInv
<1>5. QED
  BY <1>3, <1>4

\* The browser's side stays right when a dataset is replaced under it.
LEMMA BrowserSurvives ==
    ASSUME TypeOK, BrowserOK, hist' \in [Keys -> Histories],
           \A k \in Keys : Grown(hist[k], hist'[k]),
           UNCHANGED <<replies, view, reg, loops, out>>
    PROVE  BrowserOK'
<1>1. \A k \in Keys : hist[k] \in Histories /\ hist'[k] \in Histories
  BY DEF TypeOK, Histories
<1>2. \A m \in replies : ReplyOK(hist', m)
  <2>1. SUFFICES ASSUME NEW m \in replies
                 PROVE  ReplyOK(hist', m)
    OBVIOUS
  <2>2. m \in Payloads /\ ReplyOK(hist, m)
    BY DEF TypeOK, BrowserOK
  <2>3. CASE m.kind = "initial"
    <3>1. \A k \in Keys : m.desc[k] \in Descriptors
      BY <2>2, <2>3 DEF Payloads
    <3>2. \A k \in Keys : Exact(hist'[k], m.desc[k])
      BY <1>1, <2>2, <2>3, <3>1, GrownKeeps DEF ReplyOK
    <3>3. QED
      BY <2>3, <3>2 DEF ReplyOK
  <2>4. CASE m.kind = "patch"
    <3>1. m.key \in Keys /\ m.desc \in Descriptors
      BY <2>2, <2>4 DEF Payloads
    <3>2. Exact(hist'[m.key], m.desc)
      BY <1>1, <2>2, <2>4, <3>1, GrownKeeps DEF ReplyOK
    <3>3. QED
      BY <2>4, <3>2 DEF ReplyOK
  <2>5. CASE m.kind = "delta"
    <3>1. m.key \in Keys /\ m.fallback \in Descriptors
      BY <2>2, <2>5 DEF Payloads
    <3>2. DeltaOK(hist'[m.key], m)
      BY <1>1, <2>2, <2>5, <3>1, GrownKeepsDelta DEF ReplyOK
    <3>3. QED
      BY <2>5, <3>2 DEF ReplyOK
  <2>6. QED
    BY <2>2, <2>3, <2>4, <2>5 DEF Payloads
<1>3. \A k \in Keys : Exact(hist'[k], view[k])
  BY <1>1, GrownKeeps DEF TypeOK, BrowserOK
<1>4. \A k \in Keys : HydratedOK(hist'[k], reg[k], out[k], loops[k], RowCap[k])
  <2>1. SUFFICES ASSUME NEW k \in Keys
                 PROVE  HydratedOK(hist'[k], reg[k], out[k], loops[k], RowCap[k])
    OBVIOUS
  <2>2. /\ reg[k] \in Registered
        /\ ShownOK(hist[k], reg[k], out[k], RowCap[k])
        /\ \A l \in loops[k] : LoopOK(hist[k], reg[k], out[k], l)
        /\ Paired(out[k], loops[k])
    BY DEF TypeOK, BrowserOK, HydratedOK
  <2>3. /\ ShownOK(hist'[k], reg[k], out[k], RowCap[k])
        /\ \A l \in loops[k] : LoopOK(hist'[k], reg[k], out[k], l)
    BY <1>1, <2>2, GrownKeeps
  <2>4. QED
    BY <2>2, <2>3 DEF HydratedOK
<1>5. QED
  BY <1>2, <1>3, <1>4 DEF BrowserOK

\* A commit adds a revision, or is refused as out of date (mini_apps.py 207-256).
LEMMA CommitInv ==
    ASSUME IInv, NEW t \in tasks, Commit(t)
    PROVE  IInv'
<1>1. UNCHANGED <<newest, view, reg, loops, out, sent, faults>>
  BY DEF Commit
<1>2. t \in Tasks /\ t.key \in Keys /\ Snapshot \in Payloads /\ ReplyOK(hist, Snapshot)
  BY SnapshotFacts DEF IInv, TypeOK, Tasks
<1>3. CASE t.kind # "attach" /\ t.id < newest[t.key]
  <2>1. tasks' = Without(t) /\ replies' = replies \cup {Snapshot} /\ hist' = hist
    BY <1>3 DEF Commit
  <2>2. TypeOK'
    BY <1>1, <1>2, <2>1 DEF IInv, TypeOK, Without
  <2>3. ServerOK'
    BY <1>1, <2>1 DEF IInv, ServerOK, Without
  <2>4. BrowserOK'
    BY <1>1, <1>2, <2>1, OneMoreReply DEF IInv
  <2>5. QED
    BY <2>2, <2>3, <2>4 DEF IInv
<1>4. CASE ~(t.kind # "attach" /\ t.id < newest[t.key])
  <2> DEFINE q == Revision(t.key)
             u == [t EXCEPT !.st = "done", !.base = q, !.rev = q + 1]
  <2>1. PICK c \in Outcomes(t) :
            hist' = [hist EXCEPT ![t.key] = Append(@, c)]
    BY <1>4 DEF Commit
  <2>2. tasks' = Without(t) \cup {u} /\ replies' = replies
    BY <1>4 DEF Commit
  <2>3. /\ c \in Seq(Nat)
        /\ StoreOK(Append(hist[t.key], c))
        /\ t.kind = "append" => IsPrefixOf(Contents(t.key), c)
    BY <1>2, OutcomeFacts DEF IInv
  <2>4. \A k \in Keys : hist[k] \in Histories
    BY DEF IInv, TypeOK, Histories
  <2>5. /\ hist' \in [Keys -> Histories]
        /\ hist'[t.key] = Append(hist[t.key], c)
        /\ \A k \in Keys \ {t.key} : hist'[k] = hist[k]
    BY <1>2, <2>1, <2>3, <2>4, AppendGrows DEF IInv, TypeOK, Histories
  <2>6. \A k \in Keys : Grown(hist[k], hist'[k])
    <3>1. \A k \in Keys : Len(hist[k]) \in Nat
      BY <2>4, LenProperties DEF Histories
    <3>2. Grown(hist[t.key], hist'[t.key])
      BY <1>2, <2>3, <2>4, <2>5, AppendGrows
    <3>3. \A k \in Keys \ {t.key} : Grown(hist[k], hist'[k])
      BY <2>5, <3>1 DEF Grown
    <3>4. QED
      BY <3>2, <3>3
  <2>7. /\ q \in 1 .. Len(hist[t.key]) /\ q = Len(hist[t.key]) /\ q \in Nat
        /\ Contents(t.key) = hist[t.key][q]
    BY <1>2, CurrentFacts DEF IInv
  <2>8. /\ u \in Tasks /\ u.key = t.key /\ u.kind = t.kind
        /\ u.base = q /\ u.rev = q + 1
    <3> HIDE DEF q
    <3>1. q \in Nat /\ q + 1 \in Nat
      BY <2>7
    <3>2. QED
      BY <1>2, <3>1 DEF Tasks
  <2>9. TaskOK(hist'[t.key], u)
    <3>1. /\ Len(hist'[t.key]) = q + 1
          /\ hist'[t.key][q + 1] = c
          /\ hist'[t.key][q] = hist[t.key][q]
      BY <1>2, <2>3, <2>4, <2>5, <2>7, AppendGrows DEF Grown
    <3>2. q \in 1 .. Len(hist'[t.key]) /\ q + 1 \in 1 .. Len(hist'[t.key])
      BY <2>7, <3>1
    <3>3. t.kind = "append" => IsPrefixOf(hist'[t.key][q], hist'[t.key][q + 1])
      BY <2>3, <2>7, <3>1
    <3>4. QED
      BY <2>8, <3>2, <3>3 DEF TaskOK
  <2> HIDE DEF u, q
  <2>10. TypeOK'
    BY <1>1, <2>2, <2>5, <2>8 DEF IInv, TypeOK, Without, Histories
  <2>11. \A s \in tasks' : TaskOK(hist'[s.key], s)
    <3>1. \A s \in tasks : s \in Tasks /\ s.key \in Keys /\ TaskOK(hist[s.key], s)
      BY DEF IInv, TypeOK, ServerOK, Tasks
    <3>2. \A s \in tasks : TaskOK(hist'[s.key], s)
      BY <2>4, <2>5, <2>6, <3>1, GrownKeeps
    <3>3. QED
      BY <2>2, <2>8, <2>9, <3>2 DEF Without
  <2>12. \A k \in Keys : StoreOK(hist'[k])
    BY <2>3, <2>5 DEF IInv, ServerOK
  <2>13. ServerOK'
    BY <2>11, <2>12 DEF ServerOK
  <2>14. BrowserOK'
    BY <1>1, <2>2, <2>5, <2>6, BrowserSurvives DEF IInv
  <2>15. QED
    BY <2>10, <2>13, <2>14 DEF IInv
<1>5. QED
  BY <1>3, <1>4

\* The answer to an append carries the rows between base and target
\* (build_dataset_append_patch, state.py 455-532).
LEMMA DeltaFacts ==
    ASSUME TypeOK, ServerOK, NEW t \in tasks, t.st = "done", t.kind = "append"
    PROVE  DeltaOf(t) \in Payloads /\ ReplyOK(hist, DeltaOf(t))
<1> DEFINE h == hist[t.key]
           q == Revision(t.key)
           d == Descriptor(Contents(t.key), 0, q, TRUE)
<1>1. t \in Tasks /\ t.key \in Keys /\ TaskOK(h, t)
  BY DEF TypeOK, ServerOK, Tasks
<1>2. /\ h \in Histories /\ q \in 1 .. Len(h) /\ q \in Nat \ {0}
      /\ Contents(t.key) = h[q] /\ h[q] \in Seq(Nat)
  BY <1>1, CurrentFacts
<1>3. \A k \in Keys : Revision(k) \in Nat
  BY CurrentFacts
<1>4. d \in Descriptors /\ d.rev = q /\ d.total = Len(h[q])
  <2>1. 0 \in Nat /\ TRUE \in BOOLEAN
    OBVIOUS
  <2>2. d \in Descriptors
    BY <1>2, <2>1, DescriptorFacts
  <2>3. QED
    BY <1>2, <2>2 DEF Descriptor
<1>5. Exact(h, d)
  <2>1. 0 \in Nat /\ TRUE \in BOOLEAN
    OBVIOUS
  <2>2. \A g \in Histories : q \in 1 .. Len(g) /\ (TRUE => g[q] = h[q]) => Exact(g, d)
    BY <1>2, <2>1, DescriptorFacts
  <2>3. QED
    BY <1>2, <2>2
<1> HIDE DEF d
<1>6. /\ t.base \in 1 .. Len(h) /\ t.rev \in 1 .. Len(h)
      /\ IsPrefixOf(h[t.base], h[t.rev])
      /\ h[t.base] \in Seq(Nat) /\ h[t.rev] \in Seq(Nat)
      /\ Len(h[t.base]) \in Nat /\ Len(h[t.rev]) \in Nat
      /\ t.base \in Nat
  BY <1>1, <1>2, RevisionRows DEF TaskOK, Tasks
<1>7. Added(t) \in Seq(Nat) /\ h[t.base] \o Added(t) = h[t.rev]
  <2> DEFINE a == h[t.base]
             c == h[t.rev]
  <2>1. Added(t) = SubSeq(c, Len(a) + 1, Len(c))
    BY DEF Added
  <2>2. Len(a) <= Len(c)
    BY <1>6 DEF IsPrefixOf
  <2>3. /\ a \in Seq(Nat) /\ c \in Seq(Nat) /\ Len(c) \in Int
        /\ Len(c) <= Len(c) /\ IsPrefixOf(a, c)
    BY <1>6
  <2> HIDE DEF a, c
  <2>4. /\ SubSeq(c, Len(a) + 1, Len(c)) \in Seq(Nat)
        /\ a \o SubSeq(c, Len(a) + 1, Len(c)) = c
    BY <2>2, <2>3, NextRows
  <2>5. QED
    BY <2>1, <2>4 DEF a, c
<1>8. DeltaOf(t) = [kind |-> "delta", key |-> t.key, base |-> t.base,
                    baseRows |-> Len(h[t.base]), rows |-> Added(t),
                    fallback |-> d, revs |-> [k \in Keys |-> Revision(k)],
                    own |-> q = t.rev]
  BY DEF DeltaOf, d
<1>9. t.key \in Keys /\ DeltaOf(t).key = t.key /\ DeltaOf(t).revs[t.key] = q
  BY <1>1, <1>8
<1> HIDE DEF q
<1>10. DeltaOf(t) \in Payloads
  BY <1>1, <1>3, <1>4, <1>6, <1>7, <1>8 DEF Payloads
<1>11. DeltaOK(h, DeltaOf(t))
  <2> DEFINE m == DeltaOf(t)
  <2>1. /\ m.base = t.base /\ m.baseRows = Len(h[t.base]) /\ m.rows = Added(t)
        /\ m.fallback = d /\ m.own = (q = t.rev)
        /\ m.fallback.rev = m.revs[m.key]
    BY <1>4, <1>8, <1>9
  <2> HIDE DEF m, h
  <2>2. m.own => q = t.rev
    BY <2>1
  <2>3. m.own => /\ d.rev \in 1 .. Len(h)
                 /\ d.total = Len(h[d.rev])
                 /\ h[d.rev] = h[t.base] \o Added(t)
    BY <1>2, <1>4, <1>7, <2>2
  <2>4. DeltaOK(h, m)
    BY <1>5, <1>6, <2>1, <2>3 DEF DeltaOK
  <2>5. QED
    BY <2>4 DEF m, h
<1>12. QED
  BY <1>8, <1>10, <1>11 DEF ReplyOK

\* A group patch is exact unless the dataset has been replaced since
\* (pools_explorer.py 1629-1640).
LEMMA PatchFacts ==
    ASSUME TypeOK, ServerOK, NEW t \in tasks, t.st = "done"
    PROVE  PatchOf(t) \in Payloads /\ ReplyOK(hist, PatchOf(t))
<1> DEFINE h == hist[t.key]
           q == Revision(t.key)
           b == (q = t.rev)
           d == Descriptor(h[t.rev], PreviewLimit, q, b)
<1>1. t \in Tasks /\ t.key \in Keys /\ TaskOK(h, t)
  BY DEF TypeOK, ServerOK, Tasks
<1>2. h \in Histories /\ q \in 1 .. Len(h) /\ q \in Nat \ {0}
  BY <1>1, CurrentFacts
<1>3. t.rev \in 1 .. Len(h) /\ h[t.rev] \in Seq(Nat)
  BY <1>1, <1>2, RevisionRows DEF TaskOK
<1>4. PreviewLimit \in Nat /\ b \in BOOLEAN
  BY HydrationAssumption
<1>5. d \in Descriptors
  BY <1>2, <1>3, <1>4, DescriptorFacts
<1>6. \A g \in Histories : q \in 1 .. Len(g) /\ (b => g[q] = h[t.rev]) => Exact(g, d)
  BY <1>2, <1>3, <1>4, DescriptorFacts
<1>7. Exact(h, d)
  BY <1>2, <1>6
<1>8. PatchOf(t) = [kind |-> "patch", key |-> t.key, desc |-> d]
  BY DEF PatchOf
<1> HIDE DEF d
<1>9. QED
  BY <1>1, <1>5, <1>7, <1>8 DEF Payloads, ReplyOK

\* A task that has committed is answered by what its caller waits for.
LEMMA AnswerInv ==
    ASSUME IInv, NEW t \in tasks, Answer(t)
    PROVE  IInv'
<1>1. /\ t.st = "done" /\ tasks' = Without(t)
      /\ UNCHANGED <<hist, newest, view, reg, loops, out, sent, faults>>
  BY DEF Answer
<1>2. t.kind \in Kinds
  BY DEF IInv, TypeOK, Tasks
<1>3. PICK m \in Payloads : ReplyOK(hist, m) /\ replies' = replies \cup {m}
  <2>1. CASE t.kind = "load"
    <3>1. replies' = replies \cup {Snapshot}
      BY <2>1 DEF Answer
    <3>2. QED
      BY <3>1, SnapshotFacts DEF IInv
  <2>2. CASE t.kind = "append"
    <3>1. replies' = replies \cup {DeltaOf(t)}
      BY <2>2 DEF Answer
    <3>2. QED
      BY <1>1, <2>2, <3>1, DeltaFacts DEF IInv
  <2>3. CASE t.kind = "attach"
    <3>1. replies' = replies \cup {PatchOf(t)}
      BY <2>3 DEF Answer
    <3>2. QED
      BY <1>1, <3>1, PatchFacts DEF IInv
  <2>4. QED
    BY <1>2, <2>1, <2>2, <2>3 DEF Kinds
<1>4. TypeOK'
  BY <1>1, <1>3 DEF IInv, TypeOK, Without
<1>5. ServerOK'
  BY <1>1 DEF IInv, ServerOK, Without
<1>6. BrowserOK'
  BY <1>1, <1>3, OneMoreReply DEF IInv
<1>7. QED
  BY <1>4, <1>5, <1>6 DEF IInv

-----------------------------------------------------------------------------
(* Payloads reach the view. *)

\* A label raised without its rows marks the descriptor as not its own
\* (useMiniApp.ts 189-213).
LEMMA RelabelledFacts ==
    ASSUME NEW h \in Histories, NEW d \in Descriptors, Exact(h, d), NEW r \in Nat
    PROVE  Relabelled(d, r) \in Descriptors /\ Exact(h, Relabelled(d, r))
<1>1. CASE r <= d.rev
  BY <1>1 DEF Relabelled
<1>2. CASE ~(r <= d.rev)
  <2> DEFINE e == [d EXCEPT !.rev = r, !.own = FALSE]
  <2>1. Relabelled(d, r) = e
    BY <1>2 DEF Relabelled
  <2>2. d.rev \in Nat \ {0} /\ r \in Nat \ {0}
    BY <1>2 DEF Descriptors
  <2>3. e \in Descriptors /\ e.own = FALSE
    BY <2>2 DEF Descriptors
  <2>4. QED
    BY <2>1, <2>3 DEF Exact
<1>3. QED
  BY <1>1, <1>2

\* A delta on exactly its base gives the target; otherwise the fallback starts
\* afresh (useMiniApp.ts 166-186).
LEMMA ExtendedFacts ==
    ASSUME NEW h \in Histories, NEW v \in [Keys -> Descriptors],
           NEW m \in Payloads, m.kind = "delta", DeltaOK(h, m),
           Exact(h, v[m.key])
    PROVE  Extended(v, m) \in Descriptors /\ Exact(h, Extended(v, m))
<1> DEFINE d == v[m.key]
           f == m.fallback
           s == d.rows \o m.rows
           e == [f EXCEPT !.rows = s, !.own = m.own /\ d.own]
<1>1. /\ m.key \in Keys /\ f \in Descriptors /\ m.rows \in Seq(Nat)
      /\ m.own \in BOOLEAN /\ d \in Descriptors
  BY DEF Payloads
<1>2. Exact(h, f)
  BY DEF DeltaOK
<1>3. CASE CanAppend(v, m) /\ Len(s) = f.total
  <2>1. Extended(v, m) = e
    BY <1>3 DEF Extended, Appended
  <2>2. s \in Seq(Nat) /\ d.rows \in Seq(Nat) /\ d.own \in BOOLEAN
    BY <1>1, ConcatFacts DEF Descriptors
  <2>3. /\ e \in Descriptors /\ e.rows = s /\ e.rev = f.rev
        /\ e.total = f.total /\ e.own = (m.own /\ d.own)
    <3> HIDE DEF d, s
    <3>1. (m.own /\ d.own) \in BOOLEAN
      OBVIOUS
    <3>2. QED
      BY <1>1, <2>2, <3>1 DEF Descriptors
  <2>4. Exact(h, e)
    <3>1. SUFFICES ASSUME m.own, d.own
                   PROVE  /\ e.rev \in 1 .. Len(h)
                          /\ IsPrefixOf(e.rows, h[e.rev])
                          /\ e.total = Len(h[e.rev])
      BY <2>3 DEF Exact
    <3>2. d.rev = m.base /\ Len(d.rows) = m.baseRows
      BY <1>3 DEF CanAppend
    <3>3. /\ m.base \in 1 .. Len(h) /\ m.baseRows = Len(h[m.base])
          /\ f.rev \in 1 .. Len(h) /\ f.total = Len(h[f.rev])
          /\ h[f.rev] = h[m.base] \o m.rows
      BY <3>1 DEF DeltaOK
    <3>4. h[m.base] \in Seq(Nat) /\ h[f.rev] \in Seq(Nat) /\ Len(h[m.base]) \in Nat
      BY <3>3, RevisionRows
    <3>5. IsPrefixOf(d.rows, h[m.base])
      BY <3>1, <3>2 DEF Exact
    <3>6. d.rows = h[m.base]
      <4>1. Len(h[m.base]) <= Len(d.rows)
        BY <3>2, <3>3, <3>4
      <4>2. QED
        BY <2>2, <3>4, <3>5, <4>1, PrefixFull
    <3>7. s = h[f.rev]
      BY <3>3, <3>6
    <3>8. QED
      BY <2>3, <3>3, <3>4, <3>7, PrefixSelf
  <2>5. QED
    BY <2>1, <2>3, <2>4
<1>4. CASE ~(CanAppend(v, m) /\ Len(s) = f.total)
  <2>1. Extended(v, m) = f
    BY <1>4 DEF Extended, Appended
  <2>2. QED
    BY <1>1, <1>2, <2>1
<1>5. QED
  BY <1>3, <1>4

\* Whatever payload arrives, the view stays exact where label and rows came
\* together (applyPayload, useMiniApp.ts 270-293).
LEMMA ApplyFacts ==
    ASSUME TypeOK, BrowserOK, NEW m \in replies
    PROVE  /\ Apply(view, m) \in [Keys -> Descriptors]
           /\ \A k \in Keys : Exact(hist[k], Apply(view, m)[k])
<1>1. /\ m \in Payloads /\ ReplyOK(hist, m)
      /\ view \in [Keys -> Descriptors]
      /\ \A k \in Keys : hist[k] \in Histories /\ Exact(hist[k], view[k])
  BY DEF TypeOK, BrowserOK, Histories
<1>2. CASE m.kind = "initial"
  BY <1>1, <1>2 DEF Apply, Payloads, ReplyOK
<1>3. CASE m.kind = "patch"
  <2>1. m.key \in Keys /\ m.desc \in Descriptors /\ Exact(hist[m.key], m.desc)
    BY <1>1, <1>3 DEF Payloads, ReplyOK
  <2>2. Apply(view, m) = [view EXCEPT ![m.key] = m.desc]
    BY <1>3 DEF Apply
  <2>3. QED
    BY <1>1, <2>1, <2>2
<1>4. CASE m.kind = "delta"
  <2>1. /\ m.key \in Keys /\ m.revs \in [Keys -> Nat]
        /\ DeltaOK(hist[m.key], m)
    BY <1>1, <1>4 DEF Payloads, ReplyOK
  <2>2. Apply(view, m) = ApplyDelta(view, m)
    BY <1>4 DEF Apply
  <2>3. CASE m.revs[m.key] <= view[m.key].rev
    BY <1>1, <2>2, <2>3 DEF ApplyDelta
  <2>4. CASE ~(m.revs[m.key] <= view[m.key].rev)
    <3>1. Apply(view, m) = [k \in Keys |->
              IF k = m.key THEN Extended(view, m)
              ELSE Relabelled(view[k], m.revs[k])]
      BY <2>2, <2>4 DEF ApplyDelta
    <3>2. Extended(view, m) \in Descriptors /\ Exact(hist[m.key], Extended(view, m))
      BY <1>1, <1>4, <2>1, ExtendedFacts
    <3>3. \A k \in Keys : /\ Relabelled(view[k], m.revs[k]) \in Descriptors
                         /\ Exact(hist[k], Relabelled(view[k], m.revs[k]))
      BY <1>1, <2>1, RelabelledFacts
    <3>4. QED
      BY <3>1, <3>2, <3>3
  <2>5. QED
    BY <2>3, <2>4
<1>5. QED
  BY <1>1, <1>2, <1>3, <1>4 DEF Payloads

\* Delivery, repeated delivery and loss of a payload.
LEMMA PayloadInv ==
    ASSUME IInv, NEW m \in replies, Deliver(m) \/ DeliverTwice(m) \/ Lose(m)
    PROVE  IInv'
<1>1. /\ UNCHANGED <<hist, newest, tasks, reg, loops, out, sent>>
      /\ replies' \subseteq replies
      /\ view' = view \/ view' = Apply(view, m)
      /\ faults' = faults \/ faults' = faults + 1
  BY DEF Deliver, DeliverTwice, Lose
<1>2. /\ view' \in [Keys -> Descriptors]
      /\ \A k \in Keys : Exact(hist[k], view'[k])
  BY <1>1, ApplyFacts DEF IInv, TypeOK, BrowserOK
<1>3. TypeOK'
  BY <1>1, <1>2 DEF IInv, TypeOK
<1>4. ServerOK'
  BY <1>1 DEF IInv, ServerOK
<1>5. BrowserOK'
  BY <1>1, <1>2 DEF IInv, BrowserOK
<1>6. QED
  BY <1>3, <1>4, <1>5 DEF IInv

-----------------------------------------------------------------------------
(* The effect and the loops (useHydratedDatasets.ts). *)

\* An orphaned loop is no longer live (useHydratedDatasets.ts 217-219).
LEMMA OrphanFacts ==
    ASSUME NEW ls \in SUBSET Loops
    PROVE  /\ Orphaned(ls) \in SUBSET Loops
           /\ \A l \in Orphaned(ls) : l.live = FALSE
BY DEF Orphaned, Loops

\* A dataset that changed starts from its preview, with a loop if rows are
\* missing (useHydratedDatasets.ts 145-215).
LEMMA RestartFacts ==
    ASSUME TypeOK, NEW k \in Keys, Exact(hist[k], view[k]),
           NEW r, r = [rev |-> view[k].rev, total |-> view[k].total,
                       own |-> view[k].own],
           NEW ls, ls = Orphaned(loops[k]) \cup
                          (IF CanHydrate(k) THEN {Loop(view[k])} ELSE {})
    PROVE  /\ r \in Registered
           /\ Restarted(k) \in Shown
           /\ ls \in SUBSET Loops
           /\ HydratedOK(hist[k], r, Restarted(k), ls, RowCap[k])
<1> DEFINE d == view[k]
           c == hist[k][d.rev]
           o == Restarted(k)
<1>1. /\ d \in Descriptors /\ hist[k] \in Histories
      /\ loops[k] \in SUBSET Loops /\ RowCap[k] \in Nat \ {0}
  BY HydrationAssumption DEF TypeOK, Histories
<1>2. /\ d.rows \in Seq(Nat) /\ d.total \in Nat /\ d.rev \in Nat \ {0}
      /\ d.own \in BOOLEAN /\ Len(d.rows) \in Nat
  BY <1>1, LenProperties DEF Descriptors
<1>3. /\ o.rows = d.rows
      /\ o.phase = IF CanHydrate(k) THEN "loading" ELSE "complete"
      /\ o.truncated = (Len(d.rows) < d.total /\ Len(d.rows) >= RowCap[k])
      /\ o \in Shown
  BY <1>2 DEF Restarted, Shown, Phases
<1>4. CanHydrate(k) <=> Len(d.rows) < d.total /\ Len(d.rows) < RowCap[k]
  BY DEF CanHydrate
<1>5. r \in Registered
  BY <1>2 DEF Registered
<1>6. /\ Loop(d) \in Loops /\ Loop(d).live /\ Loop(d).rev = d.rev
      /\ Loop(d).own = d.own /\ Loop(d).acc = d.rows /\ Loop(d).st = "asked"
  BY <1>2, EmptySeq DEF Loop, Loops, NoPage, Pages
<1>7. /\ Orphaned(loops[k]) \in SUBSET Loops
      /\ \A l \in Orphaned(loops[k]) : l.live = FALSE
  BY <1>1, OrphanFacts
<1> HIDE DEF d, o
<1>8. ls \in SUBSET Loops
  BY <1>6, <1>7 DEF d
<1>9. ShownOK(hist[k], r, o, RowCap[k])
  <2>1. SUFFICES ASSUME d.own
                 PROVE  /\ r.rev \in 1 .. Len(hist[k])
                        /\ r.total = Len(hist[k][r.rev])
                        /\ IsPrefixOf(o.rows, hist[k][r.rev])
                        /\ o.phase = "complete" =>
                             IF o.truncated THEN Len(o.rows) >= RowCap[k]
                             ELSE Len(o.rows) = Len(hist[k][r.rev])
    BY DEF ShownOK, d
  <2>2. /\ d.rev \in 1 .. Len(hist[k]) /\ IsPrefixOf(d.rows, c)
        /\ d.total = Len(c) /\ r.rev = d.rev /\ r.total = d.total
    BY <2>1 DEF Exact, d
  <2>3. Len(d.rows) <= Len(c) /\ Len(c) \in Nat
    BY <1>2, <2>2 DEF IsPrefixOf
  <2>4. o.phase = "complete" =>
          IF o.truncated THEN Len(o.rows) >= RowCap[k] ELSE Len(o.rows) = Len(c)
    <3> HIDE DEF c
    <3>1. SUFFICES ASSUME o.phase = "complete"
                   PROVE  IF o.truncated THEN Len(o.rows) >= RowCap[k]
                          ELSE Len(o.rows) = Len(c)
      OBVIOUS
    <3>2. ~CanHydrate(k)
      BY <1>3, <3>1
    <3>3. CASE o.truncated
      <4>1. Len(d.rows) >= RowCap[k]
        BY <1>3, <3>3
      <4>2. QED
        BY <1>3, <3>3, <4>1
    <3>4. CASE ~o.truncated
      <4>1. ~(Len(d.rows) < d.total /\ Len(d.rows) >= RowCap[k])
        BY <1>3, <3>4
      <4>2. Len(d.rows) = Len(c)
        BY <1>1, <1>2, <1>4, <2>2, <2>3, <3>2, <4>1
      <4>3. QED
        BY <1>3, <3>4, <4>2
    <3>5. QED
      BY <3>3, <3>4
  <2>5. QED
    BY <1>3, <2>2, <2>4
<1>10. \A l \in ls : LoopOK(hist[k], r, o, l)
  <2>1. SUFFICES ASSUME CanHydrate(k)
                 PROVE  LoopOK(hist[k], r, o, Loop(d))
    BY <1>7 DEF LoopOK, d
  <2>2. d.own => IsPrefixOf(d.rows, c)
    BY DEF Exact, d
  <2>3. IsPrefixOf(d.rows, d.rows)
    BY <1>2, PrefixSelf
  <2>4. r.rev = d.rev /\ r.own = d.own
    BY DEF d
  <2>5. QED
    BY <1>3, <1>6, <2>2, <2>3, <2>4 DEF LoopOK
<1>11. Paired(o, ls)
  <2>1. \A l \in ls : l.live => CanHydrate(k) /\ l = Loop(d)
    BY <1>7 DEF d
  <2>2. CanHydrate(k) => Loop(d) \in ls
    BY DEF d
  <2>3. QED
    BY <1>3, <1>6, <2>1, <2>2 DEF Paired
<1>12. QED
  BY <1>3, <1>5, <1>8, <1>9, <1>10, <1>11 DEF HydratedOK, o

\* The effect restarts what changed and keeps the rest.
LEMMA HydrateInv ==
    ASSUME IInv, Hydrate
    PROVE  IInv'
<1> DEFINE R(k) == [rev |-> view[k].rev, total |-> view[k].total,
                    own |-> view[k].own]
           L(k) == Orphaned(loops[k]) \cup
                     (IF CanHydrate(k) THEN {Loop(view[k])} ELSE {})
<1>1. /\ reg' = [k \in Keys |-> IF Changed(k) THEN R(k) ELSE reg[k]]
      /\ out' = [k \in Keys |-> IF Changed(k) THEN Restarted(k) ELSE out[k]]
      /\ loops' = [k \in Keys |-> IF ~Changed(k) THEN loops[k] ELSE L(k)]
      /\ UNCHANGED <<hist, newest, tasks, replies, view, sent, faults>>
  BY DEF Hydrate
<1>2. \A k \in Keys : /\ R(k) \in Registered
                     /\ Restarted(k) \in Shown
                     /\ L(k) \in SUBSET Loops
                     /\ HydratedOK(hist[k], R(k), Restarted(k), L(k), RowCap[k])
  BY RestartFacts DEF IInv, BrowserOK
<1> HIDE DEF R, L
<1>3. TypeOK'
  <2>1. /\ reg' \in [Keys -> Registered] /\ out' \in [Keys -> Shown]
        /\ loops' \in [Keys -> SUBSET Loops]
    BY <1>1, <1>2 DEF IInv, TypeOK
  <2>2. QED
    BY <1>1, <2>1 DEF IInv, TypeOK
<1>4. ServerOK'
  BY <1>1 DEF IInv, ServerOK
<1>5. \A k \in Keys :
          HydratedOK(hist[k], reg'[k], out'[k], loops'[k], RowCap[k])
  BY <1>1, <1>2 DEF IInv, BrowserOK
<1>6. BrowserOK'
  BY <1>1, <1>5 DEF IInv, BrowserOK
<1>7. QED
  BY <1>3, <1>4, <1>6 DEF IInv

\* A step of one dataset's loops concerns what that dataset shows only.
LEMMA LoopStepInv ==
    ASSUME IInv, NEW k \in Keys, NEW ls \in SUBSET Loops, NEW o \in Shown,
           loops' = [loops EXCEPT ![k] = ls], out' = [out EXCEPT ![k] = o],
           faults' \in Nat,
           UNCHANGED <<hist, newest, tasks, replies, view, reg, sent>>,
           HydratedOK(hist[k], reg[k], o, ls, RowCap[k])
    PROVE  IInv'
<1>1. TypeOK'
  BY DEF IInv, TypeOK
<1>2. ServerOK'
  BY DEF IInv, ServerOK
<1>3. \A j \in Keys : HydratedOK(hist[j], reg[j], out'[j], loops'[j], RowCap[j])
  BY DEF IInv, TypeOK, BrowserOK
<1>4. BrowserOK'
  BY <1>3 DEF IInv, BrowserOK
<1>5. QED
  BY <1>1, <1>2, <1>4 DEF IInv

\* A loop that is given a page, or asks for the next one, stays the only one.
LEMMA PairedAgain ==
    ASSUME NEW o, NEW ls, Paired(o, ls), NEW l \in ls, NEW n, n.live = l.live
    PROVE  Paired(o, (ls \ {l}) \cup {n})
BY DEF Paired

\* A page that was given leaves the rows of the loop alone.
LEMMA GivenFacts ==
    ASSUME NEW l \in Loops, NEW page \in Pages
    PROVE  /\ Given(l, page) \in Loops
           /\ Given(l, page).live = l.live
           /\ Given(l, page).rev = l.rev
           /\ Given(l, page).own = l.own
           /\ Given(l, page).acc = l.acc
           /\ Given(l, page).page = page
BY DEF Given, Loops

\* The smaller of two numbers.
LEMMA LeastFacts ==
    ASSUME NEW m \in Int, NEW n \in Int
    PROVE  Least(m, n) \in Int /\ Least(m, n) <= m /\ Least(m, n) <= n
BY DEF Least

\* The page of a revision continues the rows of the loop that asks for it
\* (get_view_dataset_page, mini_apps.py 932-1006).
LEMMA PageFacts ==
    ASSUME TypeOK, ServerOK, NEW k \in Keys, NEW l \in loops[k],
           ~Refused(k, l),
           NEW n \in Least(1, PageLimit(k, l)) .. PageLimit(k, l)
    PROVE  /\ PageOf(k, l, n) \in Pages
           /\ PageOf(k, l, n).total = Len(hist[k][l.rev])
           /\ IsPrefixOf(l.acc, hist[k][l.rev]) =>
                 IsPrefixOf(l.acc \o PageOf(k, l, n).rows, hist[k][l.rev])
<1> DEFINE c == Contents(k)
           s == l.acc
           e == Len(s) + n
           u == SubSeq(c, Len(s) + 1, e)
<1>1. /\ c = hist[k][Revision(k)] /\ c \in Seq(Nat) /\ Len(c) \in Nat
  BY CurrentFacts
<1>2. l \in Loops /\ s \in Seq(Nat) /\ Len(s) \in Nat
  BY LenProperties DEF TypeOK, Loops
<1>3. l.rev = Revision(k) /\ Len(s) <= Len(c)
  BY <1>1, <1>2 DEF Refused
<1>4. RowCap[k] \in Nat /\ PageSize \in Nat
  BY HydrationAssumption
<1>5. PageLimit(k, l) \in Int /\ PageLimit(k, l) <= Len(c) - Len(s)
  <2> HIDE DEF c, s
  <2>1. PageLimit(k, l) =
          Least(Least(PageSize, RowCap[k] - Len(s)), Len(c) - Len(s))
    BY DEF PageLimit, c, s
  <2>2. RowCap[k] - Len(s) \in Int /\ Len(c) - Len(s) \in Int /\ PageSize \in Int
    BY <1>1, <1>2, <1>4
  <2>3. QED
    BY <2>1, <2>2, LeastFacts
<1>6. e \in Int /\ e <= Len(c)
  <2> HIDE DEF c, s
  <2>1. Least(1, PageLimit(k, l)) \in Int
    BY <1>5, LeastFacts
  <2>2. n \in Int /\ n <= PageLimit(k, l)
    BY <1>5, <2>1
  <2>3. QED
    BY <1>1, <1>2, <1>5, <2>2
<1>7. /\ u \in Seq(Nat)
      /\ IsPrefixOf(s, c) => IsPrefixOf(s \o u, c)
  <2> HIDE DEF c, s, e
  <2>1. QED
    BY <1>1, <1>2, <1>3, <1>6, NextRows
<1>8. PageOf(k, l, n) = [ok |-> TRUE, rows |-> u, total |-> Len(c),
                         more |-> e < Len(c)]
  BY DEF PageOf
<1> HIDE DEF c, s, e, u
<1>9. QED
  BY <1>1, <1>3, <1>7, <1>8 DEF Pages, s

\* What the invariant says of the loops of one dataset.
LEMMA LoopFacts ==
    ASSUME IInv, NEW k \in Keys, NEW l \in loops[k]
    PROVE  /\ l \in Loops /\ loops[k] \in SUBSET Loops
           /\ out[k] \in Shown /\ reg[k] \in Registered
           /\ l.acc \in Seq(Nat) /\ l.page \in Pages /\ Sum(l) \in Seq(Nat)
           /\ IsPrefixOf(l.acc, Sum(l))
           /\ HydratedOK(hist[k], reg[k], out[k], loops[k], RowCap[k])
           /\ LoopOK(hist[k], reg[k], out[k], l)
           /\ reg[k].own => /\ reg[k].rev \in 1 .. Len(hist[k])
                            /\ hist[k][reg[k].rev] \in Seq(Nat)
<1>1. /\ l \in Loops /\ loops[k] \in SUBSET Loops /\ out[k] \in Shown
      /\ reg[k] \in Registered /\ hist[k] \in Histories
  BY DEF IInv, TypeOK, Histories
<1>2. l.acc \in Seq(Nat) /\ l.page \in Pages /\ l.page.rows \in Seq(Nat)
  BY <1>1 DEF Loops, Pages
<1>3. Sum(l) \in Seq(Nat) /\ IsPrefixOf(l.acc, Sum(l))
  BY <1>2, ConcatFacts DEF Sum
<1>4. HydratedOK(hist[k], reg[k], out[k], loops[k], RowCap[k])
  BY DEF IInv, BrowserOK
<1>5. LoopOK(hist[k], reg[k], out[k], l)
  BY <1>4 DEF HydratedOK
<1>6. reg[k].own => reg[k].rev \in 1 .. Len(hist[k])
  BY <1>4 DEF HydratedOK, ShownOK
<1>7. QED
  BY <1>1, <1>2, <1>3, <1>4, <1>5, <1>6, RevisionRows

\* A page, or its absence, is handed to the loop that awaits it.
LEMMA GivenInv ==
    ASSUME IInv, NEW k \in Keys, NEW l \in loops[k], NEW page \in Pages,
           loops' = [loops EXCEPT ![k] = (@ \ {l}) \cup {Given(l, page)}],
           faults' \in Nat,
           UNCHANGED <<hist, newest, tasks, replies, view, reg, out, sent>>,
           page.ok /\ l.live /\ reg[k].own =>
             /\ IsPrefixOf(l.acc \o page.rows, hist[k][reg[k].rev])
             /\ page.total = Len(hist[k][reg[k].rev])
    PROVE  IInv'
<1> DEFINE n == Given(l, page)
           ls == (loops[k] \ {l}) \cup {n}
<1>1. /\ l \in Loops /\ loops[k] \in SUBSET Loops /\ out[k] \in Shown
      /\ LoopOK(hist[k], reg[k], out[k], l)
      /\ HydratedOK(hist[k], reg[k], out[k], loops[k], RowCap[k])
  BY LoopFacts
<1>2. /\ n \in Loops /\ n.live = l.live /\ n.rev = l.rev /\ n.own = l.own
      /\ n.acc = l.acc /\ n.page = page
  BY <1>1, GivenFacts
<1>3. LoopOK(hist[k], reg[k], out[k], n)
  <2> HIDE DEF n
  <2>1. Sum(n) = l.acc \o page.rows
    BY <1>2 DEF Sum
  <2>2. QED
    BY <1>1, <1>2, <2>1 DEF LoopOK
<1>4. Paired(out[k], ls)
  <2> HIDE DEF n
  <2>1. Paired(out[k], loops[k])
    BY <1>1 DEF HydratedOK
  <2>2. QED
    BY <1>2, <2>1, PairedAgain
<1>5. ls \in SUBSET Loops /\ HydratedOK(hist[k], reg[k], out[k], ls, RowCap[k])
  <2> HIDE DEF n
  <2>1. QED
    BY <1>1, <1>2, <1>3, <1>4 DEF HydratedOK
<1>6. /\ loops' = [loops EXCEPT ![k] = ls]
      /\ out' = [out EXCEPT ![k] = out[k]]
  BY DEF IInv, TypeOK
<1> HIDE DEF ls
<1>7. QED
  BY <1>1, <1>5, <1>6, LoopStepInv

\* No page is a page too.
LEMMA NoPageType == NoPage \in Pages /\ NoPage.ok = FALSE
BY EmptySeq DEF NoPage, Pages

\* The server answers, or refuses a revision that is no longer current.
LEMMA ServeInv ==
    ASSUME IInv, NEW k \in Keys, NEW l \in loops[k], Serve(k, l)
    PROVE  IInv'
<1>1. PICK page \in IF Refused(k, l) THEN {NoPage}
                    ELSE {PageOf(k, l, n) :
                            n \in Least(1, PageLimit(k, l)) .. PageLimit(k, l)} :
         loops' = [loops EXCEPT ![k] = (@ \ {l}) \cup {Given(l, page)}]
  BY DEF Serve
<1>2. UNCHANGED <<hist, newest, tasks, replies, view, reg, out, sent, faults>>
  BY DEF Serve
<1>3. faults' \in Nat
  BY <1>2 DEF IInv, TypeOK
<1>4. CASE Refused(k, l)
  <2>1. page \in Pages /\ page.ok = FALSE
    BY <1>1, <1>4, NoPageType
  <2>2. QED
    BY <1>1, <1>2, <1>3, <2>1, GivenInv
<1>5. CASE ~Refused(k, l)
  <2>1. PICK n \in Least(1, PageLimit(k, l)) .. PageLimit(k, l) :
            page = PageOf(k, l, n)
    BY <1>1, <1>5
  <2>2. /\ page \in Pages
        /\ page.total = Len(hist[k][l.rev])
        /\ IsPrefixOf(l.acc, hist[k][l.rev]) =>
              IsPrefixOf(l.acc \o page.rows, hist[k][l.rev])
    BY <1>5, <2>1, PageFacts DEF IInv
  <2>3. l.live /\ reg[k].own =>
          l.rev = reg[k].rev /\ IsPrefixOf(l.acc, hist[k][reg[k].rev])
    BY LoopFacts DEF LoopOK
  <2>4. QED
    BY <1>1, <1>2, <1>3, <2>2, <2>3, GivenInv
<1>6. QED
  BY <1>4, <1>5

\* A fetch that throws gives no page.
LEMMA FetchFailsInv ==
    ASSUME IInv, NEW k \in Keys, NEW l \in loops[k], FetchFails(k, l)
    PROVE  IInv'
<1>1. /\ loops' = [loops EXCEPT ![k] = (@ \ {l}) \cup {Given(l, NoPage)}]
      /\ faults' = faults + 1
      /\ UNCHANGED <<hist, newest, tasks, replies, view, reg, out, sent>>
  BY DEF FetchFails
<1>2. faults' \in Nat
  BY <1>1 DEF IInv, TypeOK
<1>3. QED
  BY <1>1, <1>2, NoPageType, GivenInv

\* An orphaned loop ends without a trace.
LEMMA ResumeStaleInv ==
    ASSUME IInv, NEW k \in Keys, NEW l \in loops[k], ResumeStale(k, l)
    PROVE  IInv'
<1> DEFINE ls == loops[k] \ {l}
<1>1. /\ ~l.live /\ loops' = [loops EXCEPT ![k] = ls]
      /\ UNCHANGED <<hist, newest, tasks, replies, view, reg, out, sent, faults>>
  BY DEF ResumeStale, Stale
<1>2. /\ loops[k] \in SUBSET Loops /\ out[k] \in Shown
      /\ HydratedOK(hist[k], reg[k], out[k], loops[k], RowCap[k])
  BY LoopFacts
<1>3. HydratedOK(hist[k], reg[k], out[k], ls, RowCap[k])
  BY <1>1, <1>2 DEF HydratedOK, Paired
<1>4. ls \in SUBSET Loops
  BY <1>2
<1>5. out' = [out EXCEPT ![k] = out[k]] /\ faults' \in Nat
  BY <1>1 DEF IInv, TypeOK
<1> HIDE DEF ls
<1>6. QED
  BY <1>1, <1>2, <1>3, <1>4, <1>5, LoopStepInv

\* The only live loop of a dataset ends: the others are orphans.
LEMMA LastLoop ==
    ASSUME NEW o, NEW ls, Paired(o, ls), NEW l \in ls, l.live
    PROVE  /\ o.phase = "loading"
           /\ \A m \in ls \ {l} : ~m.live
BY DEF Paired

\* A load that ends shows rows of its revision, and is left by its loop.
LEMMA EndInv ==
    ASSUME IInv, NEW k \in Keys, NEW l \in loops[k], l.live,
           NEW o \in Shown, o.phase # "loading",
           loops' = [loops EXCEPT ![k] = @ \ {l}],
           out' = [out EXCEPT ![k] = o],
           UNCHANGED <<hist, newest, tasks, replies, view, reg, sent, faults>>,
           ShownOK(hist[k], reg[k], o, RowCap[k])
    PROVE  IInv'
<1> DEFINE ls == loops[k] \ {l}
<1>1. /\ loops[k] \in SUBSET Loops
      /\ HydratedOK(hist[k], reg[k], out[k], loops[k], RowCap[k])
  BY LoopFacts
<1>2. \A m \in ls : ~m.live
  BY <1>1, LastLoop DEF HydratedOK
<1>3. HydratedOK(hist[k], reg[k], o, ls, RowCap[k])
  BY <1>2 DEF HydratedOK, LoopOK, Paired
<1>4. ls \in SUBSET Loops /\ faults' \in Nat
  BY <1>1 DEF IInv, TypeOK
<1>5. loops' = [loops EXCEPT ![k] = ls]
  OBVIOUS
<1> HIDE DEF ls
<1>6. QED
  BY <1>3, <1>4, <1>5, LoopStepInv

\* What a live loop with a sound page may publish.
LEMMA SumFacts ==
    ASSUME IInv, NEW k \in Keys, NEW l \in loops[k], l.live,
           l.st = "answered", reg[k].own
    PROVE  /\ IsPrefixOf(out[k].rows, l.acc)
           /\ IsPrefixOf(out[k].rows, Sum(l))
           /\ IsPrefixOf(l.acc, hist[k][reg[k].rev])
           /\ l.page.ok => /\ IsPrefixOf(Sum(l), hist[k][reg[k].rev])
                           /\ l.page.total = Len(hist[k][reg[k].rev])
<1>1. /\ LoopOK(hist[k], reg[k], out[k], l)
      /\ l.acc \in Seq(Nat) /\ Sum(l) \in Seq(Nat) /\ IsPrefixOf(l.acc, Sum(l))
      /\ out[k].rows \in Seq(Nat)
  BY LoopFacts DEF Shown
<1>2. /\ IsPrefixOf(out[k].rows, l.acc)
      /\ IsPrefixOf(l.acc, hist[k][reg[k].rev])
      /\ l.page.ok => /\ IsPrefixOf(Sum(l), hist[k][reg[k].rev])
                      /\ l.page.total = Len(hist[k][reg[k].rev])
  BY <1>1 DEF LoopOK
<1>3. IsPrefixOf(out[k].rows, Sum(l))
  BY <1>1, <1>2, PrefixTrans
<1>4. QED
  BY <1>2, <1>3

\* The rows a broken load shows, as a loop leaves them.
BrokenRows(l) == IF l.page.ok THEN Sum(l) ELSE l.acc

Failed(l) == [rows |-> BrokenRows(l), phase |-> "failed", truncated |-> FALSE]

\* A load that breaks keeps the rows it has (useHydratedDatasets.ts 315-333).
LEMMA ResumeBrokenInv ==
    ASSUME IInv, NEW k \in Keys, NEW l \in loops[k], ResumeBroken(k, l)
    PROVE  IInv'
<1>1. /\ l.live /\ l.st = "answered"
      /\ loops' = [loops EXCEPT ![k] = @ \ {l}]
      /\ out' = [out EXCEPT ![k] = Failed(l)]
      /\ UNCHANGED <<hist, newest, tasks, replies, view, reg, sent, faults>>
  BY DEF ResumeBroken, Stale, Failed, BrokenRows
<1>2. l.acc \in Seq(Nat) /\ Sum(l) \in Seq(Nat)
  BY LoopFacts
<1>3. BrokenRows(l) \in Seq(Nat)
  BY <1>2 DEF BrokenRows
<1>4. Failed(l) \in Shown /\ Failed(l).phase = "failed" /\ Failed(l).rows = BrokenRows(l)
  BY <1>3 DEF Failed, Shown, Phases
<1>5. reg[k].own => IsPrefixOf(BrokenRows(l), hist[k][reg[k].rev])
  BY <1>1, SumFacts DEF BrokenRows
<1>6. ShownOK(hist[k], reg[k], out[k], RowCap[k])
  BY LoopFacts DEF HydratedOK
<1>7. ShownOK(hist[k], reg[k], Failed(l), RowCap[k])
  BY <1>4, <1>5, <1>6 DEF ShownOK
<1>8. QED
  BY <1>1, <1>4, <1>7, EndInv

\* A loop that goes on keeps its label and takes the rows of the page.
LEMMA AskingFacts ==
    ASSUME IInv, NEW k \in Keys, NEW l \in loops[k]
    PROVE  /\ Asking(l) \in Loops
           /\ Asking(l).live = l.live
           /\ Asking(l).rev = l.rev
           /\ Asking(l).own = l.own
           /\ Asking(l).acc = Sum(l)
           /\ Asking(l).st = "asked"
<1>1. l \in Loops /\ Sum(l) \in Seq(Nat) /\ Len(Sum(l)) \in Nat
  BY LoopFacts, LenProperties
<1> DEFINE p == IF Publishes(l) THEN Most(1, Len(Sum(l))) ELSE l.pub
<1>2. p \in Nat
  BY <1>1 DEF Most, Loops
<1>3. Asking(l) = [l EXCEPT !.acc = Sum(l), !.st = "asked", !.page = NoPage,
                            !.pub = p]
  BY DEF Asking
<1> HIDE DEF p
<1>4. QED
  BY <1>1, <1>2, <1>3, NoPageType DEF Loops

\* A loop that goes on publishes its rows, or keeps what is shown
\* (useHydratedDatasets.ts 242-278).
LEMMA ResumeOnInv ==
    ASSUME IInv, NEW k \in Keys, NEW l \in loops[k], ResumeOn(k, l)
    PROVE  IInv'
<1> DEFINE n == Asking(l)
           ls == (loops[k] \ {l}) \cup {n}
           o == IF Publishes(l)
                THEN [out[k] EXCEPT !.rows = Sum(l), !.phase = "loading"]
                ELSE out[k]
<1>1. /\ l.live /\ l.st = "answered" /\ l.page.ok
      /\ loops' = [loops EXCEPT ![k] = (@ \ {l}) \cup {n}]
      /\ UNCHANGED <<hist, newest, tasks, replies, view, reg, sent, faults>>
  BY DEF ResumeOn, Stale, Broken
<1>2. out' = [out EXCEPT ![k] = o]
  BY DEF ResumeOn, IInv, TypeOK
<1>3. /\ loops[k] \in SUBSET Loops /\ out[k] \in Shown /\ Sum(l) \in Seq(Nat)
      /\ LoopOK(hist[k], reg[k], out[k], l)
      /\ HydratedOK(hist[k], reg[k], out[k], loops[k], RowCap[k])
  BY LoopFacts
<1>4. /\ n \in Loops /\ n.live = l.live /\ n.rev = l.rev /\ n.own = l.own
      /\ n.acc = Sum(l) /\ n.st = "asked"
  BY AskingFacts
<1>5. /\ out[k].phase = "loading"
      /\ \A m \in loops[k] \ {l} : ~m.live
      /\ Paired(out[k], loops[k])
      /\ ShownOK(hist[k], reg[k], out[k], RowCap[k])
  BY <1>1, <1>3, LastLoop DEF HydratedOK
<1>6. /\ o \in Shown /\ o.phase = "loading"
      /\ o.rows = Sum(l) \/ o.rows = out[k].rows
  BY <1>3, <1>5 DEF Shown, Phases
<1>7. reg[k].own => /\ IsPrefixOf(out[k].rows, Sum(l))
                    /\ IsPrefixOf(Sum(l), hist[k][reg[k].rev])
  BY <1>1, SumFacts
<1>8. IsPrefixOf(Sum(l), Sum(l))
  BY <1>3, PrefixSelf
<1> HIDE DEF n, o
<1>9. ShownOK(hist[k], reg[k], o, RowCap[k])
  BY <1>5, <1>6, <1>7 DEF ShownOK
<1>10. LoopOK(hist[k], reg[k], o, n)
  <2>1. l.rev = reg[k].rev /\ l.own = reg[k].own
    BY <1>1, <1>3 DEF LoopOK
  <2>2. reg[k].own => IsPrefixOf(o.rows, Sum(l))
    BY <1>6, <1>7, <1>8
  <2>3. QED
    BY <1>4, <1>7, <2>1, <2>2 DEF LoopOK
<1>11. \A m \in ls : LoopOK(hist[k], reg[k], o, m)
  BY <1>5, <1>10 DEF LoopOK
<1>12. Paired(o, ls)
  <2>1. Paired(out[k], ls)
    BY <1>4, <1>5, PairedAgain
  <2>2. QED
    BY <1>5, <1>6, <2>1 DEF Paired
<1>13. ls \in SUBSET Loops /\ HydratedOK(hist[k], reg[k], o, ls, RowCap[k])
  BY <1>3, <1>4, <1>9, <1>11, <1>12 DEF HydratedOK
<1>14. loops' = [loops EXCEPT ![k] = ls] /\ faults' \in Nat
  BY <1>1 DEF IInv, TypeOK
<1> HIDE DEF ls
<1>15. QED
  BY <1>1, <1>2, <1>6, <1>13, <1>14, LoopStepInv

Finished(k, l) == [rows |-> Sum(l), phase |-> "complete",
                   truncated |-> /\ Len(Sum(l)) >= RowCap[k]
                                 /\ l.page.more \/ Len(Sum(l)) < l.page.total]

\* A load that ends well has every row, or as many as its cap
\* (useHydratedDatasets.ts 279-314).
LEMMA FinishedFacts ==
    ASSUME IInv, NEW k \in Keys, NEW l \in loops[k], l.live, l.st = "answered",
           ~Broken(k, l), ~GoesOn(k, l)
    PROVE  /\ Finished(k, l) \in Shown
           /\ Finished(k, l).phase = "complete"
           /\ Finished(k, l).rows = Sum(l)
           /\ ShownOK(hist[k], reg[k], Finished(k, l), RowCap[k])
<1> DEFINE o == Finished(k, l)
           c == hist[k][reg[k].rev]
           s == Sum(l)
<1>1. /\ s \in Seq(Nat) /\ Len(s) \in Nat /\ RowCap[k] \in Nat
      /\ l.page.total \in Nat /\ l.page.more \in BOOLEAN
  BY HydrationAssumption, LoopFacts, LenProperties DEF Pages
<1>2. /\ l.page.ok /\ l.page.total >= Len(s)
      /\ l.page.more \/ Len(s) >= l.page.total \/ Len(s) >= RowCap[k]
      /\ ~l.page.more \/ Len(s) >= RowCap[k]
  BY <1>1 DEF Broken, GoesOn
<1> HIDE DEF s
<1>3. /\ o \in Shown /\ o.phase = "complete" /\ o.rows = s
      /\ o.truncated = (Len(s) >= RowCap[k] /\ (l.page.more \/ Len(s) < l.page.total))
  BY <1>1 DEF Finished, Shown, Phases, s
<1>4. ShownOK(hist[k], reg[k], out[k], RowCap[k])
  BY LoopFacts DEF HydratedOK
<1> HIDE DEF o
<1>5. ASSUME reg[k].own
      PROVE  /\ IsPrefixOf(s, c)
             /\ IF o.truncated THEN Len(s) >= RowCap[k] ELSE Len(s) = Len(c)
  <2>1. IsPrefixOf(s, c) /\ l.page.total = Len(c)
    BY <1>2, <1>5, SumFacts DEF s
  <2>2. CASE o.truncated
    <3>1. Len(s) >= RowCap[k]
      BY <1>3, <2>2
    <3>2. QED
      BY <2>1, <2>2, <3>1
  <2>3. CASE ~o.truncated
    <3>1. ~(Len(s) >= RowCap[k]) \/ ~(Len(s) < l.page.total)
      BY <1>3, <2>3
    <3>2. Len(s) = Len(c)
      BY <1>1, <1>2, <2>1, <3>1
    <3>3. QED
      BY <2>1, <2>3, <3>2
  <2>4. QED
    BY <2>2, <2>3
<1>6. ShownOK(hist[k], reg[k], o, RowCap[k])
  BY <1>3, <1>4, <1>5 DEF ShownOK
<1>7. QED
  BY <1>3, <1>6 DEF o, s

\* The end of a load.
LEMMA ResumeDoneInv ==
    ASSUME IInv, NEW k \in Keys, NEW l \in loops[k], ResumeDone(k, l)
    PROVE  IInv'
<1>1. /\ l.live /\ l.st = "answered" /\ ~Broken(k, l) /\ ~GoesOn(k, l)
      /\ loops' = [loops EXCEPT ![k] = @ \ {l}]
      /\ out' = [out EXCEPT ![k] = Finished(k, l)]
      /\ UNCHANGED <<hist, newest, tasks, replies, view, reg, sent, faults>>
  BY DEF ResumeDone, Stale, Finished
<1>2. /\ Finished(k, l) \in Shown /\ Finished(k, l).phase # "loading"
      /\ ShownOK(hist[k], reg[k], Finished(k, l), RowCap[k])
  BY <1>1, FinishedFacts
<1>3. QED
  BY <1>1, <1>2, EndInv

-----------------------------------------------------------------------------
(* The theorems. *)

\* Nothing changes in a stuttering step.
LEMMA StutterInv ==
    ASSUME IInv, UNCHANGED vars
    PROVE  IInv'
<1>1. UNCHANGED <<hist, newest, tasks, replies, view, reg, loops, out, sent, faults>>
  BY DEF vars
<1>2. TypeOK'
  BY <1>1 DEF IInv, TypeOK
<1>3. ServerOK' /\ BrowserOK'
  BY <1>1 DEF IInv, ServerOK, BrowserOK
<1>4. QED
  BY <1>2, <1>3 DEF IInv

\* The invariant is inductive.
LEMMA NextInv ==
    ASSUME IInv, [Next]_vars
    PROVE  IInv'
<1>1. ASSUME NEW k \in Keys, NEW kind \in Kinds, Request(kind, k)
      PROVE  IInv'
  BY <1>1, RequestInv
<1>2. ASSUME NEW t \in tasks, Reserve(t) PROVE IInv'
  BY <1>2, ReserveInv
<1>3. ASSUME NEW t \in tasks, Commit(t) PROVE IInv'
  BY <1>3, CommitInv
<1>4. ASSUME NEW t \in tasks, Answer(t) PROVE IInv'
  BY <1>4, AnswerInv
<1>5. ASSUME NEW m \in replies, Deliver(m) \/ DeliverTwice(m) \/ Lose(m)
      PROVE  IInv'
  BY <1>5, PayloadInv
<1>6. ASSUME Hydrate PROVE IInv'
  BY <1>6, HydrateInv
<1>7. ASSUME NEW k \in Keys, NEW l \in loops[k], LoopStep(k, l)
      PROVE  IInv'
  <2>1. CASE Serve(k, l)
    BY <2>1, ServeInv
  <2>2. CASE FetchFails(k, l)
    BY <2>2, FetchFailsInv
  <2>3. CASE ResumeStale(k, l)
    BY <2>3, ResumeStaleInv
  <2>4. CASE ResumeBroken(k, l)
    BY <2>4, ResumeBrokenInv
  <2>5. CASE ResumeOn(k, l)
    BY <2>5, ResumeOnInv
  <2>6. CASE ResumeDone(k, l)
    BY <2>6, ResumeDoneInv
  <2>7. QED
    BY <1>7, <2>1, <2>2, <2>3, <2>4, <2>5, <2>6 DEF LoopStep
<1>8. CASE UNCHANGED vars
  BY <1>8, StutterInv
<1>9. QED
  BY <1>1, <1>2, <1>3, <1>4, <1>5, <1>6, <1>7, <1>8 DEF Next, ServerStep

\* IInv holds in every state of every behaviour.
THEOREM Inductive == Spec => []IInv
<1>1. Init => IInv
  BY InitInv
<1>2. IInv /\ [Next]_vars => IInv'
  BY NextInv
<1>3. QED
  BY <1>1, <1>2, PTL DEF Spec

\* Store, payloads, view and hydration state are typed.
THEOREM TypeCorrect == Spec => []TypeOK
<1>1. IInv => TypeOK
  BY DEF IInv
<1>2. QED
  BY <1>1, Inductive, PTL

\* A view that took descriptor and label together holds rows of the revision
\* that the label names, also after deltas (useMiniApp.ts 121-219).
THEOREM AppendIsExactCorrect == Spec => []AppendIsExact
<1>1. IInv => AppendIsExact
  BY DEF IInv, BrowserOK, Exact, AppendIsExact
<1>2. QED
  BY <1>1, Inductive, PTL

\* A dataset is never shown as complete with rows of another revision, or with
\* fewer than all of them or its cap (useHydratedDatasets.ts 279-314).
THEOREM CompleteIsExactCorrect == Spec => []CompleteIsExact
<1>1. IInv => CompleteIsExact
  BY DEF IInv, BrowserOK, HydratedOK, ShownOK, CompleteIsExact
<1>2. QED
  BY <1>1, Inductive, PTL

\* A dataset that is loading has one loop that is not orphaned, and no other
\* dataset has any (useHydratedDatasets.ts 145-241).
THEOREM LoadingHasLoopCorrect == Spec => []LoadingHasLoop
<1>1. IInv => LoadingHasLoop
  BY DEF IInv, BrowserOK, HydratedOK, Paired, LoadingHasLoop
<1>2. QED
  BY <1>1, Inductive, PTL

\* A delta that arrives twice changes nothing the second time: the first
\* delivery left its own revision, or a newer one, in the view (useMiniApp.ts
\* 136-146).
THEOREM DeltaOnceCorrect == Spec => []DeltaOnce
<1>1. ASSUME IInv, NEW m \in replies, m.kind = "delta"
      PROVE  Apply(Apply(view, m), m) = Apply(view, m)
  <2>1. /\ m \in Payloads /\ m.key \in Keys /\ m.revs[m.key] \in Nat
        /\ view \in [Keys -> Descriptors]
    BY <1>1 DEF IInv, TypeOK, Payloads
  <2>2. m.fallback.rev = m.revs[m.key] /\ m.fallback \in Descriptors
    BY <1>1, <2>1 DEF IInv, BrowserOK, ReplyOK, DeltaOK, Payloads
  <2>3. \A v : Apply(v, m) = ApplyDelta(v, m)
    BY <1>1 DEF Apply
  <2>4. CASE m.revs[m.key] <= view[m.key].rev
    BY <2>3, <2>4 DEF ApplyDelta
  <2>5. CASE ~(m.revs[m.key] <= view[m.key].rev)
    <3>1. PICK w : w = ApplyDelta(view, m)
      OBVIOUS
    <3>2. w[m.key] = Extended(view, m)
      BY <2>1, <2>5, <3>1 DEF ApplyDelta
    <3>3. Extended(view, m).rev = m.fallback.rev
      BY <2>2 DEF Extended, Descriptors
    <3>4. m.revs[m.key] <= w[m.key].rev
      BY <2>1, <2>2, <3>2, <3>3
    <3>5. ApplyDelta(w, m) = w
      BY <3>4 DEF ApplyDelta
    <3>6. QED
      BY <2>3, <3>1, <3>5
  <2>6. QED
    BY <2>4, <2>5
<1>2. IInv => DeltaOnce
  BY <1>1 DEF DeltaOnce
<1>3. QED
  BY <1>2, Inductive, PTL

-----------------------------------------------------------------------------
(* Hydration implements DatasetContract. *)

\* What the invariant says of one dataset, in the words of the contract.
LEMMA GoalFacts ==
    ASSUME IInv, NEW k \in Keys
    PROVE  /\ Goal(k) = Unknown <=> ~reg[k].own
           /\ reg[k].own => /\ reg[k].rev \in 1 .. Len(hist[k])
                            /\ Goal(k) = [rev |-> reg[k].rev,
                                          rows |-> hist[k][reg[k].rev]]
                            /\ reg[k].total = Len(hist[k][reg[k].rev])
           /\ Goal(k) # Unknown => Contract!Faithful(out[k], Goal(k).rows, RowCap[k])
<1>1. /\ hist[k] \in Histories /\ reg[k] \in Registered
      /\ ShownOK(hist[k], reg[k], out[k], RowCap[k])
  BY DEF IInv, TypeOK, BrowserOK, HydratedOK, Histories
<1>2. CASE reg[k].own
  <2>1. /\ reg[k].rev \in 1 .. Len(hist[k])
        /\ Goal(k) = [rev |-> reg[k].rev, rows |-> hist[k][reg[k].rev]]
        /\ Goal(k).rows = hist[k][reg[k].rev]
    BY <1>1, <1>2 DEF ShownOK, Goal
  <2>2. Goal(k) # Unknown
    <3>1. hist[k][reg[k].rev] \in Seq(Nat)
      BY <1>1, <2>1, RevisionRows
    <3>2. reg[k].rev \in Nat
      BY <1>1 DEF Registered
    <3>3. Goal(k) \in [rev : Nat, rows : Seq(Nat)]
      BY <2>1, <3>1, <3>2
    <3>4. QED
      BY <3>3, HydrationAssumption
  <2>3. Contract!Faithful(out[k], Goal(k).rows, RowCap[k])
    BY <1>1, <1>2, <2>1 DEF ShownOK, IsPrefixOf, Contract!Faithful, Contract!IsPrefixOf
  <2>4. reg[k].total = Len(hist[k][reg[k].rev])
    BY <1>1, <1>2, <2>1 DEF ShownOK
  <2>5. QED
    BY <1>2, <2>1, <2>2, <2>3, <2>4
<1>3. CASE ~reg[k].own
  BY <1>3 DEF Goal
<1>4. QED
  BY <1>2, <1>3

\* Where the contract has a goal, what is shown is faithful to it.
LEMMA ShownIsFaithful ==
    IInv => \A k \in Keys :
        Goal(k) # Unknown => Contract!Faithful(out[k], Goal(k).rows, RowCap[k])
BY GoalFacts

\* The same after a step that keeps the invariant.
LEMMA ShownStaysFaithful ==
    IInv' => \A k \in Keys :
        Goal(k)' # Unknown => Contract!Faithful(out'[k], (Goal(k).rows)', RowCap[k])
<1>1. (IInv => \A k \in Keys :
         Goal(k) # Unknown => Contract!Faithful(out[k], Goal(k).rows, RowCap[k]))'
  BY ShownIsFaithful, PTL
<1>2. QED
  BY <1>1 DEF Contract!Faithful, Contract!IsPrefixOf

\* A dataset whose registration and rows stay, while the store grows, is kept.
LEMMA KeepStep ==
    ASSUME IInv, NEW k \in Keys, Grown(hist[k], hist'[k]),
           reg'[k] = reg[k], out'[k] = out[k]
    PROVE  Contract!Keep(k)
<1>1. Goal(k)' = Goal(k)
  BY GoalFacts DEF Goal, Grown
<1>2. QED
  BY <1>1 DEF Goal, Contract!Keep

\* The same for a step that does not reach the store.
LEMMA SameStep ==
    ASSUME IInv, NEW k \in Keys, UNCHANGED hist,
           reg'[k] = reg[k], out'[k] = out[k]
    PROVE  Contract!Keep(k)
<1>1. Goal(k)' = Goal(k)
  BY DEF Goal
<1>2. QED
  BY <1>1 DEF Goal, Contract!Keep

\* A dataset that restarts is replaced: its rows are those of another revision.
LEMMA ReplaceStep ==
    ASSUME IInv, IInv', NEW k \in Keys, UNCHANGED hist, Changed(k),
           reg'[k] = [rev |-> view[k].rev, total |-> view[k].total,
                      own |-> view[k].own]
    PROVE  Contract!Replace(k)
<1>1. Goal(k)' = Unknown \/ Contract!Faithful(out'[k], (Goal(k).rows)', RowCap[k])
  BY ShownStaysFaithful
<1>2. Goal(k)' = Goal(k) => Goal(k) = Unknown
  <2>1. SUFFICES ASSUME Goal(k)' = Goal(k), Goal(k) # Unknown
                 PROVE  FALSE
    OBVIOUS
  <2>2. /\ reg[k].own /\ reg[k].rev \in 1 .. Len(hist[k])
        /\ Goal(k) = [rev |-> reg[k].rev, rows |-> hist[k][reg[k].rev]]
        /\ reg[k].total = Len(hist[k][reg[k].rev])
    BY <2>1, GoalFacts
  <2>3. /\ view[k].own
        /\ Goal(k)' = [rev |-> view[k].rev, rows |-> hist[k][view[k].rev]]
    BY <2>1 DEF Goal
  <2>4. hist[k] \in Histories /\ Exact(hist[k], view[k])
    BY DEF IInv, TypeOK, BrowserOK, Histories
  <2>5. /\ view[k].rev \in 1 .. Len(hist[k])
        /\ view[k].total = Len(hist[k][view[k].rev])
    BY <2>3, <2>4 DEF Exact
  <2>6. reg[k].rev = view[k].rev
    BY <2>1, <2>2, <2>3
  <2>7. reg[k].total = view[k].total
    BY <2>2, <2>5, <2>6
  <2>8. QED
    BY <2>6, <2>7 DEF Changed
<1>3. QED
  BY <1>1, <1>2 DEF Goal, Contract!Replace

\* A live loop shows more of the same contents, or ends the load.
LEMMA ExtendStep ==
    ASSUME IInv, IInv', NEW k \in Keys, UNCHANGED <<hist, reg>>,
           NEW l \in loops[k], l.live,
           reg[k].own => IsPrefixOf(out[k].rows, out'[k].rows)
    PROVE  Contract!Extend(k)
<1>1. Goal(k)' = Goal(k)
  BY DEF Goal
<1>2. out[k].phase = "loading"
  BY LoopFacts, LastLoop DEF HydratedOK
<1>3. Goal(k) # Unknown =>
        /\ Contract!IsPrefixOf(out[k].rows, out'[k].rows)
        /\ Contract!Faithful(out'[k], Goal(k).rows, RowCap[k])
  <2>1. Goal(k) # Unknown => Contract!Faithful(out'[k], Goal(k).rows, RowCap[k])
    BY <1>1, ShownStaysFaithful
  <2>2. Goal(k) # Unknown => IsPrefixOf(out[k].rows, out'[k].rows)
    BY GoalFacts
  <2>3. QED
    BY <2>1, <2>2 DEF IsPrefixOf, Contract!IsPrefixOf
<1>4. QED
  BY <1>1, <1>2, <1>3 DEF Goal, Contract!Extend

\* A commit is a step of the store, which keeps its revisions.
LEMMA CommitGrows ==
    ASSUME IInv, NEW t \in tasks, Commit(t), NEW k \in Keys
    PROVE  Grown(hist[k], hist'[k])
<1>1. t \in Tasks /\ hist[k] \in Histories /\ hist \in [Keys -> Histories]
  BY DEF IInv, TypeOK, Histories
<1>2. CASE hist' = hist
  BY <1>1, <1>2, LenProperties DEF Grown, Histories
<1>3. CASE \E c \in Outcomes(t) : hist' = [hist EXCEPT ![t.key] = Append(@, c)]
  <2>1. PICK c \in Outcomes(t) : hist' = [hist EXCEPT ![t.key] = Append(@, c)]
    BY <1>3
  <2>2. c \in Seq(Nat)
    BY <1>1, OutcomeFacts DEF IInv
  <2>3. CASE k = t.key
    BY <1>1, <2>1, <2>2, <2>3, AppendGrows
  <2>4. CASE k # t.key
    <3>1. hist'[k] = hist[k]
      BY <1>1, <2>1, <2>4
    <3>2. QED
      BY <1>1, <3>1, LenProperties DEF Grown, Histories
  <2>5. QED
    BY <2>3, <2>4
<1>4. QED
  BY <1>2, <1>3 DEF Commit

\* A loop that is resumed extends what it shows, unless it is an orphan.
LEMMA LoopStepContract ==
    ASSUME IInv, IInv', NEW k \in Keys, NEW l \in loops[k], LoopStep(k, l),
           NEW j \in Keys
    PROVE  Contract!Keep(j) \/ Contract!Extend(j)
<1>1. UNCHANGED <<hist, reg>>
  BY DEF LoopStep, Serve, FetchFails, ResumeStale, ResumeBroken, ResumeOn, ResumeDone
<1>2. out \in [Keys -> Shown]
  BY DEF IInv, TypeOK
<1>3. CASE Serve(k, l) \/ FetchFails(k, l) \/ ResumeStale(k, l)
  <2>1. out' = out
    BY <1>3 DEF Serve, FetchFails, ResumeStale
  <2>2. QED
    BY <1>1, <2>1, SameStep
<1>4. CASE ResumeBroken(k, l) \/ ResumeOn(k, l) \/ ResumeDone(k, l)
  <2>1. l.live /\ l.st = "answered"
    BY <1>4 DEF ResumeBroken, ResumeOn, ResumeDone, Stale
  <2>2. CASE j # k
    <3>1. out'[j] = out[j]
      BY <1>2, <1>4, <2>2 DEF ResumeBroken, ResumeOn, ResumeDone
    <3>2. QED
      BY <1>1, <3>1, SameStep
  <2>3. CASE j = k
    <3>1. \/ out'[k].rows = l.acc
          \/ out'[k].rows = Sum(l)
          \/ out'[k].rows = out[k].rows
      BY <1>2, <1>4 DEF ResumeBroken, ResumeOn, ResumeDone, Shown
    <3>2. reg[k].own => /\ IsPrefixOf(out[k].rows, l.acc)
                        /\ IsPrefixOf(out[k].rows, Sum(l))
      BY <2>1, SumFacts
    <3>3. IsPrefixOf(out[k].rows, out[k].rows)
      BY <1>2, PrefixSelf DEF Shown
    <3>4. reg[k].own => IsPrefixOf(out[k].rows, out'[k].rows)
      BY <3>1, <3>2, <3>3
    <3>5. QED
      BY <1>1, <2>1, <2>3, <3>4, ExtendStep
  <2>4. QED
    BY <2>2, <2>3
<1>5. QED
  BY <1>3, <1>4 DEF LoopStep

\* Every step of Hydration is one of the contract.
LEMMA StepContract ==
    ASSUME IInv, IInv', [Next]_vars, NEW j \in Keys
    PROVE  Contract!Replace(j) \/ Contract!Extend(j) \/ Contract!Keep(j)
<1>1. CASE UNCHANGED <<hist, reg, out>>
  BY <1>1, SameStep
<1>2. ASSUME NEW t \in tasks, Commit(t)
      PROVE  Contract!Keep(j)
  <2>1. UNCHANGED <<reg, out>>
    BY <1>2 DEF Commit
  <2>2. QED
    BY <1>2, <2>1, CommitGrows, KeepStep
<1>3. CASE Hydrate
  <2>1. /\ UNCHANGED hist
        /\ reg'[j] = IF Changed(j)
                     THEN [rev |-> view[j].rev, total |-> view[j].total,
                           own |-> view[j].own]
                     ELSE reg[j]
        /\ ~Changed(j) => out'[j] = out[j]
    BY <1>3 DEF Hydrate
  <2>2. CASE Changed(j)
    BY <2>1, <2>2, ReplaceStep
  <2>3. CASE ~Changed(j)
    BY <2>1, <2>3, SameStep
  <2>4. QED
    BY <2>2, <2>3
<1>4. ASSUME NEW k \in Keys, NEW l \in loops[k], LoopStep(k, l)
      PROVE  Contract!Keep(j) \/ Contract!Extend(j)
  BY <1>4, LoopStepContract
<1>5. ASSUME \/ \E k \in Keys, kind \in Kinds : Request(kind, k)
             \/ \E t \in tasks : Reserve(t) \/ Answer(t)
             \/ \E m \in replies : Deliver(m) \/ DeliverTwice(m) \/ Lose(m)
             \/ UNCHANGED vars
      PROVE  UNCHANGED <<hist, reg, out>>
  BY <1>5 DEF Request, Reserve, Answer, Deliver, DeliverTwice, Lose, vars
<1>6. QED
  BY <1>1, <1>2, <1>3, <1>4, <1>5 DEF Next, ServerStep

\* A view may read its datasets as if they came straight from the store: one
\* revision at a time, growing, and complete when they say so.
THEOREM Refinement == Spec => ImplementsContract
<1>1. Init => Contract!Init
  BY DEF Init, Goal, Contract!Init, Contract!Nothing, NotRegistered, NotHydrated
<1>2. IInv /\ IInv' /\ [Next]_vars => [Contract!Next]_(Contract!vars)
  BY StepContract DEF Contract!Next
<1>3. QED
  BY <1>1, <1>2, Inductive, PTL DEF Spec, ImplementsContract, Contract!Spec
=============================================================================
