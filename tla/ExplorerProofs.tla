--------------------------- MODULE ExplorerProofs ---------------------------
(***************************************************************************)
(* Proofs about Explorer, for any sections, groups, filters, entities and  *)
(* dates, any number of retained sections and of group calls at a time,    *)
(* and any number of acts and faults.                                      *)
(***************************************************************************)
EXTENDS Explorer, TLAPS

-----------------------------------------------------------------------------
(* The inductive invariant. *)

\* A record without the list lru, which decides what is evicted and nothing
\* else.
IsRecord(r) ==
    /\ r = [sec |-> r.sec, arg |-> r.arg, date |-> r.date, scope |-> r.scope,
            applied |-> r.applied, loaded |-> r.loaded, tracked |-> r.tracked,
            fp |-> r.fp, lru |-> r.lru, data |-> r.data]
    /\ r.sec \in Sections /\ r.arg \in Args \cup {None} /\ r.date \in Dates
    /\ r.scope \in Nat /\ r.applied \in Nat
    /\ r.loaded \subseteq Keys /\ r.tracked \subseteq Keys
    /\ r.fp \in [Sections -> Prints \cup {None}]
    /\ r.data \in [Keys -> Tables \cup {None}]

\* A load has something to load; a group is one of its section.
IsOp(op) ==
    /\ op.sec \in Sections /\ op.scope \in Nat /\ op.date \in Dates
    /\ IsLoad(op) => op.arg \in Args
    /\ ~IsLoad(op) => op.grp \in SectionGroups[op.sec]

IsCall(c) ==
    /\ c = [who |-> c.who, id |-> c.id, sec |-> c.sec, arg |-> c.arg,
            date |-> c.date, grp |-> c.grp, scope |-> c.scope,
            live |-> c.live, st |-> c.st, cur |-> c.cur, reply |-> c.reply]
    /\ c.who \in {"loader", "group"} /\ c.id \in Nat /\ c.live \in BOOLEAN
    /\ c.st \in {"sent", "running", "answered"}
    /\ IsRecord(c.cur) /\ IsOp(c)
    /\ c.who = "loader" => c.id > 0
    /\ IsLoad(c) => c.who = "loader"

\* What a call is answered with: a load with the view, a group with its data.
IsReply(c) ==
    \/ c.reply = Error
    \/ c.reply = Nothing /\ ~IsLoad(c)
    \/ /\ ~IsLoad(c)
       /\ \E t \in Tables : c.reply = Patch(<<c.sec, c.grp>>, t)
    \/ /\ IsLoad(c)
       /\ c.reply.kind = "initial"
       /\ c.reply = [kind |-> "initial", copy |-> c.reply.copy]
       /\ c.reply.copy \in Copies

CallTyped(c) ==
    /\ IsCall(c)
    /\ c.st = "answered" => IsReply(c)
    /\ c.st = "running" /\ ~IsLoad(c) => c.cur.arg \in Args

LoaderTyped ==
    /\ loader = [seq |-> loader.seq, busy |-> loader.busy,
                 pending |-> loader.pending, error |-> loader.error]
    /\ loader.seq \in Nat /\ loader.busy \in BOOLEAN /\ loader.error \in BOOLEAN

GroupsTyped == groups = [inFlight |-> groups.inFlight, failed |-> groups.failed]

\* What every record, call and answer has.
Typed ==
    /\ IsRecord(srv)
    /\ \A c \in calls : CallTyped(c)
    /\ view \in Copies
    /\ LoaderTyped
    /\ GroupsTyped
    /\ boot \in BOOLEAN /\ due \in BOOLEAN /\ retried \in BOOLEAN
    /\ acts \in Nat /\ errors \in Nat /\ timeouts \in Nat

\* As long as the record names neither filters nor an entity nothing was
\* loaded, and no group was asked for.
NothingLoaded ==
    srv.arg = None =>
        /\ srv.sec \in Lists /\ srv.applied = 0
        /\ view.sec \in Lists /\ view.loaded = {} /\ groups.failed = {}
        /\ \A c \in calls : IsLoad(c) /\ (c.st = "answered" => c.reply = Error)
        /\ loader.pending # NoRequest => IsLoad(want)

\* Cores are asked for as groups by Retry alone.
Cores ==
    /\ want.grp # "core"
    /\ ~retried => \A c \in calls : c.grp # "core"

\* c is the call that the loader waits for.
Awaited(c) == c.who = "loader" /\ c.live

SameOp(c, op) ==
    /\ c.sec = op.sec /\ c.arg = op.arg /\ c.date = op.date
    /\ c.grp = op.grp /\ c.scope = op.scope

\* The loader waits for one call at a time, the newest of those it sent, and
\* the request wanted last is that call or the one that waits behind it.
Serialized ==
    /\ \A c, d \in calls : Awaited(c) /\ Awaited(d) => c = d
    /\ loader.busy <=> \E c \in calls : Awaited(c)
    /\ ~loader.busy => loader.pending = NoRequest
    /\ loader.pending # NoRequest =>
         /\ loader.pending = Request(want, loader.seq) /\ loader.seq > 0
         /\ IsOp(want)
    /\ srv.applied <= loader.seq
    /\ \A c \in calls : c.who = "loader" => c.id <= loader.seq
    /\ \A c \in calls : Awaited(c) =>
         /\ srv.applied <= c.id
         /\ \A d \in calls : d.who = "loader" => d.id <= c.id
         /\ loader.pending = NoRequest => SameOp(c, want)

\* The answer to the call that the loader waits for shows what the call asked
\* for, and so does the view when the loader is at rest.
Applied ==
    /\ \A c \in calls :
         Awaited(c) /\ IsLoad(c) /\ c.st = "answered" /\ c.reply # Error =>
            c.reply.copy.sec = c.sec /\ c.reply.copy.arg = c.arg
    /\ IntentApplied

PrintOf(t) == [arg |-> t.arg, date |-> t.date]

\* The marks of r, and unless a core was queried again its fingerprints, have
\* their datasets in data.
Marked(r, data) == \A k \in r.loaded : data[k] # None
Printed(r, data) ==
    \A s \in Lists : r.fp[s] # None =>
        data[Core(s)] # None /\ r.fp[s] = PrintOf(data[Core(s)])
Backed(r, data, again) == Marked(r, data) /\ (~again => Printed(r, data))

CoreShown(v) == Core(v.sec) \in v.loaded => v.data[Core(v.sec)].arg = v.arg

Agrees(v) == v.scope = srv.scope /\ v.sec = srv.sec

\* While the browser gives up on no load, loads run one after the other: the
\* copy of the record that one works on is backed by the datasets of now, and
\* the view, or the answer about to replace it, agrees with the record.
InTurn ==
    timeouts = 0 =>
        /\ \A c \in calls : c.live
        /\ Backed(srv, srv.data, retried)
        /\ \A c \in calls : c.st = "running" /\ IsLoad(c) =>
              Backed(c.cur, srv.data, retried)
        /\ ~retried => CoreShown(view)
        /\ \A c \in calls :
             IsLoad(c) /\ c.st = "answered" /\ c.reply # Error =>
                (~retried => CoreShown(c.reply.copy)) /\ Agrees(c.reply.copy)
        /\ (\A c \in calls : IsLoad(c) => c.st # "answered" \/ c.reply = Error)
              => Agrees(view)

IInv == Typed /\ NothingLoaded /\ Cores /\ Serialized /\ Applied /\ InTurn

-----------------------------------------------------------------------------
(* Keys. *)

\* Every group of a section has its key, and so has the core (SECTION_GROUPS,
\* pools_explorer.py 229-254).
LEMMA KeyFacts ==
    ASSUME NEW s \in Sections
    PROVE  /\ KeysOf(s) \subseteq Keys
           /\ Core(s) \in KeysOf(s)
           /\ \A g \in SectionGroups[s] :
                 /\ <<s, g>> \in Keys /\ <<s, g>> \in KeysOf(s)
                 /\ g # "load" /\ g # "none"
           /\ \A g, t : g # "core" => <<s, g>> # Core(t)
           /\ \A t \in Sections : Core(s) \in KeysOf(t) => s = t
           /\ Groups[s] \subseteq SectionGroups[s] \ {"core"}
<1>1. Groups[s] \subseteq STRING \ {"core", "load", "none"}
  BY ExplorerAssumption
<1>2. SectionGroups[s] = Groups[s] \cup {"core"}
  BY DEF SectionGroups
<1>3. \A g \in SectionGroups[s] : <<s, g>> \in Keys
  BY DEF Keys
<1>4. KeysOf(s) = {<<s, g>> : g \in SectionGroups[s]}
  BY DEF KeysOf
<1>5. KeysOf(s) \subseteq Keys
  BY <1>3, <1>4
<1>6. Core(s) \in KeysOf(s)
  BY <1>2, <1>4 DEF Core
<1>7. \A g \in SectionGroups[s] : <<s, g>> \in Keys /\ <<s, g>> \in KeysOf(s)
  BY <1>3, <1>4
<1>8. \A g, t : g # "core" => <<s, g>> # Core(t)
  BY DEF Core
<1>9. \A t \in Sections : Core(s) \in KeysOf(t) => s = t
  BY DEF Core, KeysOf
<1>10. \A g \in SectionGroups[s] : g # "load" /\ g # "none"
  BY <1>1, <1>2
<1>11. QED
  BY <1>1, <1>2, <1>5, <1>6, <1>7, <1>8, <1>9, <1>10

\* The request that stands for no request is none (useSerializedLoader.ts 35-38).
LEMMA NoRequestFacts ==
    ASSUME NEW op, NEW i \in Nat, i > 0
    PROVE  Request(op, i) # NoRequest
BY DEF Request, NoRequest

\* None is neither a fingerprint nor a dataset.
LEMMA NoneFacts ==
    ASSUME NEW a \in Args, NEW d \in Dates, NEW ok \in BOOLEAN
    PROVE  /\ a # None
           /\ Table(a, d, ok) \in Tables /\ Table(a, d, ok) # None
           /\ PrintOf(Table(a, d, ok)) = [arg |-> a, date |-> d]
           /\ Table(a, d, ok).arg = a /\ Table(a, d, ok).date = d
           /\ [arg |-> a, date |-> d] \in Prints /\ [arg |-> a, date |-> d] # None
<1>1. /\ None \notin Args
      /\ None \notin [arg : Args, date : Dates]
      /\ None \notin [arg : Args, date : Dates, ok : BOOLEAN]
  BY ExplorerAssumption
<1>2. Table(a, d, ok) \in [arg : Args, date : Dates, ok : BOOLEAN]
  BY DEF Table
<1>3. [arg |-> a, date |-> d] \in [arg : Args, date : Dates]
  OBVIOUS
<1>4. QED
  BY <1>1, <1>2, <1>3 DEF Tables, Prints, Table, PrintOf

-----------------------------------------------------------------------------
(* What the operators on the record return. *)

\* The record a view opens with is one (pools_explorer.py 1125-1171).
LEMMA EmptyFacts ==
    ASSUME NEW s \in Sections, NEW d \in Dates
    PROVE  IsRecord(Empty(s, d))
BY DEF IsRecord, Empty

\* Touching a section may take marks, fingerprints and datasets of evicted
\* sections away, and all three together; nothing is added or changed
\* (mini_apps.py 1194-1228).
LEMMA TouchFacts ==
    ASSUME NEW r, IsRecord(r), NEW s \in Sections
    PROVE  LET t == TouchLru(r, s) IN
           /\ IsRecord(t)
           /\ t.sec = r.sec /\ t.arg = r.arg /\ t.scope = r.scope
           /\ t.applied = r.applied
           /\ t.loaded \subseteq r.loaded
           /\ \A k \in t.loaded : t.data[k] = r.data[k]
           /\ \A u \in Sections : t.fp[u] # None =>
                 t.fp[u] = r.fp[u] /\ t.data[Core(u)] = r.data[Core(u)]
<1> DEFINE q == Touched(r.lru, s)
           victims == {q[i] : i \in 1 .. Surplus(q)}
           gone == UNION {KeysOf(v) : v \in victims}
           rest == SubSeq(q, Surplus(q) + 1, Len(q))
           fp == [t \in Sections |-> IF t \in victims THEN None ELSE r.fp[t]]
           data == [k \in Keys |->
                      IF k \in gone \cap r.tracked THEN None ELSE r.data[k]]
<1>1. PICK t : t = [r EXCEPT !.lru = rest, !.loaded = @ \ gone, !.fp = fp,
                             !.data = data, !.tracked = @ \ gone]
  OBVIOUS
<1>2. TouchLru(r, s) = t
  BY <1>1 DEF TouchLru
<1> HIDE DEF q, victims, gone, rest, fp, data
<1>3. r = [sec |-> r.sec, arg |-> r.arg, date |-> r.date, scope |-> r.scope,
           applied |-> r.applied, loaded |-> r.loaded, tracked |-> r.tracked,
           fp |-> r.fp, lru |-> r.lru, data |-> r.data]
  BY DEF IsRecord
<1>4. t = [sec |-> r.sec, arg |-> r.arg, date |-> r.date, scope |-> r.scope,
           applied |-> r.applied, loaded |-> r.loaded \ gone,
           tracked |-> r.tracked \ gone,
           fp |-> fp, lru |-> rest, data |-> data]
  BY <1>1, <1>3
<1>5. /\ t.sec = r.sec /\ t.arg = r.arg /\ t.scope = r.scope
      /\ t.date = r.date /\ t.applied = r.applied /\ t.loaded = r.loaded \ gone
      /\ t.tracked = r.tracked \ gone /\ t.fp = fp /\ t.data = data
      /\ t.lru = rest
  BY <1>4
<1>6. fp \in [Sections -> Prints \cup {None}]
  BY DEF IsRecord, fp
<1>7. data \in [Keys -> Tables \cup {None}]
  BY DEF IsRecord, data
<1>8. IsRecord(t)
  BY <1>4, <1>5, <1>6, <1>7 DEF IsRecord
<1>9. \A k \in t.loaded : t.data[k] = r.data[k]
  BY <1>5 DEF data, IsRecord
<1>10. ASSUME NEW u \in Sections, t.fp[u] # None
       PROVE  t.fp[u] = r.fp[u] /\ t.data[Core(u)] = r.data[Core(u)]
  <2>1. u \notin victims /\ t.fp[u] = r.fp[u]
    BY <1>5, <1>10 DEF fp
  <2>2. Core(u) \notin gone
    BY <2>1 DEF gone, KeysOf, Core
  <2>3. Core(u) \in Keys
    BY KeyFacts
  <2>4. QED
    BY <1>5, <2>1, <2>2, <2>3 DEF data
<1>11. QED
  BY <1>2, <1>5, <1>8, <1>9, <1>10

\* Restoring a retained section keeps its scope (pools_explorer.py 1421-1443).
LEMMA RestoredFacts ==
    ASSUME NEW c, IsRecord(srv), c.sec \in Sections, c.arg \in Args, c.date \in Dates,
           c.id \in Nat
    PROVE  LET t == Restored(srv, c) IN
           /\ IsRecord(t)
           /\ t.sec = c.sec /\ t.arg = c.arg /\ t.scope = srv.scope
           /\ t.applied = c.id
           /\ t.loaded \subseteq srv.loaded
           /\ \A k \in t.loaded : t.data[k] = srv.data[k]
           /\ \A u \in Sections : t.fp[u] # None =>
                 t.fp[u] = srv.fp[u] /\ t.data[Core(u)] = srv.data[Core(u)]
<1> DEFINE b == Stored(srv)
<1>1. PICK r : r = [b EXCEPT !.sec = c.sec, !.arg = c.arg, !.date = c.date,
                           !.applied = c.id]
  OBVIOUS
<1>2. Restored(srv, c) = TouchLru(r, c.sec)
  BY <1>1 DEF Restored
<1>3. b = [sec |-> srv.sec, arg |-> srv.arg, date |-> srv.date, scope |-> srv.scope,
           applied |-> srv.applied, loaded |-> srv.loaded,
           tracked |-> srv.tracked, fp |-> srv.fp, lru |-> srv.lru,
           data |-> srv.data]
  BY DEF Stored, IsRecord
<1> HIDE DEF b
<1>4. r = [sec |-> c.sec, arg |-> c.arg, date |-> c.date, scope |-> srv.scope,
           applied |-> c.id, loaded |-> srv.loaded, tracked |-> srv.tracked,
           fp |-> srv.fp, lru |-> srv.lru, data |-> srv.data]
  BY <1>1, <1>3
<1>5. IsRecord(r)
  BY <1>4 DEF IsRecord
<1>6. QED
  BY <1>2, <1>4, <1>5, TouchFacts

\* A load marks the core of its section, with the data it queried, and nothing
\* else that its copy of the record did not mark (pools_explorer.py 1444-1503).
LEMMA LoadedFacts ==
    ASSUME NEW c, NEW cur, IsRecord(srv), IsRecord(cur),
           c.sec \in Sections, c.arg \in Args, c.date \in Dates, c.id \in Nat,
           NEW ok \in BOOLEAN
    PROVE  LET t == Loaded(cur, c, ok)
               tab == Table(c.arg, c.date, ok) IN
           /\ IsRecord(t)
           /\ t.sec = c.sec /\ t.arg = c.arg /\ t.scope = c.id
           /\ t.applied = c.id
           /\ t.loaded \subseteq cur.loaded \cup {Core(c.sec)}
           /\ \A k \in t.loaded :
                 t.data[k] = IF k = Core(c.sec) THEN tab ELSE srv.data[k]
           /\ \A u \in Sections : t.fp[u] # None =>
                 /\ t.fp[u] = IF u = c.sec THEN Fingerprint(c) ELSE cur.fp[u]
                 /\ t.data[Core(u)] =
                      IF u = c.sec THEN tab ELSE srv.data[Core(u)]
<1> DEFINE b == Stored(cur)
           s == c.sec
           tab == Table(c.arg, c.date, ok)
           fp == [cur.fp EXCEPT ![s] = Fingerprint(c)]
           data == [k \in Keys |->
                     IF k = Core(s) THEN tab
                     ELSE IF k \in KeysOf(s) \cap cur.tracked THEN None
                     ELSE srv.data[k]]
<1>1. PICK r : r = [b EXCEPT
            !.sec = c.sec, !.arg = c.arg, !.date = c.date,
            !.scope = c.id, !.applied = c.id,
            !.loaded = (@ \ KeysOf(c.sec)) \cup {Core(c.sec)},
            !.tracked = (@ \ KeysOf(c.sec)) \cup {Core(c.sec)},
            !.fp[c.sec] = Fingerprint(c),
            !.data = [k \in Keys |->
                IF k = Core(c.sec) THEN Table(c.arg, c.date, ok)
                ELSE IF k \in KeysOf(c.sec) \cap cur.tracked THEN None ELSE @[k]]]
  OBVIOUS
<1>2. Loaded(cur, c, ok) = TouchLru(r, c.sec)
  BY <1>1 DEF Loaded
<1>3. b = [sec |-> cur.sec, arg |-> cur.arg, date |-> cur.date, scope |-> cur.scope,
           applied |-> cur.applied, loaded |-> cur.loaded,
           tracked |-> cur.tracked, fp |-> cur.fp, lru |-> cur.lru,
           data |-> srv.data]
  BY DEF Stored, IsRecord
<1>4. r = [sec |-> s, arg |-> c.arg, date |-> c.date, scope |-> c.id, applied |-> c.id,
           loaded |-> (cur.loaded \ KeysOf(s)) \cup {Core(s)},
           tracked |-> (cur.tracked \ KeysOf(s)) \cup {Core(s)},
           fp |-> fp, lru |-> cur.lru, data |-> data]
  <2> HIDE DEF b
  <2>1. QED
    BY <1>1, <1>3
<1>0. tab \in Tables /\ Fingerprint(c) \in Prints
  BY NoneFacts DEF Fingerprint
<1> HIDE DEF b, fp, data, tab
<1>5. Core(s) \in Keys
  BY KeyFacts
<1>6. fp \in [Sections -> Prints \cup {None}]
  BY <1>0 DEF IsRecord, fp
<1>7. data \in [Keys -> Tables \cup {None}]
  BY <1>0 DEF IsRecord, data
<1>8. IsRecord(r)
  BY <1>4, <1>5, <1>6, <1>7 DEF IsRecord
<1>9. \A k \in r.loaded :
         r.data[k] = IF k = Core(s) THEN tab ELSE srv.data[k]
  <2>1. SUFFICES ASSUME NEW k \in r.loaded, k # Core(s)
                 PROVE  data[k] = srv.data[k]
    BY <1>4, <1>5 DEF data
  <2>2. k \notin KeysOf(s) /\ k \in Keys
    BY <1>4, <2>1 DEF IsRecord
  <2>3. QED
    BY <2>1, <2>2 DEF data
<1>10. \A u \in Sections :
          /\ r.fp[u] = IF u = s THEN Fingerprint(c) ELSE cur.fp[u]
          /\ r.data[Core(u)] = IF u = s THEN tab ELSE srv.data[Core(u)]
  <2>1. SUFFICES ASSUME NEW u \in Sections
                 PROVE  /\ fp[u] = IF u = s THEN Fingerprint(c) ELSE cur.fp[u]
                        /\ data[Core(u)] = IF u = s THEN tab
                                           ELSE srv.data[Core(u)]
    BY <1>4
  <2>2. fp[u] = IF u = s THEN Fingerprint(c) ELSE cur.fp[u]
    BY DEF fp, IsRecord
  <2>3. Core(u) \in Keys
    BY KeyFacts
  <2>4. u # s => Core(u) # Core(s) /\ Core(u) \notin KeysOf(s)
    BY KeyFacts DEF Core
  <2>5. QED
    BY <2>2, <2>3, <2>4 DEF data
<1> DEFINE t == TouchLru(r, s)
<1>11. /\ IsRecord(t)
       /\ t.sec = r.sec /\ t.arg = r.arg /\ t.scope = r.scope
       /\ t.applied = r.applied /\ t.loaded \subseteq r.loaded
       /\ \A k \in t.loaded : t.data[k] = r.data[k]
       /\ \A u \in Sections : t.fp[u] # None =>
             t.fp[u] = r.fp[u] /\ t.data[Core(u)] = r.data[Core(u)]
  BY <1>8, TouchFacts
<1> HIDE DEF t
<1>12. t.sec = s /\ t.arg = c.arg /\ t.scope = c.id /\ t.applied = c.id
  BY <1>4, <1>11
<1>13. t.loaded \subseteq cur.loaded \cup {Core(s)}
  BY <1>4, <1>11
<1>14. \A k \in t.loaded :
          t.data[k] = IF k = Core(s) THEN tab ELSE srv.data[k]
  BY <1>9, <1>11
<1>15. \A u \in Sections : t.fp[u] # None =>
          /\ t.fp[u] = IF u = s THEN Fingerprint(c) ELSE cur.fp[u]
          /\ t.data[Core(u)] = IF u = s THEN tab ELSE srv.data[Core(u)]
  BY <1>10, <1>11
<1>16. QED
  BY <1>2, <1>11, <1>12, <1>13, <1>14, <1>15 DEF t, tab

\* A group load attaches its dataset to the record of now and marks its group;
\* it brings its date, and section, scope and fingerprints stay
\* (pools_explorer.py 1590-1629).
LEMMA AttachedFacts ==
    ASSUME NEW c, NEW cur, IsRecord(srv), IsRecord(cur), NEW ok \in BOOLEAN,
           c.sec \in Sections, c.grp \in SectionGroups[c.sec],
           c.date \in Dates, cur.arg \in Args
    PROVE  LET t == Attached(cur, c, ok)
               k == <<c.sec, c.grp>>
               tab == Fetched(cur, c, ok) IN
           /\ IsRecord(t) /\ tab \in Tables /\ tab # None
           /\ t.sec = srv.sec /\ t.arg = srv.arg /\ t.scope = srv.scope
           /\ t.applied = srv.applied /\ t.fp = srv.fp
           /\ t.loaded = srv.loaded \cup {k}
           /\ t.data = [srv.data EXCEPT ![k] = tab]
<1> DEFINE k == <<c.sec, c.grp>>
           tab == Fetched(cur, c, ok)
           data == [srv.data EXCEPT ![k] = tab]
           tr == (srv.tracked \ KeysOf(c.sec))
                    \cup (cur.tracked \cap KeysOf(c.sec)) \cup {k}
<1>0. tab \in Tables /\ tab # None /\ tab.date \in Dates
  <2>1. PICK e \in Dates : e = IF c.date = Latest THEN cur.date ELSE c.date
    BY DEF IsRecord
  <2>2. tab = Table(cur.arg, e, ok)
    BY <2>1 DEF Fetched
  <2> HIDE DEF tab
  <2>3. Table(cur.arg, e, ok) \in Tables /\ Table(cur.arg, e, ok) # None
        /\ Table(cur.arg, e, ok).date = e
    BY NoneFacts
  <2>4. QED
    BY <2>2, <2>3
<1>1. k \in Keys /\ KeysOf(c.sec) \subseteq Keys
  BY KeyFacts
<1>2. PICK t : t = [srv EXCEPT !.data[k] = tab, !.date = tab.date,
                !.loaded = @ \cup {k},
                !.tracked = (@ \ KeysOf(c.sec)) \cup (cur.tracked \cap KeysOf(c.sec)) \cup {k}]
  OBVIOUS
<1>7. Attached(cur, c, ok) = t
  BY <1>2 DEF Attached
<1>3. t = [sec |-> srv.sec, arg |-> srv.arg, date |-> tab.date, scope |-> srv.scope,
           applied |-> srv.applied, loaded |-> srv.loaded \cup {k},
           tracked |-> tr, fp |-> srv.fp, lru |-> srv.lru, data |-> data]
  <2> HIDE DEF k, tab
  <2>1. QED
    BY <1>2 DEF IsRecord
<1> HIDE DEF k, data, tr, tab
<1>4. data \in [Keys -> Tables \cup {None}]
  BY <1>0 DEF data, IsRecord
<1>5. tr \subseteq Keys
  BY <1>1 DEF tr, IsRecord
<1>6. IsRecord(t)
  BY <1>0, <1>1, <1>3, <1>4, <1>5 DEF IsRecord
<1>8. QED
  BY <1>0, <1>3, <1>6, <1>7 DEF k, data, tab

-----------------------------------------------------------------------------
(* Requests and calls. *)

\* d is the call c, further on.
Continues(d, c) ==
    /\ IsCall(d)
    /\ d.who = c.who /\ d.id = c.id /\ d.sec = c.sec /\ d.arg = c.arg
    /\ d.date = c.date /\ d.grp = c.grp /\ d.scope = c.scope /\ d.live = c.live

\* d was just sent for op.
Fresh(d, op) == IsCall(d) /\ SameOp(d, op) /\ d.live /\ d.st = "sent"

\* Between reading and answering a call has a copy (pools_explorer.py 1397-1400).
LEMMA UnreadFacts == IsRecord(Unread)
BY EmptyFacts, ExplorerAssumption DEF Sections, Unread

\* An answer ends a call and changes nothing else of it (pools_explorer.py 1437-1443).
LEMMA AnsweredFacts ==
    ASSUME NEW c, IsCall(c), NEW r
    PROVE  LET d == Answered(c, r) IN
           Continues(d, c) /\ d.st = "answered" /\ d.reply = r
<1>1. PICK d : d = [c EXCEPT !.st = "answered", !.cur = Unread, !.reply = r]
  OBVIOUS
<1>2. IsRecord(Unread)
  BY UnreadFacts
<1>3. d = [who |-> c.who, id |-> c.id, sec |-> c.sec, arg |-> c.arg,
           date |-> c.date, grp |-> c.grp, scope |-> c.scope, live |-> c.live,
           st |-> "answered", cur |-> Unread, reply |-> r]
  BY <1>1 DEF IsCall
<1>4. IsOp(d) /\ (IsLoad(d) <=> IsLoad(c))
  BY <1>3 DEF IsCall, IsOp, IsLoad
<1>5. IsCall(d)
  BY <1>2, <1>3, <1>4 DEF IsCall
<1>6. Answered(c, r) = d
  BY <1>1 DEF Answered
<1>7. QED
  BY <1>3, <1>5, <1>6 DEF Continues

\* A tool reads the record before its queries (pools_explorer.py 1397-1400, 1547-1550).
LEMMA RunningFacts ==
    ASSUME NEW c, IsCall(c), IsRecord(srv)
    PROVE  LET d == [c EXCEPT !.st = "running", !.cur = srv] IN
           Continues(d, c) /\ d.st = "running" /\ d.cur = srv
<1>1. PICK d : d = [c EXCEPT !.st = "running", !.cur = srv]
  OBVIOUS
<1>2. d = [who |-> c.who, id |-> c.id, sec |-> c.sec, arg |-> c.arg,
           date |-> c.date, grp |-> c.grp, scope |-> c.scope, live |-> c.live,
           st |-> "running", cur |-> srv, reply |-> c.reply]
  BY <1>1 DEF IsCall
<1>3. IsOp(d) /\ (IsLoad(d) <=> IsLoad(c))
  BY <1>2 DEF IsCall, IsOp, IsLoad
<1>4. IsCall(d)
  BY <1>2, <1>3 DEF IsCall
<1>5. QED
  BY <1>1, <1>2, <1>4 DEF Continues

\* A promise that rejects leaves the call to the tool (useMiniApp.ts 360-365).
LEMMA DeadFacts ==
    ASSUME NEW c, IsCall(c)
    PROVE  LET d == [c EXCEPT !.live = FALSE] IN
           /\ IsCall(d) /\ ~d.live
           /\ d.who = c.who /\ d.id = c.id /\ d.st = c.st
           /\ d.cur = c.cur /\ d.reply = c.reply /\ d.grp = c.grp
           /\ IsReply(c) => IsReply(d)
<1>1. PICK d : d = [c EXCEPT !.live = FALSE]
  OBVIOUS
<1>2. d = [who |-> c.who, id |-> c.id, sec |-> c.sec, arg |-> c.arg,
           date |-> c.date, grp |-> c.grp, scope |-> c.scope, live |-> FALSE,
           st |-> c.st, cur |-> c.cur, reply |-> c.reply]
  BY <1>1 DEF IsCall
<1>3. IsOp(d) /\ (IsLoad(d) <=> IsLoad(c))
  BY <1>2 DEF IsCall, IsOp, IsLoad
<1>4. IsCall(d)
  BY <1>2, <1>3 DEF IsCall
<1>5. IsReply(c) => IsReply(d)
  BY <1>2, <1>3 DEF IsReply
<1>6. QED
  BY <1>1, <1>2, <1>4, <1>5

\* A call carries its request (useSerializedLoader.ts 60-64).
LEMMA CallFacts ==
    ASSUME NEW op, IsOp(op), NEW who \in {"loader", "group"},
           NEW i \in Nat, who = "loader" => i > 0, IsLoad(op) => who = "loader"
    PROVE  LET d == Call(who, i, op) IN
           Fresh(d, op) /\ d.who = who /\ d.id = i
<1>1. PICK d : d = Call(who, i, op)
  OBVIOUS
<1>2. d = [who |-> who, id |-> i, sec |-> op.sec, arg |-> op.arg,
           date |-> op.date, grp |-> op.grp, scope |-> op.scope, live |-> TRUE, st |-> "sent",
           cur |-> Unread, reply |-> Nothing]
  BY <1>1 DEF Call
<1>3. IsOp(d) /\ (IsLoad(d) <=> IsLoad(op))
  BY <1>2 DEF IsOp, IsLoad
<1>4. IsCall(d)
  BY <1>2, <1>3, UnreadFacts DEF IsCall
<1>5. QED
  BY <1>1, <1>2, <1>4 DEF Fresh, SameOp

\* Navigation loads a section with filters or an entity (PoolsExplorerApp.tsx 251-265).
LEMMA LoadsFacts ==
    ASSUME NEW s \in Sections, NEW D \in SUBSET Dates, NEW op \in Loads(s, D)
    PROVE  IsOp(op) /\ IsLoad(op) /\ op.grp # "core"
<1>1. PICK a \in Args, d \in Dates : op = Load(s, a, d)
  BY DEF Loads, Sections, Args
<1>2. /\ op.sec = s /\ op.arg = a /\ op.date = d /\ op.grp = "load"
      /\ op.scope = 0
  BY <1>1 DEF Load
<1>3. QED
  BY <1>2 DEF IsOp, IsLoad

\* A group is asked for under the scope on screen (useGroupLoader.ts 44-57).
LEMMA GroupFacts ==
    ASSUME NEW s \in Sections, NEW g \in SectionGroups[s], NEW d \in Dates,
           NEW sc \in Nat
    PROVE  LET op == Group(s, g, d, sc) IN
           IsOp(op) /\ ~IsLoad(op) /\ op.grp = g
BY KeyFacts DEF IsOp, IsLoad, Group

-----------------------------------------------------------------------------
(* The serialized loader. *)

\* Calls that the loader does not wait for come and go without its notice.
LEMMA SerializedKept ==
    ASSUME Serialized, UNCHANGED <<loader, want>>, srv'.applied = srv.applied,
           \A c \in calls' : c.who = "loader" =>
                c \in calls \/ (~c.live /\ \E d \in calls :
                                    d.who = "loader" /\ d.id = c.id),
           \A c \in calls : Awaited(c) => c \in calls'
    PROVE  Serialized'
<1>1. \A c \in calls' : Awaited(c) => c \in calls
  BY DEF Awaited
<1>2. \A c \in calls' : c.who = "loader" =>
        \E d \in calls : d.who = "loader" /\ d.id = c.id
  OBVIOUS
<1>3. \A c, d \in calls' : Awaited(c) /\ Awaited(d) => c = d
  BY <1>1 DEF Serialized
<1>4. loader.busy <=> \E c \in calls' : Awaited(c)
  BY <1>1 DEF Serialized
<1>5. \A c \in calls' : c.who = "loader" => c.id <= loader.seq
  BY <1>2 DEF Serialized
<1>6. ASSUME NEW c \in calls', Awaited(c)
      PROVE  /\ srv.applied <= c.id
             /\ \A d \in calls' : d.who = "loader" => d.id <= c.id
             /\ loader.pending = NoRequest => SameOp(c, want)
  BY <1>1, <1>2, <1>6 DEF Serialized
<1>7. QED
  BY <1>3, <1>4, <1>5, <1>6 DEF Serialized, Awaited

\* The server takes a call further; what it applies is not newer than the call
\* the loader waits for.
LEMMA SerializedServed ==
    ASSUME Serialized, UNCHANGED <<loader, want>>, NEW c \in calls, NEW d,
           Continues(d, c), calls' = (calls \ {c}) \cup {d},
           \/ srv'.applied = srv.applied
           \/ c.who = "loader" /\ srv'.applied = c.id
    PROVE  Serialized'
<1>1. Awaited(d) <=> Awaited(c)
  BY DEF Awaited, Continues
<1>2. \A x \in calls' : x.who = "loader" =>
        \E y \in calls : y.who = "loader" /\ y.id = x.id
  BY DEF Continues
<1>3. \A x, y \in calls' : Awaited(x) /\ Awaited(y) => x = y
  BY <1>1 DEF Serialized
<1>4. loader.busy <=> \E x \in calls' : Awaited(x)
  BY <1>1 DEF Serialized
<1>5. \A x \in calls' : x.who = "loader" => x.id <= loader.seq
  BY <1>2 DEF Serialized
<1>6. srv'.applied <= loader.seq
  BY DEF Serialized
<1>7. ASSUME NEW x \in calls', Awaited(x)
      PROVE  /\ srv'.applied <= x.id
             /\ \A y \in calls' : y.who = "loader" => y.id <= x.id
             /\ loader.pending = NoRequest => SameOp(x, want)
  <2>1. PICK z \in calls : /\ Awaited(z) /\ z.id = x.id
                           /\ SameOp(z, want) => SameOp(x, want)
    BY <1>1, <1>7 DEF Continues, SameOp
  <2>2. /\ srv.applied <= z.id
        /\ \A y \in calls : y.who = "loader" => y.id <= z.id
        /\ loader.pending = NoRequest => SameOp(z, want)
    BY <2>1 DEF Serialized
  <2>3. QED
    BY <1>2, <2>1, <2>2
<1>8. QED
  BY <1>3, <1>4, <1>5, <1>6, <1>7 DEF Serialized, Awaited

\* A request is sent, or waits behind the call under way as the newest
\* (useSerializedLoader.ts 77-84).
LEMMA EnqueueFacts ==
    ASSUME Serialized, LoaderTyped, IsRecord(srv), UNCHANGED srv,
           \A c \in calls : IsCall(c), NEW op, IsOp(op), Enqueue(op)
    PROVE  /\ Serialized' /\ LoaderTyped' /\ loader'.busy
           /\ calls \subseteq calls'
           /\ \A d \in calls' : d \in calls \/ Fresh(d, op)
<1> DEFINE n == loader.seq + 1
           q == Request(op, n)
           d == Call("loader", n, op)
<1>1. n \in Nat /\ n > 0 /\ n > loader.seq
  BY DEF LoaderTyped
<1>2. want' = op
  BY DEF Enqueue
<1>3. q # NoRequest
  BY <1>1, NoRequestFacts
<1>4. CASE loader.busy
  <2>1. loader' = [loader EXCEPT !.seq = @ + 1, !.pending = q] /\ calls' = calls
    BY <1>4 DEF Enqueue
  <2>2. loader' = [seq |-> n, busy |-> TRUE, pending |-> q,
                   error |-> loader.error]
    <3> HIDE DEF q
    <3>1. QED
      BY <1>4, <2>1 DEF LoaderTyped
  <2>3. /\ loader'.seq = n /\ loader'.busy /\ loader'.pending = q
        /\ loader'.error = loader.error
    BY <2>2
  <2>4. LoaderTyped'
    BY <1>1, <2>2, <2>3 DEF LoaderTyped
  <2> HIDE DEF n, q
  <2>5. q = Request(want', loader'.seq) /\ loader'.seq > 0
    BY <1>1, <1>2, <2>3 DEF q, n
  <2>6. \A c \in calls : c.who = "loader" => c.id <= loader'.seq
    <3>1. \A c \in calls : c.who = "loader" => c.id \in Nat /\ c.id <= loader.seq
      BY DEF Serialized, IsCall
    <3>2. QED
      BY <1>1, <2>3, <3>1 DEF LoaderTyped
  <2>7. srv.applied <= loader'.seq
    BY <1>1, <2>3 DEF Serialized, LoaderTyped, IsRecord
  <2>8. Serialized'
    BY <1>2, <1>3, <1>4, <2>1, <2>3, <2>5, <2>6, <2>7 DEF Serialized, Awaited
  <2>9. QED
    BY <2>1, <2>3, <2>4, <2>8
<1>5. CASE ~loader.busy
  <2>1. /\ loader' = [loader EXCEPT !.seq = @ + 1, !.busy = TRUE, !.error = FALSE]
        /\ calls' = calls \cup {d}
    BY <1>5 DEF Enqueue
  <2>2. loader' = [seq |-> n, busy |-> TRUE, pending |-> loader.pending,
                   error |-> FALSE]
    BY <2>1 DEF LoaderTyped
  <2>3. /\ loader'.seq = n /\ loader'.busy /\ loader'.error = FALSE
        /\ loader'.pending = NoRequest
    BY <1>5, <2>2 DEF Serialized
  <2>4. LoaderTyped'
    BY <1>1, <2>2, <2>3 DEF LoaderTyped
  <2>5. Fresh(d, op) /\ d.who = "loader" /\ d.id = n
    BY <1>1, CallFacts
  <2> HIDE DEF n, q, d
  <2>6. \A c \in calls : ~Awaited(c)
    BY <1>5 DEF Serialized
  <2>7. Awaited(d)
    BY <2>5 DEF Awaited, Fresh
  <2>8. \A c \in calls' : c.who = "loader" => c.id <= n
    <3>1. \A c \in calls : c.who = "loader" => c.id \in Nat /\ c.id <= loader.seq
      BY DEF Serialized, IsCall
    <3>2. QED
      BY <1>1, <2>1, <2>5, <3>1 DEF LoaderTyped
  <2>9. srv.applied <= n
    BY <1>1 DEF Serialized, LoaderTyped, IsRecord
  <2>10. SameOp(d, want')
    BY <1>2, <2>5 DEF Fresh
  <2>11. \A c \in calls' : Awaited(c) => c = d
    BY <2>1, <2>6
  <2>12. Serialized'
    BY <2>1, <2>3, <2>5, <2>7, <2>8, <2>9, <2>10, <2>11 DEF Serialized, Awaited
  <2>13. QED
    BY <2>1, <2>3, <2>4, <2>5, <2>12
<1>6. QED
  BY <1>4, <1>5

\* The call that the loader waits for ends: the request that waits, if any, is
\* sent (useSerializedLoader.ts 67-74).
LEMMA SettlesFacts ==
    ASSUME Serialized, LoaderTyped, IsRecord(srv), UNCHANGED <<srv, want>>,
           \A x \in calls : IsCall(x),
           NEW c \in calls, Awaited(c), NEW failed \in BOOLEAN, NEW rest,
           calls \ {c} \subseteq rest,
           \A x \in rest : \/ x \in calls \ {c}
                           \/ x.who = "loader" /\ ~x.live /\ x.id = c.id,
           LoaderSettles(failed, rest)
    PROVE  /\ Serialized' /\ LoaderTyped'
           /\ \/ /\ loader.pending = NoRequest
                 /\ ~loader'.busy /\ loader'.error = failed /\ calls' = rest
              \/ loader'.busy
           /\ rest \subseteq calls' /\ loader'.pending = NoRequest
           /\ \A d \in calls' :
                 d \in rest \/ (Fresh(d, want) /\ loader.pending # NoRequest)
<1>1. \A x \in rest : ~Awaited(x)
  BY DEF Serialized, Awaited
<1>2. \A x \in rest : x.who = "loader" =>
         \E y \in calls : y.who = "loader" /\ y.id = x.id
  BY DEF Awaited
<1>3. \A x \in rest : x.who = "loader" => x.id \in Nat /\ x.id <= loader.seq
  <2>1. \A y \in calls : y.who = "loader" => y.id \in Nat /\ y.id <= loader.seq
    BY DEF Serialized, IsCall
  <2>2. QED
    BY <1>2, <2>1
<1>4. srv.applied <= loader.seq
  BY DEF Serialized
<1>5. CASE loader.pending = NoRequest
  <2>1. loader' = [loader EXCEPT !.busy = FALSE, !.error = failed] /\ calls' = rest
    BY <1>5 DEF LoaderSettles
  <2>2. loader' = [seq |-> loader.seq, busy |-> FALSE,
                   pending |-> loader.pending, error |-> failed]
    BY <2>1 DEF LoaderTyped
  <2>3. /\ loader'.seq = loader.seq /\ loader'.busy = FALSE
        /\ loader'.pending = NoRequest /\ loader'.error = failed
    BY <1>5, <2>2
  <2>4. LoaderTyped'
    BY <2>2, <2>3 DEF LoaderTyped
  <2>5. Serialized'
    BY <1>1, <1>3, <1>4, <2>1, <2>3 DEF Serialized, Awaited
  <2>6. QED
    BY <1>5, <2>1, <2>3, <2>4, <2>5
<1>6. CASE loader.pending # NoRequest
  <2> DEFINE d == Call("loader", loader.pending.id, loader.pending.op)
  <2>1. /\ loader' = [loader EXCEPT !.pending = NoRequest, !.error = FALSE]
        /\ calls' = rest \cup {d}
    BY <1>6 DEF LoaderSettles
  <2>2. loader.pending = Request(want, loader.seq) /\ loader.seq > 0 /\ IsOp(want)
    BY <1>6 DEF Serialized
  <2>3. loader.pending.id = loader.seq /\ loader.pending.op = want
    BY <2>2 DEF Request
  <2>4. Fresh(d, want) /\ d.who = "loader" /\ d.id = loader.seq
    BY <2>2, <2>3, CallFacts DEF LoaderTyped
  <2>5. loader.busy
    BY <1>6 DEF Serialized
  <2>6. loader' = [seq |-> loader.seq, busy |-> loader.busy,
                   pending |-> NoRequest, error |-> FALSE]
    BY <2>1 DEF LoaderTyped
  <2>7. /\ loader'.seq = loader.seq /\ loader'.busy
        /\ loader'.pending = NoRequest /\ loader'.error = FALSE
    BY <2>5, <2>6
  <2>8. LoaderTyped'
    BY <2>6, <2>7 DEF LoaderTyped
  <2> HIDE DEF d
  <2>9. Awaited(d)
    BY <2>4 DEF Awaited, Fresh
  <2>10. \A x \in calls' : Awaited(x) => x = d
    BY <1>1, <2>1
  <2>11. \A x \in calls' : x.who = "loader" => x.id <= loader.seq
    BY <1>3, <2>1, <2>4 DEF LoaderTyped
  <2>12. SameOp(d, want)
    BY <2>4 DEF Fresh
  <2>13. Serialized'
    BY <1>4, <2>1, <2>4, <2>7, <2>9, <2>10, <2>11, <2>12 DEF Serialized, Awaited
  <2>14. QED
    BY <1>6, <2>1, <2>4, <2>7, <2>8, <2>13
<1>7. QED
  BY <1>5, <1>6

-----------------------------------------------------------------------------
(* The steps of the server. *)

\* What a payload carries is a copy of the record (pools_explorer.py 1437-1443).
LEMMA CopyFacts ==
    ASSUME NEW r, IsRecord(r)
    PROVE  LET v == Copy(r) IN
           /\ v \in Copies
           /\ v.sec = r.sec /\ v.arg = r.arg /\ v.scope = r.scope
           /\ v.loaded = r.loaded /\ v.data = r.data
           /\ Initial(r).kind = "initial" /\ Initial(r).copy = v
           /\ Initial(r) = [kind |-> "initial", copy |-> v]
           /\ Initial(r) # Error
<1>1. PICK v : v = Copy(r)
  OBVIOUS
<1>2. v = [sec |-> r.sec, arg |-> r.arg, date |-> r.date, scope |-> r.scope,
           applied |-> r.applied, loaded |-> r.loaded, data |-> r.data]
  BY <1>1 DEF Copy
<1>3. v \in Copies
  BY <1>2 DEF IsRecord, Copies
<1>5. Initial(r) = [kind |-> "initial", copy |-> v]
  BY <1>1 DEF Initial
<1>6. Initial(r) # Error
  BY <1>5 DEF Error
<1>7. QED
  BY <1>1, <1>2, <1>3, <1>5, <1>6

\* A load is answered with the record as it left it.
LEMMA ShownFacts ==
    ASSUME NEW c, CallTyped(c), IsLoad(c), NEW r, IsRecord(r)
    PROVE  LET d == Answered(c, Initial(r)) IN
           /\ Continues(d, c) /\ CallTyped(d)
           /\ d.st = "answered" /\ d.reply # Error
           /\ d.reply.copy.sec = r.sec /\ d.reply.copy.arg = r.arg
           /\ d.reply.copy.scope = r.scope
           /\ d.reply.copy.loaded = r.loaded /\ d.reply.copy.data = r.data
<1> DEFINE d == Answered(c, Initial(r))
<1>1. Continues(d, c) /\ d.st = "answered" /\ d.reply = Initial(r)
  BY AnsweredFacts DEF CallTyped
<1> HIDE DEF d
<1>2. IsLoad(d)
  BY <1>1 DEF Continues, IsLoad
<1>3. /\ d.reply.kind = "initial" /\ d.reply.copy \in Copies /\ d.reply # Error
      /\ d.reply = [kind |-> "initial", copy |-> d.reply.copy]
      /\ d.reply.copy.sec = r.sec /\ d.reply.copy.arg = r.arg
      /\ d.reply.copy.scope = r.scope
      /\ d.reply.copy.loaded = r.loaded /\ d.reply.copy.data = r.data
  BY <1>1, CopyFacts
<1>4. IsReply(d)
  BY <1>2, <1>3 DEF IsReply
<1>5. CallTyped(d)
  BY <1>1, <1>4 DEF CallTyped, Continues
<1>6. QED
  BY <1>1, <1>3, <1>5 DEF d

\* A step of the server asks for no core.
LEMMA CoresServed ==
    ASSUME Cores, UNCHANGED <<want, retried>>, NEW c \in calls, NEW d,
           Continues(d, c), calls' = (calls \ {c}) \cup {d}
    PROVE  Cores'
BY DEF Cores, Continues

\* A load that starts (pools_explorer.py 1397-1443, 1674-1682).
LEMMA StartLoadKeeps ==
    ASSUME IInv, NEW c \in calls, StartLoad(c)
    PROVE  IInv'
<1> USE DEF IInv
<1>1. /\ c.st = "sent" /\ IsLoad(c)
      /\ UNCHANGED <<view, loader, groups, boot, due, want, retried, acts, errors, timeouts>>
  BY DEF StartLoad
<1>2. /\ CallTyped(c) /\ IsCall(c) /\ c.who = "loader"
      /\ c.sec \in Sections /\ c.arg \in Args /\ c.date \in Dates
      /\ c.id \in Nat /\ c.id > 0
  BY <1>1 DEF Typed, CallTyped, IsCall, IsOp
<1>3. IsRecord(srv)
  BY DEF Typed
<1>4. None \notin Args
  BY ExplorerAssumption
<1>5. timeouts = 0 => /\ Awaited(c)
                      /\ srv.applied <= c.id
                      /\ \A x \in calls : IsLoad(x) => x = c
  BY <1>1, <1>2 DEF InTurn, Serialized, Awaited, Typed, CallTyped, IsCall
<1>6. CASE c.id < srv.applied
  <2> DEFINE d == Answered(c, Initial(srv))
  <2>1. calls' = (calls \ {c}) \cup {d} /\ srv' = srv
    BY <1>6 DEF StartLoad, Update
  <2>2. /\ Continues(d, c) /\ CallTyped(d)
        /\ d.st = "answered"
    BY <1>1, <1>2, <1>3, ShownFacts
  <2> HIDE DEF d
  <2>3. timeouts # 0 /\ ~Awaited(c)
    <3>1. srv.applied \in Nat
      BY <1>3 DEF IsRecord
    <3>2. ~Awaited(c)
      BY <1>2, <1>6, <3>1 DEF Serialized
    <3>3. QED
      BY <1>5, <3>2
  <2>4. Typed'
    BY <1>1, <2>1, <2>2 DEF Typed, LoaderTyped, GroupsTyped
  <2>5. Serialized'
    BY <1>1, <2>1, <2>2, SerializedServed
  <2>6. ~Awaited(d)
    BY <2>2, <2>3 DEF Awaited, Continues
  <2>7. Applied'
    BY <1>1, <2>1, <2>6 DEF Applied, IntentApplied, Awaited
  <2>8. InTurn'
    BY <1>1, <2>3 DEF InTurn
  <2>9. Cores'
    BY <1>1, <2>1, <2>2, CoresServed
  <2>10. NothingLoaded'
    <3>1. srv.applied # 0
      BY <1>2, <1>3, <1>6 DEF IsRecord
    <3>2. QED
      BY <2>1, <3>1 DEF NothingLoaded
  <2>11. QED
    BY <2>4, <2>5, <2>7, <2>8, <2>9, <2>10
<1>7. CASE c.id >= srv.applied /\ Restores(srv, c)
  <2> DEFINE d == Answered(c, Initial(srv'))
  <2>1. calls' = (calls \ {c}) \cup {d} /\ srv' = Restored(srv, c)
    BY <1>3, <1>2, <1>7 DEF StartLoad, Update, IsRecord
  <2>2. /\ IsRecord(srv')
        /\ srv'.sec = c.sec /\ srv'.arg = c.arg /\ srv'.scope = srv.scope
        /\ srv'.applied = c.id
        /\ srv'.loaded \subseteq srv.loaded
        /\ \A k \in srv'.loaded : srv'.data[k] = srv.data[k]
        /\ \A u \in Sections : srv'.fp[u] # None =>
              srv'.fp[u] = srv.fp[u] /\ srv'.data[Core(u)] = srv.data[Core(u)]
    BY <1>2, <1>3, <2>1, RestoredFacts
  <2>4. /\ Continues(d, c) /\ CallTyped(d)
        /\ d.st = "answered" /\ d.reply # Error
        /\ d.reply.copy.sec = srv'.sec /\ d.reply.copy.arg = srv'.arg
        /\ d.reply.copy.scope = srv'.scope
        /\ d.reply.copy.loaded = srv'.loaded /\ d.reply.copy.data = srv'.data
    BY <1>1, <1>2, <2>2, ShownFacts
  <2> HIDE DEF d
  <2>3. Cores'
    BY <1>1, <2>1, <2>4, CoresServed
  <2>5. NothingLoaded'
    BY <1>2, <1>4, <2>2 DEF NothingLoaded
  <2>6. Typed'
    BY <1>1, <2>1, <2>2, <2>4 DEF Typed, LoaderTyped, GroupsTyped
  <2>7. Serialized'
    BY <1>1, <1>2, <2>1, <2>2, <2>4, SerializedServed
  <2>8. d.reply.copy.sec = d.sec /\ d.reply.copy.arg = d.arg
    BY <2>2, <2>4 DEF Continues
  <2>9. Applied'
    BY <1>1, <2>1, <2>8 DEF Applied, IntentApplied, Awaited
  <2>10. ASSUME timeouts = 0 PROVE InTurn'
    <3>1. Backed(srv, srv.data, retried)
      BY <2>10 DEF InTurn
    <3>2. Backed(srv', srv'.data, retried)
      <4>1. Marked(srv', srv'.data)
        BY <2>2, <3>1 DEF Backed, Marked
      <4>2. ~retried => Printed(srv', srv'.data)
        BY <2>2, <3>1 DEF Backed, Printed, Sections
      <4>3. QED
        BY <4>1, <4>2 DEF Backed
    <3>3. ~retried => srv.data[Core(c.sec)].arg = c.arg
      <4>1. c.sec \in Lists /\ srv.fp[c.sec] = [arg |-> c.arg, date |-> c.date]
        BY <1>7 DEF Restores, Fingerprint
      <4>2. srv.fp[c.sec] # None
        <5>1. [arg |-> c.arg, date |-> c.date] \in [arg : Args, date : Dates]
          BY <1>2
        <5>2. QED
          BY <4>1, <5>1, ExplorerAssumption
      <4>3. ~retried => PrintOf(srv.data[Core(c.sec)]) = [arg |-> c.arg, date |-> c.date]
        BY <3>1, <4>1, <4>2 DEF Backed, Printed
      <4>4. QED
        BY <4>3 DEF PrintOf
    <3>4. ~retried => CoreShown(d.reply.copy)
      BY <2>2, <2>4, <3>3 DEF CoreShown
    <3>5. d.reply.copy.scope = srv'.scope /\ d.reply.copy.sec = srv'.sec
      BY <2>4
    <3>6. \A x \in calls' : IsLoad(x) => x = d
      BY <1>5, <2>1, <2>10
    <3>7. d.live /\ d \in calls' /\ IsLoad(d)
      BY <1>1, <1>5, <2>1, <2>4, <2>10 DEF Continues, Awaited, IsLoad
    <3>8. \A x \in calls' : x.live
      BY <2>1, <2>10, <3>7 DEF InTurn
    <3>9. ~retried => CoreShown(view')
      BY <1>1, <2>10 DEF InTurn
    <3>10. \A x \in calls' : IsLoad(x) => x.st # "running"
      BY <2>4, <3>6
    <3>11. ~ \A x \in calls' : IsLoad(x) => x.st # "answered" \/ x.reply = Error
      BY <2>4, <3>7
    <3>12. \A x \in calls' :
             IsLoad(x) /\ x.st = "answered" /\ x.reply # Error =>
                /\ ~retried => CoreShown(x.reply.copy)
                /\ x.reply.copy.scope = srv'.scope
                /\ x.reply.copy.sec = srv'.sec
      BY <3>4, <3>5, <3>6
    <3>13. QED
      BY <1>1, <3>2, <3>8, <3>9, <3>10, <3>11, <3>12 DEF InTurn, Agrees
  <2>11. QED
    BY <1>1, <2>3, <2>5, <2>6, <2>7, <2>9, <2>10 DEF InTurn
<1>8. CASE c.id >= srv.applied /\ ~Restores(srv, c)
  <2> DEFINE d == [c EXCEPT !.st = "running", !.cur = srv]
  <2>1. calls' = (calls \ {c}) \cup {d} /\ srv' = srv
    BY <1>2, <1>3, <1>8 DEF StartLoad, Update, IsRecord
  <2>2. Continues(d, c) /\ d.st = "running" /\ d.cur = srv
    BY <1>2, <1>3, RunningFacts
  <2> HIDE DEF d
  <2>3. IsLoad(d) /\ CallTyped(d)
    BY <1>1, <2>2 DEF Continues, CallTyped, IsLoad
  <2>4. Typed'
    BY <1>1, <2>1, <2>3 DEF Typed, LoaderTyped, GroupsTyped
  <2>5. Serialized'
    BY <1>1, <2>1, <2>2, SerializedServed
  <2>6. Applied'
    BY <1>1, <2>1, <2>2 DEF Applied, IntentApplied, Awaited
  <2>7. ASSUME timeouts = 0 PROVE InTurn'
    <3>1. \A x \in calls' : x.live
      BY <1>5, <2>1, <2>2, <2>7 DEF InTurn, Continues, Awaited
    <3>2. Backed(srv, srv.data, retried) /\ (~retried => CoreShown(view))
      BY <2>7 DEF InTurn
    <3>3. \A x \in calls' : x.st = "running" /\ IsLoad(x) =>
             Backed(x.cur, srv.data, retried)
      BY <2>1, <2>2, <2>7, <3>2 DEF InTurn
    <3>4. \A x \in calls' : IsLoad(x) /\ x.st = "answered" => x \in calls
      BY <2>1, <2>2
    <3>5. Agrees(view)
      BY <1>1, <1>5, <2>7 DEF InTurn
    <3>6. QED
      BY <1>1, <1>5, <2>1, <2>2, <2>7, <3>1, <3>2, <3>3, <3>4, <3>5
         DEF InTurn, Agrees
  <2>8. Cores'
    BY <1>1, <2>1, <2>2, CoresServed
  <2>9. NothingLoaded'
    BY <1>1, <2>1, <2>2, <2>3 DEF NothingLoaded
  <2>10. QED
    BY <1>1, <2>4, <2>5, <2>6, <2>7, <2>8, <2>9 DEF InTurn
<1>9. QED
  BY <1>2, <1>3, <1>6, <1>7, <1>8 DEF IsRecord

\* A load that commits what it queried (pools_explorer.py 1463-1506, 1730-1777).
LEMMA CommitLoadKeeps ==
    ASSUME IInv, NEW c \in calls, NEW ok \in BOOLEAN, CommitLoad(c, ok)
    PROVE  IInv'
<1> USE DEF IInv
<1>1. /\ c.st = "running" /\ IsLoad(c)
      /\ UNCHANGED <<view, loader, groups, boot, due, want, retried, acts, timeouts>>
      /\ errors' \in Nat
  BY DEF CommitLoad, Queries, Typed
<1>2. /\ CallTyped(c) /\ IsCall(c) /\ c.who = "loader" /\ IsRecord(c.cur)
      /\ c.sec \in Sections /\ c.arg \in Args /\ c.date \in Dates
      /\ c.id \in Nat /\ c.id > 0
  BY <1>1 DEF Typed, CallTyped, IsCall, IsOp
<1>3. IsRecord(srv)
  BY DEF Typed
<1>4. None \notin Args
  BY ExplorerAssumption
<1> DEFINE tab == Table(c.arg, c.date, ok)
           d == Answered(c, Initial(srv'))
<1>5. calls' = (calls \ {c}) \cup {d} /\ srv' = Loaded(c.cur, c, ok)
  BY DEF CommitLoad, Update
<1>6. /\ IsRecord(srv')
      /\ srv'.sec = c.sec /\ srv'.arg = c.arg /\ srv'.scope = c.id
      /\ srv'.applied = c.id
      /\ srv'.loaded \subseteq c.cur.loaded \cup {Core(c.sec)}
      /\ \A k \in srv'.loaded :
            srv'.data[k] = IF k = Core(c.sec) THEN tab ELSE srv.data[k]
      /\ \A u \in Sections : srv'.fp[u] # None =>
            /\ srv'.fp[u] = IF u = c.sec THEN Fingerprint(c) ELSE c.cur.fp[u]
            /\ srv'.data[Core(u)] = IF u = c.sec THEN tab ELSE srv.data[Core(u)]
  BY <1>2, <1>3, <1>5, LoadedFacts
<1>7. tab # None /\ PrintOf(tab) = Fingerprint(c) /\ tab.arg = c.arg
  BY <1>2, NoneFacts DEF Fingerprint
<1>8. /\ Continues(d, c) /\ CallTyped(d)
      /\ d.st = "answered" /\ d.reply # Error
      /\ d.reply.copy.sec = srv'.sec /\ d.reply.copy.arg = srv'.arg
      /\ d.reply.copy.scope = srv'.scope
      /\ d.reply.copy.loaded = srv'.loaded /\ d.reply.copy.data = srv'.data
  BY <1>1, <1>2, <1>6, ShownFacts
<1> HIDE DEF d, tab
<1>9. Cores' /\ NothingLoaded'
  <2>1. Cores'
    BY <1>1, <1>5, <1>8, CoresServed
  <2>2. QED
    BY <1>2, <1>4, <1>6, <2>1 DEF NothingLoaded
<1>10. Typed'
  BY <1>1, <1>5, <1>6, <1>8 DEF Typed, LoaderTyped, GroupsTyped
<1>11. Serialized'
  BY <1>1, <1>2, <1>5, <1>6, <1>8, SerializedServed
<1>12. d.reply.copy.sec = d.sec /\ d.reply.copy.arg = d.arg
  BY <1>6, <1>8 DEF Continues
<1>13. Applied'
  BY <1>1, <1>5, <1>12 DEF Applied, IntentApplied, Awaited
<1>14. ASSUME timeouts = 0 PROVE InTurn'
  <2>1. Awaited(c) /\ \A x \in calls : IsLoad(x) => x = c
    BY <1>1, <1>2, <1>14 DEF InTurn, Serialized, Awaited, Typed, CallTyped, IsCall
  <2>2. Backed(c.cur, srv.data, retried)
    BY <1>1, <1>14 DEF InTurn
  <2>3. Backed(srv', srv'.data, retried)
    <3>1. Marked(srv', srv'.data)
      BY <1>6, <1>7, <2>2 DEF Backed, Marked
    <3>2. ~retried => Printed(srv', srv'.data)
      BY <1>6, <1>7, <2>2 DEF Backed, Printed, Sections
    <3>3. QED
      BY <3>1, <3>2 DEF Backed
  <2>4. CoreShown(d.reply.copy)
    BY <1>6, <1>7, <1>8 DEF CoreShown
  <2>5. d.reply.copy.scope = srv'.scope /\ d.reply.copy.sec = srv'.sec
    BY <1>8
  <2>6. \A x \in calls' : IsLoad(x) => x = d
    BY <1>5, <2>1
  <2>7. d.live /\ d \in calls' /\ IsLoad(d)
    BY <1>1, <1>5, <1>8, <2>1 DEF Continues, Awaited, IsLoad
  <2>8. \A x \in calls' : x.live
    BY <1>5, <1>14, <2>7 DEF InTurn
  <2>9. ~retried => CoreShown(view')
    BY <1>1, <1>14 DEF InTurn
  <2>10. \A x \in calls' : IsLoad(x) => x.st # "running"
    BY <1>8, <2>6
  <2>11. ~ \A x \in calls' : IsLoad(x) => x.st # "answered" \/ x.reply = Error
    BY <1>8, <2>7
  <2>12. \A x \in calls' :
           IsLoad(x) /\ x.st = "answered" /\ x.reply # Error =>
              /\ CoreShown(x.reply.copy)
              /\ x.reply.copy.scope = srv'.scope
              /\ x.reply.copy.sec = srv'.sec
    BY <2>4, <2>5, <2>6
  <2>13. QED
    BY <1>1, <2>3, <2>8, <2>9, <2>10, <2>11, <2>12 DEF InTurn, Agrees
<1>15. QED
  BY <1>1, <1>9, <1>10, <1>11, <1>13, <1>14 DEF InTurn

\* A step of the server for a group, or one that fails, leaves loads and their
\* answers alone and the scope of the record as it is.
LEMMA BesideLoads ==
    ASSUME InTurn, NEW c \in calls, NEW d, Continues(d, c),
           calls' = (calls \ {c}) \cup {d},
           UNCHANGED <<view, timeouts, retried>>,
           srv'.scope = srv.scope, srv'.sec = srv.sec,
           timeouts = 0 => Backed(srv', srv'.data, retried),
           timeouts = 0 => \A r : Backed(r, srv.data, retried) =>
                                    Backed(r, srv'.data, retried),
           IsLoad(d) => c.st # "answered" /\ d.st = "answered" /\ d.reply = Error
    PROVE  InTurn'
<1>1. SUFFICES ASSUME timeouts = 0 PROVE InTurn'
  BY DEF InTurn
<1>2. \A x \in calls' : x.live
  BY <1>1 DEF InTurn, Continues
<1>3. \A x \in calls' : x.st = "running" /\ IsLoad(x) =>
         Backed(x.cur, srv'.data, retried)
  <2>1. SUFFICES ASSUME NEW x \in calls', x.st = "running", IsLoad(x)
                 PROVE  Backed(x.cur, srv.data, retried)
    BY <1>1
  <2>2. x \in calls
    BY <2>1
  <2>3. QED
    BY <1>1, <2>1, <2>2 DEF InTurn
<1>4. ~retried => CoreShown(view')
  BY <1>1 DEF InTurn
<1>5. \A x \in calls' :
         IsLoad(x) /\ x.st = "answered" /\ x.reply # Error =>
            /\ ~retried => CoreShown(x.reply.copy)
            /\ x.reply.copy.scope = srv'.scope
            /\ x.reply.copy.sec = srv'.sec
  BY <1>1 DEF InTurn, Agrees
<1>6. (\A x \in calls' : IsLoad(x) => x.st # "answered" \/ x.reply = Error)
        => (\A x \in calls : IsLoad(x) => x.st # "answered" \/ x.reply = Error)
  <2>1. IsLoad(c) => c.st # "answered"
    BY DEF IsLoad, Continues
  <2>2. QED
    BY <2>1
<1>7. (\A x \in calls' : IsLoad(x) => x.st # "answered" \/ x.reply = Error)
        => view'.scope = srv'.scope /\ view'.sec = srv'.sec
  BY <1>1, <1>6 DEF InTurn, Agrees
<1>8. QED
  BY <1>1, <1>2, <1>3, <1>4, <1>5, <1>7 DEF InTurn, Agrees

\* A group that starts: it is refused under another scope, or reads filters or
\* an entity to query for (pools_explorer.py 1544-1577).
LEMMA StartGroupKeeps ==
    ASSUME IInv, NEW c \in calls, StartGroup(c)
    PROVE  IInv'
<1> USE DEF IInv
<1>1. /\ c.st = "sent" /\ ~IsLoad(c)
      /\ UNCHANGED <<srv, view, loader, groups, boot, due, want, retried,
                     acts, errors, timeouts>>
  BY DEF StartGroup
<1>2. CallTyped(c) /\ IsCall(c) /\ IsOp(c)
  BY DEF Typed, CallTyped, IsCall
<1>3. IsRecord(srv) /\ srv.arg # None /\ srv.arg \in Args
  <2>1. srv.arg # None
    BY <1>1 DEF NothingLoaded
  <2>2. QED
    BY <2>1 DEF Typed, IsRecord
<1>4. PICK d : /\ calls' = (calls \ {c}) \cup {d}
               /\ d = IF c.scope # srv.scope THEN Answered(c, Nothing)
                      ELSE IF c.sec = Entity /\ srv.sec # Entity
                      THEN Answered(c, Error)
                      ELSE [c EXCEPT !.st = "running", !.cur = srv]
  BY DEF StartGroup, Update
<1>5. Continues(d, c) /\ CallTyped(d)
  <2>1. CASE c.scope # srv.scope
    <3>1. Continues(d, c) /\ d.st = "answered" /\ d.reply = Nothing
      BY <1>2, <1>4, <2>1, AnsweredFacts
    <3>2. QED
      BY <1>1, <3>1 DEF CallTyped, IsReply, Continues, IsLoad
  <2>2. CASE c.scope = srv.scope /\ c.sec = Entity /\ srv.sec # Entity
    <3>1. Continues(d, c) /\ d.st = "answered" /\ d.reply = Error
      BY <1>2, <1>4, <2>2, AnsweredFacts
    <3>2. QED
      BY <3>1 DEF CallTyped, IsReply, Continues
  <2>3. CASE c.scope = srv.scope /\ ~(c.sec = Entity /\ srv.sec # Entity)
    <3>1. Continues(d, c) /\ d.st = "running" /\ d.cur = srv
      BY <1>2, <1>3, <1>4, <2>3, RunningFacts
    <3>2. QED
      BY <1>3, <3>1 DEF CallTyped, Continues
  <2>4. QED
    BY <2>1, <2>2, <2>3
<1>6. ~IsLoad(d)
  BY <1>1, <1>5 DEF Continues, IsLoad
<1>7. Typed'
  BY <1>1, <1>4, <1>5 DEF Typed, LoaderTyped, GroupsTyped
<1>8. Serialized'
  BY <1>1, <1>4, <1>5, SerializedServed
<1>9. Applied'
  BY <1>1, <1>4, <1>6 DEF Applied, IntentApplied
<1>10. timeouts = 0 => Backed(srv', srv'.data, retried)
  BY <1>1 DEF InTurn
<1>11. InTurn'
  BY <1>1, <1>4, <1>5, <1>6, <1>10, BesideLoads
<1>12. Cores'
  BY <1>1, <1>4, <1>5, CoresServed
<1>13. NothingLoaded'
  BY <1>1, <1>3 DEF NothingLoaded
<1>14. QED
  BY <1>7, <1>8, <1>9, <1>11, <1>12, <1>13

\* A group that commits: what it marks it has attached, and a core is only among
\* them when it was queried again (pools_explorer.py 1590-1629).
LEMMA CommitGroupKeeps ==
    ASSUME IInv, NEW c \in calls, NEW ok \in BOOLEAN, CommitGroup(c, ok)
    PROVE  IInv'
<1> USE DEF IInv
<1> DEFINE k == <<c.sec, c.grp>>
           tab == Fetched(c.cur, c, ok)
           d == Answered(c, Patch(k, tab))
<1>1. /\ c.st = "running" /\ ~IsLoad(c)
      /\ UNCHANGED <<view, loader, groups, boot, due, want, retried, acts, timeouts>>
      /\ errors' \in Nat
      /\ calls' = (calls \ {c}) \cup {d}
      /\ srv' = Attached(c.cur, c, ok)
  BY DEF CommitGroup, Update, Queries, Typed
<1>2. /\ CallTyped(c) /\ IsCall(c) /\ IsRecord(c.cur)
      /\ c.sec \in Sections /\ c.grp \in SectionGroups[c.sec]
      /\ c.date \in Dates /\ c.cur.arg \in Args
  BY <1>1 DEF Typed, CallTyped, IsCall, IsOp
<1>3. IsRecord(srv) /\ srv.arg # None
  BY <1>1 DEF Typed, NothingLoaded
<1>4. /\ IsRecord(srv') /\ tab \in Tables /\ tab # None
      /\ srv'.sec = srv.sec /\ srv'.arg = srv.arg /\ srv'.scope = srv.scope
      /\ srv'.applied = srv.applied /\ srv'.fp = srv.fp
      /\ srv'.loaded = srv.loaded \cup {k}
      /\ srv'.data = [srv.data EXCEPT ![k] = tab]
  BY <1>1, <1>2, <1>3, AttachedFacts
<1>5. k \in Keys /\ (~retried => \A s \in Sections : k # Core(s))
  BY <1>2, KeyFacts DEF Cores
<1>6. Continues(d, c) /\ d.st = "answered" /\ d.reply = Patch(k, tab)
  BY <1>2, AnsweredFacts
<1> HIDE DEF d
<1>7. ~IsLoad(d) /\ d.sec = c.sec /\ d.grp = c.grp
  BY <1>1, <1>6 DEF Continues, IsLoad
<1>8. CallTyped(d)
  <2>1. IsReply(d)
    BY <1>4, <1>6, <1>7 DEF IsReply
  <2>2. QED
    BY <1>6, <2>1 DEF CallTyped, Continues
<1> HIDE DEF k, tab
<1>10. Typed'
  BY <1>1, <1>4, <1>8 DEF Typed, LoaderTyped, GroupsTyped
<1>11. Serialized'
  BY <1>1, <1>4, <1>6, SerializedServed
<1>12. Applied'
  BY <1>1, <1>7 DEF Applied, IntentApplied
<1>13. /\ srv'.data[k] = tab
       /\ \A j : j # k => srv'.data[j] = srv.data[j]
       /\ ~retried => \A s \in Lists : srv'.data[Core(s)] = srv.data[Core(s)]
  <2>1. srv.data \in [Keys -> Tables \cup {None}]
    BY <1>3 DEF IsRecord
  <2>2. ~retried => \A s \in Lists : Core(s) # k
    BY <1>5 DEF Sections
  <2>3. QED
    BY <1>4, <1>5, <2>1, <2>2
<1>14. \A r : Marked(r, srv.data) => Marked(r, srv'.data)
  BY <1>4, <1>13 DEF Marked
<1>15. \A r : ~retried /\ Printed(r, srv.data) => Printed(r, srv'.data)
  BY <1>13 DEF Printed
<1>16. timeouts = 0 => Backed(srv', srv'.data, retried)
  <2>1. SUFFICES ASSUME timeouts = 0 PROVE Backed(srv', srv'.data, retried)
    OBVIOUS
  <2>2. Marked(srv, srv.data) /\ (~retried => Printed(srv, srv.data))
    BY <2>1 DEF InTurn, Backed
  <2>3. Marked(srv', srv'.data)
    BY <1>4, <1>13, <1>14, <2>2 DEF Marked
  <2>4. ~retried => Printed(srv', srv'.data)
    BY <1>4, <1>15, <2>2 DEF Printed
  <2>5. QED
    BY <2>3, <2>4 DEF Backed
<1>17. \A r : Backed(r, srv.data, retried) => Backed(r, srv'.data, retried)
  BY <1>14, <1>15 DEF Backed
<1>18. InTurn'
  BY <1>1, <1>4, <1>6, <1>7, <1>16, <1>17, BesideLoads
<1>19. Cores'
  BY <1>1, <1>6, CoresServed
<1>20. NothingLoaded'
  BY <1>3, <1>4 DEF NothingLoaded
<1>21. QED
  BY <1>10, <1>11, <1>12, <1>18, <1>19, <1>20

\* A call that is refused has changed nothing.
LEMMA RaiseKeeps ==
    ASSUME IInv, NEW c \in calls, Raise(c)
    PROVE  IInv'
<1> USE DEF IInv
<1> DEFINE d == Answered(c, Error)
<1>1. /\ c.st = "sent" /\ errors' = errors + 1
      /\ UNCHANGED <<srv, view, loader, groups, boot, due, want, retried, acts, timeouts>>
      /\ calls' = (calls \ {c}) \cup {d}
  BY DEF Raise, Update
<1>2. CallTyped(c) /\ IsCall(c)
  BY DEF Typed, CallTyped
<1>3. Continues(d, c) /\ d.st = "answered" /\ d.reply = Error
  BY <1>2, AnsweredFacts
<1> HIDE DEF d
<1>4. CallTyped(d) /\ (IsLoad(d) <=> IsLoad(c))
  BY <1>3 DEF CallTyped, IsReply, Continues, IsLoad
<1>5. Typed'
  BY <1>1, <1>4 DEF Typed, LoaderTyped, GroupsTyped
<1>6. Serialized'
  BY <1>1, <1>3, SerializedServed
<1>7. Applied'
  BY <1>1, <1>3 DEF Applied, IntentApplied
<1>8. timeouts = 0 => Backed(srv', srv'.data, retried)
  BY <1>1 DEF InTurn
<1>9. InTurn'
  BY <1>1, <1>3, <1>8, BesideLoads
<1>10. Cores'
  BY <1>1, <1>3, CoresServed
<1>11. NothingLoaded'
  BY <1>1, <1>3, <1>4 DEF NothingLoaded
<1>12. QED
  BY <1>5, <1>6, <1>7, <1>9, <1>10, <1>11

-----------------------------------------------------------------------------
(* The steps of the browser. *)

\* Requests that are sent disturb neither record nor view.
LEMMA SentKeepsInTurn ==
    ASSUME InTurn, UNCHANGED <<srv, view, timeouts>>, calls \subseteq calls',
           retried => retried',
           \A d \in calls' : d \in calls \/ (d.live /\ d.st = "sent")
    PROVE  InTurn'
<1>1. SUFFICES ASSUME timeouts = 0 PROVE InTurn'
  BY DEF InTurn
<1>2. \A x \in calls' : x.live
  BY <1>1 DEF InTurn
<1>3. \A r : Backed(r, srv.data, retried) => Backed(r, srv.data, retried')
  BY DEF Backed
<1>4. Backed(srv, srv.data, retried') /\ (~retried' => CoreShown(view))
  BY <1>1, <1>3 DEF InTurn
<1>5. \A x \in calls' : x.st = "running" /\ IsLoad(x) =>
         Backed(x.cur, srv.data, retried')
  <2>1. SUFFICES ASSUME NEW x \in calls', x.st = "running", IsLoad(x)
                 PROVE  Backed(x.cur, srv.data, retried)
    BY <1>3
  <2>2. x \in calls
    BY <2>1
  <2>3. QED
    BY <1>1, <2>1, <2>2 DEF InTurn
<1>6. \A x \in calls' :
         IsLoad(x) /\ x.st = "answered" /\ x.reply # Error =>
            (~retried' => CoreShown(x.reply.copy)) /\ Agrees(x.reply.copy)
  BY <1>1 DEF InTurn
<1>7. (\A x \in calls' : IsLoad(x) => x.st # "answered" \/ x.reply = Error)
        => Agrees(view)
  BY <1>1 DEF InTurn
<1>8. QED
  BY <1>2, <1>4, <1>5, <1>6, <1>7 DEF InTurn, Agrees

LEMMA SentKeepsApplied ==
    ASSUME Applied, UNCHANGED view, loader'.busy \/ UNCHANGED <<loader, want>>,
           \A d \in calls' : d \in calls \/ d.st = "sent"
    PROVE  Applied'
BY DEF Applied, IntentApplied

\* What an answer makes of the view: a load replaces it, a group adds its own
\* data and mark and brings its date (useMiniApp.ts 161-290).
LEMMA ShowsFacts ==
    ASSUME view \in Copies, NEW c, CallTyped(c), c.st = "answered"
    PROVE  LET v == Shows(view, c.reply) IN
           /\ v \in Copies
           /\ c.reply = Error => v = view
           /\ IsLoad(c) /\ c.reply # Error => v = c.reply.copy
           /\ ~IsLoad(c) => /\ v.sec = view.sec /\ v.arg = view.arg
                            /\ v.scope = view.scope
           /\ ~IsLoad(c) /\ c.grp # "core" =>
                \A s \in Sections :
                   /\ Core(s) \in v.loaded <=> Core(s) \in view.loaded
                   /\ v.data[Core(s)] = view.data[Core(s)]
<1> DEFINE v == Shows(view, c.reply)
           Good == /\ v \in Copies
                   /\ c.reply = Error => v = view
                   /\ IsLoad(c) /\ c.reply # Error => v = c.reply.copy
                   /\ ~IsLoad(c) => /\ v.sec = view.sec /\ v.arg = view.arg
                                    /\ v.scope = view.scope
                   /\ ~IsLoad(c) /\ c.grp # "core" =>
                        \A s \in Sections :
                           /\ Core(s) \in v.loaded <=> Core(s) \in view.loaded
                           /\ v.data[Core(s)] = view.data[Core(s)]
<1>0. SUFFICES Good
  OBVIOUS
<1>1. IsReply(c) /\ IsCall(c) /\ IsOp(c)
  BY DEF CallTyped, IsCall
<1>2. ASSUME c.reply = Error \/ (c.reply = Nothing /\ ~IsLoad(c)) PROVE Good
  <2>1. Shows(view, c.reply) = view
    BY <1>2 DEF Shows, Error, Nothing
  <2>2. QED
    BY <1>2, <2>1
<1>3. ASSUME IsLoad(c), c.reply # Error PROVE Good
  <2>1. c.reply.kind = "initial" /\ c.reply.copy \in Copies
    BY <1>1, <1>3 DEF IsReply
  <2>2. Shows(view, c.reply) = c.reply.copy
    BY <2>1 DEF Shows
  <2>3. QED
    BY <1>3, <2>1, <2>2
<1>4. ASSUME ~IsLoad(c), c.reply # Error, c.reply # Nothing PROVE Good
  <2> DEFINE k == <<c.sec, c.grp>>
  <2>1. PICK a \in Tables : c.reply = Patch(k, a)
    BY <1>1, <1>4 DEF IsReply
  <2>2. k \in Keys /\ (c.grp # "core" => \A s \in Sections : k # Core(s))
    BY <1>1, <1>4, KeyFacts DEF IsOp
  <2> HIDE DEF k
  <2>3. c.reply.kind = "patch" /\ c.reply.key = k /\ c.reply.table = a
    BY <2>1 DEF Patch
  <2>4. PICK w : w = [view EXCEPT !.loaded = @ \cup {k}, !.data[k] = a, !.date = a.date]
    OBVIOUS
  <2>5. v = w
    BY <2>3, <2>4 DEF Shows, Patched
  <2>7. /\ w.sec = view.sec /\ w.arg = view.arg /\ w.scope = view.scope
        /\ w.loaded = view.loaded \cup {k}
        /\ w.data = [view.data EXCEPT ![k] = a]
    BY <2>4 DEF Copies
  <2>8. view.data \in [Keys -> Tables \cup {None}]
    BY DEF Copies
  <2>9. w.data \in [Keys -> Tables \cup {None}] /\ a.date \in Dates
    BY <2>7, <2>8 DEF Tables
  <2>10. w \in Copies
    BY <2>2, <2>4, <2>9 DEF Copies
  <2>12. c.grp # "core" => \A s \in Sections :
           /\ Core(s) \in w.loaded <=> Core(s) \in view.loaded
           /\ w.data[Core(s)] = view.data[Core(s)]
    <3>1. \A s \in Sections : Core(s) \in Keys
      BY KeyFacts
    <3>2. QED
      BY <2>2, <2>7, <2>8, <3>1
  <2>13. QED
    BY <1>4, <2>5, <2>7, <2>10, <2>12
<1> HIDE DEF Good
<1>5. QED
  BY <1>2, <1>3, <1>4 DEF IsLoad

\* A call settles in the loader or among the group calls (useSerializedLoader.ts
\* 67-74, useGroupLoader.ts 58-65).
LEMMA CallSettles ==
    ASSUME IInv, NEW c \in calls, c.live, NEW failed \in BOOLEAN, NEW rest,
           calls \ {c} \subseteq rest,
           \A x \in rest : \/ x \in calls \ {c}
                           \/ /\ x.who = c.who /\ ~x.live /\ x.id = c.id
                              /\ CallTyped(x)
                              /\ x.grp = c.grp /\ x.st = c.st /\ x.reply = c.reply,
           UNCHANGED <<srv, want, retried>>, view'.sec = view.sec \/ srv.arg # None,
           view'.loaded = view.loaded \/ srv.arg # None,
           Settles(c, failed, rest)
    PROVE  /\ Serialized' /\ LoaderTyped' /\ GroupsTyped'
           /\ \A d \in calls' : CallTyped(d)
           /\ rest \subseteq calls'
           /\ \A d \in calls' : d \in rest \/ (d.live /\ d.st = "sent")
           /\ c.who = "loader" =>
                 \/ loader'.busy
                 \/ loader'.error = failed /\ SameOp(c, want)
           /\ c.who = "group" => UNCHANGED loader
           /\ NothingLoaded' /\ Cores'
<1> USE DEF IInv
<1>1. IsRecord(srv) /\ LoaderTyped /\ GroupsTyped /\ \A x \in calls : CallTyped(x)
  BY DEF Typed
<1>2. \A x \in calls : IsCall(x)
  BY <1>1 DEF CallTyped
<1>6. \A x \in rest : \E y \in calls :
         x.grp = y.grp /\ x.st = y.st /\ x.reply = y.reply
  OBVIOUS
<1>3. CASE c.who = "loader"
  <2>1. Awaited(c)
    BY <1>3 DEF Awaited
  <2>2. LoaderSettles(failed, rest) /\ groups' = groups
    BY <1>3 DEF Settles
  <2>3. \A x \in rest : \/ x \in calls \ {c}
                        \/ x.who = "loader" /\ ~x.live /\ x.id = c.id
    BY <1>3
  <2>4. /\ Serialized' /\ LoaderTyped'
        /\ \/ /\ loader.pending = NoRequest
              /\ ~loader'.busy /\ loader'.error = failed /\ calls' = rest
           \/ loader'.busy
        /\ rest \subseteq calls' /\ loader'.pending = NoRequest
        /\ \A d \in calls' :
              d \in rest \/ (Fresh(d, want) /\ loader.pending # NoRequest)
    BY <1>1, <1>2, <2>1, <2>2, <2>3, SettlesFacts
  <2>5. \A d \in calls' : d \in rest \/ (d.live /\ d.st = "sent" /\ IsCall(d))
    BY <2>4 DEF Fresh
  <2>6. \A d \in calls' : CallTyped(d)
    BY <1>1, <2>5 DEF CallTyped
  <2>7. loader.pending = NoRequest => SameOp(c, want)
    BY <2>1 DEF Serialized
  <2>8. GroupsTyped'
    BY <1>1, <2>2 DEF GroupsTyped
  <2>9. Cores'
    BY <1>6, <2>4 DEF Cores, Fresh, SameOp
  <2>10. NothingLoaded'
    <3>1. SUFFICES ASSUME srv.arg = None PROVE NothingLoaded'
      BY DEF NothingLoaded
    <3>2. \A x \in rest : IsLoad(x) /\ (x.st = "answered" => x.reply = Error)
      BY <1>6, <3>1 DEF NothingLoaded, IsLoad
    <3>3. \A x \in calls' : IsLoad(x) /\ (x.st = "answered" => x.reply = Error)
      BY <2>4, <3>1, <3>2 DEF NothingLoaded, Fresh, SameOp, IsLoad
    <3>4. QED
      BY <2>2, <2>4, <3>1, <3>3 DEF NothingLoaded
  <2>11. QED
    BY <1>3, <2>4, <2>5, <2>6, <2>7, <2>8, <2>9, <2>10
<1>4. CASE c.who = "group"
  <2>1. calls' = rest /\ UNCHANGED loader
    BY <1>4 DEF Settles, GroupSettles
  <2>2. ~IsLoad(c)
    BY <1>2, <1>4 DEF IsCall, IsLoad
  <2>5. GroupsTyped'
    <3>1. groups' = [inFlight |-> groups.inFlight \ {KeyOf(c)},
                     failed |-> IF failed THEN groups.failed \cup {KeyOf(c)}
                                ELSE groups.failed]
      BY <1>4 DEF Settles, GroupSettles
    <3>2. QED
      BY <3>1 DEF GroupsTyped
  <2>6. LoaderTyped'
    BY <1>1, <2>1 DEF LoaderTyped
  <2>7. \A x \in calls' : x.who = "loader" => x \in calls
    BY <1>4, <2>1
  <2>8. \A x \in calls : Awaited(x) => x \in calls'
    BY <1>4, <2>1 DEF Awaited
  <2>9. Serialized'
    BY <2>1, <2>7, <2>8, SerializedKept
  <2>10. Cores'
    BY <1>6, <2>1 DEF Cores
  <2>11. NothingLoaded'
    BY <2>2 DEF NothingLoaded
  <2>12. QED
    BY <1>1, <1>4, <2>1, <2>5, <2>6, <2>9, <2>10, <2>11
<1>5. QED
  BY <1>2, <1>3, <1>4 DEF IsCall

\* An answer arrives (useMiniApp.ts 357-365, 395-420).
LEMMA DeliverKeeps ==
    ASSUME IInv, NEW c \in calls, Deliver(c)
    PROVE  IInv'
<1> USE DEF IInv
<1> DEFINE f == (c.reply = Error)
           rest == calls \ {c}
<1>1. /\ c.st = "answered" /\ c.live /\ view' = Shows(view, c.reply)
      /\ UNCHANGED <<srv, boot, want, retried, acts, errors, timeouts>>
      /\ Settles(c, f, rest)
  BY DEF Deliver
<1>2. due' \in BOOLEAN
  BY DEF Deliver
<1>3. CallTyped(c) /\ view \in Copies /\ IsCall(c)
  BY DEF Typed, CallTyped
<1>4. f \in BOOLEAN
  OBVIOUS
<1> HIDE DEF f
<1>6. /\ view' \in Copies
      /\ c.reply = Error => view' = view
      /\ IsLoad(c) /\ c.reply # Error => view' = c.reply.copy
      /\ ~IsLoad(c) => /\ view'.sec = view.sec /\ view'.arg = view.arg
                       /\ view'.scope = view.scope
      /\ ~IsLoad(c) /\ c.grp # "core" =>
           \A s \in Sections :
              /\ Core(s) \in view'.loaded <=> Core(s) \in view.loaded
              /\ view'.data[Core(s)] = view.data[Core(s)]
  BY <1>1, <1>3, ShowsFacts
<1>5. /\ Serialized' /\ LoaderTyped' /\ GroupsTyped'
      /\ \A d \in calls' : CallTyped(d)
      /\ rest \subseteq calls'
      /\ \A d \in calls' : d \in rest \/ (d.live /\ d.st = "sent")
      /\ c.who = "loader" =>
            \/ loader'.busy
            \/ loader'.error = f /\ SameOp(c, want)
      /\ c.who = "group" => UNCHANGED loader
      /\ NothingLoaded' /\ Cores'
  <2>1. view' = view \/ srv.arg # None
    BY <1>1, <1>6 DEF NothingLoaded
  <2>2. calls \ {c} \subseteq rest /\ \A x \in rest : x \in calls \ {c}
    OBVIOUS
  <2> HIDE DEF rest
  <2>3. QED
    BY <1>1, <1>4, <2>1, <2>2, CallSettles
<1>7. Typed'
  BY <1>1, <1>2, <1>5, <1>6 DEF Typed
<1>8. Applied'
  <2>1. \A x \in calls' :
          Awaited(x) /\ IsLoad(x) /\ x.st = "answered" /\ x.reply # Error =>
             x.reply.copy.sec = x.sec /\ x.reply.copy.arg = x.arg
    BY <1>5 DEF Applied
  <2>2. IntentApplied'
    <3>1. SUFFICES ASSUME ~loader'.busy, ~loader'.error, IsLoad(want)
                   PROVE  view'.sec = want.sec /\ view'.arg = want.arg
      BY <1>1 DEF IntentApplied
    <3>2. CASE c.who = "loader"
      <4>1. c.reply # Error /\ SameOp(c, want)
        BY <1>5, <3>1, <3>2 DEF f
      <4>2. IsLoad(c) /\ Awaited(c)
        BY <1>1, <3>1, <3>2, <4>1 DEF IsLoad, SameOp, Awaited
      <4>3. c.reply.copy.sec = c.sec /\ c.reply.copy.arg = c.arg
        BY <1>1, <4>1, <4>2 DEF Applied
      <4>4. QED
        BY <1>6, <4>1, <4>2, <4>3 DEF SameOp
    <3>3. CASE c.who = "group"
      <4>1. ~IsLoad(c)
        BY <1>3, <3>3 DEF IsCall
      <4>2. loader' = loader
        BY <1>5, <3>3
      <4>3. QED
        BY <1>6, <3>1, <4>1, <4>2 DEF Applied, IntentApplied
    <3>4. QED
      BY <1>3, <3>2, <3>3 DEF IsCall
  <2>3. QED
    BY <2>1, <2>2 DEF Applied
<1>9. ASSUME timeouts = 0 PROVE InTurn'
  <2>1. \A x \in calls' : x.live
    BY <1>5, <1>9 DEF InTurn
  <2>2. Backed(srv, srv.data, retried)
    BY <1>9 DEF InTurn
  <2>3. \A x \in calls' : x.st = "running" /\ IsLoad(x) =>
           Backed(x.cur, srv.data, retried)
    BY <1>5, <1>9 DEF InTurn
  <2>4. \A x \in calls' :
          IsLoad(x) /\ x.st = "answered" /\ x.reply # Error =>
             (~retried => CoreShown(x.reply.copy)) /\ Agrees(x.reply.copy)
    BY <1>5, <1>9 DEF InTurn
  <2>5. CASE IsLoad(c) /\ c.reply # Error
    <3>1. /\ ~retried => CoreShown(view')
          /\ view'.scope = srv.scope /\ view'.sec = srv.sec
      BY <1>1, <1>6, <1>9, <2>5 DEF InTurn, Agrees
    <3>2. QED
      BY <1>1, <2>1, <2>2, <2>3, <2>4, <3>1 DEF InTurn, Agrees
  <2>6. CASE ~IsLoad(c) \/ c.reply = Error
    <3>1. view.sec \in Sections
      BY <1>3 DEF Copies
    <3>2. ~retried => CoreShown(view')
      <4>1. SUFFICES ASSUME ~retried PROVE CoreShown(view')
        OBVIOUS
      <4>2. CoreShown(view) /\ c.grp # "core"
        BY <1>9, <4>1 DEF InTurn, Cores
      <4>3. QED
        BY <1>6, <2>6, <3>1, <4>2 DEF CoreShown
    <3>3. (\A x \in calls' : IsLoad(x) => x.st # "answered" \/ x.reply = Error)
             => (\A x \in calls : IsLoad(x) => x.st # "answered" \/ x.reply = Error)
      BY <1>5, <2>6
    <3>4. (\A x \in calls' : IsLoad(x) => x.st # "answered" \/ x.reply = Error)
             => view'.scope = srv.scope /\ view'.sec = srv.sec
      BY <1>6, <1>9, <2>6, <3>3 DEF InTurn, Agrees
    <3>5. QED
      BY <1>1, <2>1, <2>2, <2>3, <2>4, <3>2, <3>4 DEF InTurn, Agrees
  <2>7. QED
    BY <2>5, <2>6
<1>10. QED
  BY <1>1, <1>5, <1>7, <1>8, <1>9 DEF InTurn

\* The browser gives up on a call, which goes on (useMiniApp.ts 360-365).
LEMMA TimeOutKeeps ==
    ASSUME IInv, NEW c \in calls, TimeOut(c)
    PROVE  IInv'
<1> USE DEF IInv
<1> DEFINE d == [c EXCEPT !.live = FALSE]
           rest == (calls \ {c}) \cup {d}
<1>1. /\ c.live /\ timeouts' = timeouts + 1
      /\ UNCHANGED <<srv, view, boot, want, retried, acts, errors>>
      /\ Settles(c, TRUE, rest)
  BY DEF TimeOut
<1>2. due' \in BOOLEAN
  BY DEF TimeOut
<1>3. CallTyped(c) /\ IsCall(c) /\ timeouts \in Nat
  BY DEF Typed, CallTyped
<1>4. /\ IsCall(d) /\ ~d.live
      /\ d.who = c.who /\ d.id = c.id /\ d.st = c.st
      /\ d.cur = c.cur /\ d.reply = c.reply /\ d.grp = c.grp
      /\ IsReply(c) => IsReply(d)
  BY <1>3, DeadFacts
<1> HIDE DEF d
<1>5. CallTyped(d)
  BY <1>3, <1>4 DEF CallTyped, IsLoad
<1>6. \A x \in rest : \/ x \in calls \ {c}
                      \/ /\ x.who = c.who /\ ~x.live /\ x.id = c.id
                         /\ CallTyped(x)
                         /\ x.grp = c.grp /\ x.st = c.st /\ x.reply = c.reply
  BY <1>4, <1>5
<1>7. /\ Serialized' /\ LoaderTyped' /\ GroupsTyped'
      /\ \A x \in calls' : CallTyped(x)
      /\ \A x \in calls' : x \in rest \/ (x.live /\ x.st = "sent")
      /\ c.who = "loader" => loader'.busy \/ loader'.error = TRUE
      /\ c.who = "group" => UNCHANGED loader
      /\ NothingLoaded' /\ Cores'
  <2> HIDE DEF rest
  <2>1. calls \ {c} \subseteq rest
    BY DEF rest
  <2>2. QED
    BY <1>1, <1>6, <2>1, CallSettles
<1>8. Typed'
  BY <1>1, <1>2, <1>3, <1>7 DEF Typed
<1>9. Applied'
  <2>1. \A x \in calls' : Awaited(x) /\ x.st = "answered" => x \in calls
    BY <1>4, <1>7 DEF Awaited
  <2>2. c.who = "loader" \/ c.who = "group"
    BY <1>3 DEF IsCall
  <2>3. IntentApplied'
    BY <1>1, <1>7, <2>2 DEF Applied, IntentApplied
  <2>4. QED
    BY <2>1, <2>3 DEF Applied
<1>10. timeouts' # 0
  BY <1>1, <1>3
<1>11. QED
  BY <1>7, <1>8, <1>9, <1>10 DEF InTurn

\* The answer to a call that the browser gave up on is dropped.
LEMMA DropKeeps ==
    ASSUME IInv, NEW c \in calls, Drop(c)
    PROVE  IInv'
<1> USE DEF IInv
<1>1. /\ ~c.live /\ calls' = calls \ {c}
      /\ UNCHANGED <<srv, view, loader, groups, boot, due, want, retried,
                     acts, errors, timeouts>>
  BY DEF Drop
<1>2. timeouts # 0
  BY <1>1 DEF InTurn
<1>3. Typed'
  BY <1>1 DEF Typed, LoaderTyped, GroupsTyped
<1>4. Serialized'
  BY <1>1, SerializedKept DEF Awaited
<1>5. Applied'
  BY <1>1 DEF Applied, IntentApplied
<1>6. NothingLoaded' /\ Cores'
  BY <1>1 DEF NothingLoaded, Cores
<1>7. QED
  BY <1>1, <1>2, <1>3, <1>4, <1>5, <1>6 DEF InTurn

\* A request of the user or of the driver: a load, or a group of the entity.
LEMMA EnqueueKeeps ==
    ASSUME IInv, NEW op, IsOp(op), op.grp # "core", Enqueue(op),
           IsLoad(op) \/ view.sec = Entity,
           UNCHANGED <<srv, view, groups, retried, errors, timeouts>>,
           boot' \in BOOLEAN, due' \in BOOLEAN, acts' \in Nat
    PROVE  IInv'
<1> USE DEF IInv
<1>1. IsRecord(srv) /\ LoaderTyped /\ \A c \in calls : IsCall(c)
  BY DEF Typed, CallTyped
<1>2. /\ Serialized' /\ LoaderTyped' /\ loader'.busy
      /\ calls \subseteq calls'
      /\ \A d \in calls' : d \in calls \/ Fresh(d, op)
  BY <1>1, EnqueueFacts
<1>3. \A d \in calls' : d \in calls \/
         (d.live /\ d.st = "sent" /\ IsCall(d) /\ d.grp = op.grp)
  BY <1>2 DEF Fresh, SameOp
<1>4. \A d \in calls' : CallTyped(d)
  BY <1>3 DEF CallTyped, Typed
<1>5. Typed'
  BY <1>2, <1>4 DEF Typed, GroupsTyped
<1>6. Applied'
  BY <1>2, <1>3, SentKeepsApplied
<1>7. InTurn'
  BY <1>2, <1>3, SentKeepsInTurn
<1>8. want' = op
  BY DEF Enqueue
<1>9. Cores'
  BY <1>3, <1>8 DEF Cores
<1>10. NothingLoaded'
  <2>1. SUFFICES ASSUME srv.arg = None PROVE NothingLoaded'
    BY DEF NothingLoaded
  <2>2. IsLoad(op)
    BY <2>1, ExplorerAssumption DEF NothingLoaded
  <2>3. \A d \in calls' : IsLoad(d) /\ (d.st = "answered" => d.reply = Error)
    BY <1>3, <2>1, <2>2 DEF NothingLoaded, IsLoad
  <2>4. QED
    BY <1>8, <2>1, <2>2, <2>3 DEF NothingLoaded
<1>11. QED
  BY <1>2, <1>5, <1>6, <1>7, <1>9, <1>10

\* Group calls that are sent, a core among them when the user had it queried
\* again.
LEMMA GroupsSent ==
    ASSUME IInv, GroupsTyped', srv.arg # None, calls \subseteq calls',
           \A d \in calls' : d \in calls \/
               /\ IsCall(d) /\ d.live /\ d.st = "sent" /\ d.who = "group"
               /\ d.grp = "core" => retried',
           UNCHANGED <<srv, view, loader, boot, want, errors, timeouts>>,
           retried => retried', retried' \in BOOLEAN,
           due' \in BOOLEAN, acts' \in Nat
    PROVE  IInv'
<1> USE DEF IInv
<1>1. \A d \in calls' : CallTyped(d)
  BY DEF CallTyped, Typed
<1>2. Typed'
  BY <1>1 DEF Typed, LoaderTyped
<1>3. Serialized'
  BY SerializedKept
<1>4. Applied'
  BY SentKeepsApplied
<1>5. InTurn'
  BY SentKeepsInTurn
<1>6. Cores' /\ NothingLoaded'
  BY DEF Cores, NothingLoaded
<1>7. QED
  BY <1>2, <1>3, <1>4, <1>5, <1>6

\* The driver issues the first load once (PoolsExplorerApp.tsx 190-202).
LEMMA DriveBootKeeps ==
    ASSUME IInv, DriveBoot
    PROVE  IInv'
<1>1. /\ due' = FALSE /\ boot' = TRUE
      /\ UNCHANGED <<srv, view, groups, retried, acts, errors, timeouts>>
  BY DEF DriveBoot
<1>2. acts' \in Nat
  BY <1>1 DEF IInv, Typed
<1>3. CASE boot
  <2>1. UNCHANGED <<loader, calls, want>>
    BY <1>3 DEF DriveBoot
  <2>2. QED
    BY <1>1, <2>1
       DEF IInv, Typed, LoaderTyped, GroupsTyped, NothingLoaded, Cores, Serialized,
           Applied, IntentApplied, InTurn, Agrees
<1>4. CASE ~boot
  <2>1. PICK s \in Sections : \E op \in Loads(s, Dates) : Enqueue(op)
    BY <1>4 DEF DriveBoot
  <2>2. PICK op \in Loads(s, Dates) : Enqueue(op)
    BY <2>1
  <2>3. IsOp(op) /\ IsLoad(op) /\ op.grp # "core"
    BY LoadsFacts
  <2>4. QED
    BY <1>1, <1>2, <2>2, <2>3, EnqueueKeeps
<1>5. QED
  BY <1>3, <1>4

\* A group call carries its group (useGroupLoader.ts 44-57).
LEMMA GroupCallFacts ==
    ASSUME view \in Copies, NEW g \in SectionGroups[view.sec]
    PROVE  LET d == Call("group", 0, Group(view.sec, g, Latest, view.scope)) IN
           IsCall(d) /\ d.live /\ d.st = "sent" /\ d.who = "group" /\ d.grp = g
<1> DEFINE op == Group(view.sec, g, Latest, view.scope)
<1>1. view.sec \in Sections /\ view.scope \in Nat /\ Latest \in Dates
  BY ExplorerAssumption DEF Copies
<1>2. IsOp(op) /\ ~IsLoad(op) /\ op.grp = g
  BY <1>1, GroupFacts
<1> HIDE DEF op
<1>3. Fresh(Call("group", 0, op), op) /\ Call("group", 0, op).who = "group"
  BY <1>2, CallFacts
<1>4. QED
  BY <1>2, <1>3 DEF Fresh, SameOp, op

\* The driver streams groups of the section on screen (PoolsExplorerApp.tsx
\* 203-208, useGroupLoader.ts 44-66).
LEMMA DriveStreamKeeps ==
    ASSUME IInv, DriveStream
    PROVE  IInv'
<1>1. /\ Core(view.sec) \in view.loaded /\ due' = FALSE
      /\ UNCHANGED <<srv, view, loader, boot, want, retried, acts, errors, timeouts>>
  BY DEF DriveStream
<1>2. view \in Copies /\ GroupsTyped /\ acts \in Nat /\ retried \in BOOLEAN
  BY DEF IInv, Typed
<1>3. srv.arg # None
  BY <1>1 DEF IInv, NothingLoaded
<1>4. PICK gs \in SUBSET Callable :
        /\ groups' = [groups EXCEPT !.inFlight = @ \cup
                        {<<view.scope, view.sec, g>> : g \in gs}]
        /\ calls' = calls \cup
                {Call("group", 0, Group(view.sec, g, Latest, view.scope)) : g \in gs}
  BY DEF DriveStream, Sync
<1>5. view.sec \in Sections /\ gs \subseteq Groups[view.sec]
  BY <1>2 DEF Callable, Missing, Copies
<1>6. ASSUME NEW g \in gs
      PROVE  LET d == Call("group", 0, Group(view.sec, g, Latest, view.scope)) IN
             IsCall(d) /\ d.live /\ d.st = "sent" /\ d.who = "group" /\ d.grp # "core"
  <2>1. g \in SectionGroups[view.sec] /\ g # "core"
    BY <1>5, KeyFacts
  <2>2. QED
    BY <1>2, <2>1, GroupCallFacts
<1>7. GroupsTyped'
  <2>1. groups' = [inFlight |-> groups.inFlight \cup
                                  {<<view.scope, view.sec, g>> : g \in gs},
                   failed |-> groups.failed]
    BY <1>2, <1>4 DEF GroupsTyped
  <2>2. QED
    BY <2>1 DEF GroupsTyped
<1>8. \A d \in calls' : d \in calls \/
         /\ IsCall(d) /\ d.live /\ d.st = "sent" /\ d.who = "group"
         /\ d.grp # "core"
  BY <1>4, <1>6
<1>9. QED
  BY <1>1, <1>2, <1>3, <1>4, <1>7, <1>8, GroupsSent

\* The user navigates (PoolsExplorerApp.tsx 251-265).
LEMMA NavigateKeeps ==
    ASSUME IInv, NEW s \in Sections, Navigate(s)
    PROVE  IInv'
<1>1. /\ acts' = acts + 1
      /\ UNCHANGED <<srv, view, groups, boot, due, retried, errors, timeouts>>
  BY DEF Navigate, Act
<1>2. acts' \in Nat /\ boot' \in BOOLEAN /\ due' \in BOOLEAN
  BY <1>1 DEF IInv, Typed
<1>3. PICK D : D = IF s \in Dated THEN Dates ELSE {view.date}
  OBVIOUS
<1>4. D \in SUBSET Dates
  BY <1>3 DEF IInv, Typed, Copies
<1>5. PICK op \in Loads(s, D) : Enqueue(op)
  BY <1>3 DEF Navigate
<1>6. IsOp(op) /\ IsLoad(op) /\ op.grp # "core"
  BY <1>4, LoadsFacts
<1>7. QED
  BY <1>1, <1>2, <1>5, <1>6, EnqueueKeeps

\* The user asks for a group of the entity on screen (PoolsExplorerApp.tsx
\* 277-287).
LEMMA AskGroupKeeps ==
    ASSUME IInv, NEW g \in Groups[Entity], NEW d \in Dates, AskGroup(g, d)
    PROVE  IInv'
<1> DEFINE op == Group(Entity, g, d, view.scope)
<1>1. /\ view.sec = Entity /\ Enqueue(op) /\ acts' = acts + 1
      /\ UNCHANGED <<srv, view, groups, boot, due, retried, errors, timeouts>>
  BY DEF AskGroup, Act
<1>2. acts' \in Nat /\ boot' \in BOOLEAN /\ due' \in BOOLEAN
  BY <1>1 DEF IInv, Typed
<1>3. IsOp(op) /\ op.grp # "core"
  <2>1. g \in SectionGroups[Entity] /\ g # "core" /\ Entity \in Sections
    BY KeyFacts DEF Sections
  <2>2. view.scope \in Nat
    BY DEF IInv, Typed, Copies
  <2>3. QED
    BY <2>1, <2>2, GroupFacts
<1> HIDE DEF op
<1>4. QED
  BY <1>1, <1>2, <1>3, EnqueueKeeps

\* The user retries a group that failed, the core included (useGroupLoader.ts
\* 71-74, PoolsExplorerApp.tsx 270-273).
LEMMA RetryGroupKeeps ==
    ASSUME IInv, NEW g \in SectionGroups[view.sec], RetryGroup(g)
    PROVE  IInv'
<1> DEFINE k == <<view.scope, view.sec, g>>
           d == Call("group", 0, Group(view.sec, g, Latest, view.scope))
<1>1. /\ CanRetry(g) /\ acts' = acts + 1 /\ due' = TRUE
      /\ retried' = (retried \/ g = "core")
      /\ UNCHANGED <<srv, view, loader, boot, want, errors, timeouts>>
      /\ \/ groups' = [groups EXCEPT !.failed = @ \ {k}] /\ calls' = calls
         \/ /\ groups' = [inFlight |-> groups.inFlight \cup {k},
                          failed |-> groups.failed \ {k}]
            /\ calls' = calls \cup {d}
  BY DEF RetryGroup, Act
<1>2. view \in Copies /\ GroupsTyped /\ acts' \in Nat /\ retried \in BOOLEAN
  BY <1>1 DEF IInv, Typed
<1>3. srv.arg # None
  BY <1>1 DEF CanRetry, IInv, NothingLoaded
<1>4. IsCall(d) /\ d.live /\ d.st = "sent" /\ d.who = "group" /\ d.grp = g
  BY <1>2, GroupCallFacts
<1> HIDE DEF k, d
<1>5. GroupsTyped'
  <2>1. CASE groups' = [groups EXCEPT !.failed = @ \ {k}]
    <3>1. groups' = [inFlight |-> groups.inFlight, failed |-> groups.failed \ {k}]
      BY <1>2, <2>1 DEF GroupsTyped
    <3>2. QED
      BY <3>1 DEF GroupsTyped
  <2>2. CASE groups' = [inFlight |-> groups.inFlight \cup {k},
                        failed |-> groups.failed \ {k}]
    BY <2>2 DEF GroupsTyped
  <2>3. QED
    BY <1>1, <2>1, <2>2
<1>6. /\ calls \subseteq calls'
      /\ \A x \in calls' : x \in calls \/
            /\ IsCall(x) /\ x.live /\ x.st = "sent" /\ x.who = "group"
            /\ x.grp = g
  BY <1>1, <1>4
<1>7. (g = "core" => retried') /\ (retried => retried') /\ retried' \in BOOLEAN
  BY <1>1, <1>2
<1>8. QED
  BY <1>1, <1>2, <1>3, <1>5, <1>6, <1>7, GroupsSent

-----------------------------------------------------------------------------
(* The invariant is inductive. *)

\* A view that opens for an entity shows its core (pools_explorer.py 1892-1907).
LEMMA OpeningFacts ==
    ASSUME NEW e \in Entities, NEW d \in Dates, NEW ok \in BOOLEAN
    PROVE  LET r == Opening(e, d, ok) IN
           /\ IsRecord(r) /\ r.sec = Entity /\ r.arg = e /\ r.applied = 0
           /\ e \in Args
           /\ r.loaded = {Core(Entity)} /\ r.data[Core(Entity)] # None
           /\ r.data[Core(Entity)].arg = e
           /\ \A s \in Lists : r.fp[s] = None
<1> DEFINE k == Core(Entity)
           tab == Table(e, d, ok)
           p == [arg |-> e, date |-> d]
           b == Empty(Entity, d)
           fp == [[t \in Sections |-> None] EXCEPT ![Entity] = p]
           data == [[j \in Keys |-> None] EXCEPT ![k] = tab]
<1>1. e \in Args /\ Entity \in Sections /\ Entity \notin Lists /\ k \in Keys
  BY KeyFacts, ExplorerAssumption DEF Args, Sections
<1>2. tab \in Tables /\ tab # None /\ tab.arg = e /\ p \in Prints
  BY <1>1, NoneFacts
<1>3. PICK r : r = [b EXCEPT
        !.arg = e, !.loaded = {k}, !.tracked = {k}, !.lru = <<Entity>>,
        !.fp[Entity] = p, !.data[k] = tab]
  OBVIOUS
<1>4. Opening(e, d, ok) = r
  BY <1>3 DEF Opening
<1>5. r = [sec |-> Entity, arg |-> e, date |-> d, scope |-> 0, applied |-> 0,
           loaded |-> {k}, tracked |-> {k}, fp |-> fp, lru |-> <<Entity>>,
           data |-> data]
  <2> HIDE DEF k, tab, p
  <2>1. QED
    BY <1>3 DEF Empty
<1> HIDE DEF k, tab, p
<1>6. fp \in [Sections -> Prints \cup {None}] /\ \A s \in Lists : fp[s] = None
  BY <1>1, <1>2 DEF Sections
<1>7. data \in [Keys -> Tables \cup {None}] /\ data[k] = tab
  BY <1>1, <1>2
<1> HIDE DEF fp, data
<1>8. IsRecord(r)
  BY <1>1, <1>5, <1>6, <1>7 DEF IsRecord
<1>9. QED
  BY <1>1, <1>2, <1>4, <1>5, <1>6, <1>7, <1>8 DEF k

\* The opening view names a list section and loads nothing, or shows an entity
\* (pools_explorer.py 1142-1170, 1891-1907).
LEMMA InitHolds == Init => IInv
<1>1. SUFFICES ASSUME Init PROVE IInv
  OBVIOUS
<1>2. /\ calls = {} /\ view = Copy(srv) /\ loader = Idle /\ want = NoOp
      /\ groups = [inFlight |-> {}, failed |-> {}]
      /\ boot = FALSE /\ due = TRUE /\ retried = FALSE
      /\ acts = 0 /\ errors = 0 /\ timeouts = 0
  BY <1>1 DEF Init
<1>3. /\ IsRecord(srv) /\ srv.applied = 0
      /\ srv.arg = None => srv.sec \in Lists /\ srv.loaded = {}
      /\ Backed(srv, srv.data, FALSE)
      /\ CoreShown(srv)
  <2>1. CASE \E s \in Lists, d \in Dates : srv = Empty(s, d)
    <3>1. PICK s \in Lists, d \in Dates : srv = Empty(s, d)
      BY <2>1
    <3>2. IsRecord(srv)
      BY <3>1, EmptyFacts DEF Sections
    <3>3. /\ srv.sec = s /\ srv.applied = 0 /\ srv.loaded = {}
          /\ srv.fp = [t \in Sections |-> None]
      BY <3>1 DEF Empty
    <3>4. QED
      BY <3>2, <3>3 DEF Backed, Marked, Printed, CoreShown, Sections
  <2>2. CASE \E e \in Entities, d \in Dates, ok \in BOOLEAN : srv = Opening(e, d, ok)
    <3>1. PICK e \in Entities, d \in Dates, ok \in BOOLEAN : srv = Opening(e, d, ok)
      BY <2>2
    <3>2. /\ IsRecord(srv) /\ srv.sec = Entity /\ srv.arg = e /\ srv.applied = 0
          /\ e \in Args
          /\ srv.loaded = {Core(Entity)} /\ srv.data[Core(Entity)] # None
          /\ srv.data[Core(Entity)].arg = e
          /\ \A s \in Lists : srv.fp[s] = None
      BY <3>1, OpeningFacts
    <3>3. srv.arg # None
      BY <3>2, ExplorerAssumption
    <3>4. QED
      BY <3>2, <3>3 DEF Backed, Marked, Printed, CoreShown
  <2>3. QED
    BY <1>1, <2>1, <2>2 DEF Init
<1>4. /\ view \in Copies /\ view.scope = srv.scope /\ view.sec = srv.sec
      /\ view.arg = srv.arg /\ view.loaded = srv.loaded /\ view.data = srv.data
  BY <1>2, <1>3, CopyFacts
<1>5. loader.seq = 0 /\ ~loader.busy /\ loader.pending = NoRequest /\ LoaderTyped
  BY <1>2 DEF Idle, LoaderTyped
<1>6. Typed
  BY <1>2, <1>3, <1>4, <1>5 DEF Typed, GroupsTyped
<1>7. Serialized
  BY <1>2, <1>3, <1>5 DEF Serialized
<1>8. want.grp = "none" /\ ~IsLoad(want)
  BY <1>2 DEF NoOp, IsLoad
<1>9. Applied /\ Cores
  BY <1>2, <1>8 DEF Applied, IntentApplied, Cores
<1>10. NothingLoaded
  BY <1>2, <1>3, <1>4, <1>5 DEF NothingLoaded
<1>11. InTurn
  BY <1>2, <1>3, <1>4 DEF InTurn, CoreShown, Agrees
<1>12. QED
  BY <1>6, <1>7, <1>9, <1>10, <1>11 DEF IInv

LEMMA NextKeeps == IInv /\ [Next]_vars => IInv'
<1>1. SUFFICES ASSUME IInv, [Next]_vars PROVE IInv'
  OBVIOUS
<1>2. ASSUME NEW c \in calls, ServerStep(c) PROVE IInv'
  BY <1>1, <1>2, StartLoadKeeps, CommitLoadKeeps, StartGroupKeeps,
     CommitGroupKeeps DEF ServerStep
<1>3. ASSUME NEW c \in calls, Raise(c) \/ Deliver(c) \/ TimeOut(c) \/ Drop(c)
      PROVE  IInv'
  BY <1>1, <1>3, RaiseKeeps, DeliverKeeps, TimeOutKeeps, DropKeeps
<1>4. CASE DriveBoot \/ DriveStream
  BY <1>1, <1>4, DriveBootKeeps, DriveStreamKeeps
<1>5. CASE User
  BY <1>1, <1>5, NavigateKeeps, AskGroupKeeps, RetryGroupKeeps DEF User
<1>6. CASE UNCHANGED vars
  BY <1>1, <1>6 DEF vars, IInv, Typed, LoaderTyped, GroupsTyped, NothingLoaded, Cores,
     Serialized, Applied, IntentApplied, InTurn, Agrees
<1>7. QED
  BY <1>1, <1>2, <1>3, <1>4, <1>5, <1>6 DEF Next

-----------------------------------------------------------------------------
(* What holds of every explorer. *)

\* The invariant holds of every reachable state, whatever calls are answered
\* late, dropped, given up on or refused, and whatever queries fail.
THEOREM Inductive == Spec => []IInv
BY InitHolds, NextKeeps, PTL DEF Spec

\* When the loader is at rest without an error the browser shows the section
\* and the filters or the entity asked for last, however answers, streamed
\* groups and retried ones interleave (useSerializedLoader.ts 52-84).
THEOREM IntentAppliedCorrect == Spec => []IntentApplied
<1>1. IInv => IntentApplied
  BY DEF IInv, Applied
<1>2. QED
  BY <1>1, Inductive, PTL

\* While the browser gives up on no call, a group counted as loaded has its
\* dataset, and as long as no core is queried again a fingerprint has the core
\* that was queried for it (mini_apps.py 1194-1228, pools_explorer.py 1378-1512).
THEOREM MarksAreBackedCorrect == Spec => []MarksAreBacked
<1>1. IInv => MarksAreBacked
  BY DEF IInv, InTurn, Backed, Marked, Printed, PrintOf, MarksAreBacked
<1>2. QED
  BY <1>1, Inductive, PTL

\* Between loads browser and server agree on section and scope, so that the
\* guard of group loads refuses none that the view asks for (pools_explorer.py
\* 1535-1545).
THEOREM ScopeAgreesCorrect == Spec => []ScopeAgrees
<1>1. ASSUME IInv PROVE ScopeAgrees
  <2>1. SUFFICES ASSUME timeouts = 0,
                        ~(\E c \in calls : c.who = "loader" /\ IsLoad(c))
                 PROVE  Agrees(view)
    BY DEF ScopeAgrees, Agrees
  <2>2. \A c \in calls : ~IsLoad(c)
    BY <1>1, <2>1 DEF IInv, Typed, CallTyped, IsCall
  <2>3. QED
    BY <1>1, <2>1, <2>2 DEF IInv, InTurn
<1>2. QED
  BY <1>1, Inductive, PTL

\* While the browser gives up on no call and no core is queried again, the core
\* rows on screen are those of the filters or the entity on screen: evictions,
\* restores, failed queries and late groups included (pools_explorer.py
\* 1391-1512).
THEOREM CoreMatchesCorrect == Spec => []CoreMatches
<1>1. IInv => CoreMatches
  BY DEF IInv, InTurn, CoreShown, CoreMatches, CoreAlwaysMatches
<1>2. QED
  BY <1>1, Inductive, PTL
=============================================================================
