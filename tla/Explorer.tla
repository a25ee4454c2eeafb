------------------------------ MODULE Explorer ------------------------------
(* A sectioned explorer (pools, governance, CoW): the browser half and the   *)
(* tools of the server it calls.  A section or an entity is loaded by one    *)
(* serialized request that replaces the view; the remaining dataset groups   *)
(* of the section are then streamed, a few at a time, by additive requests.  *)
(* The server keeps the sections visited last, and restores one whose        *)
(* filters did not change without a query.                                   *)
(*                                                                           *)
(* The data of a group is what it was queried for: a filter or an entity, as *)
(* of a date; a query that failed leaves a stub without rows in its place.   *)
(* The id of a request doubles as the scope id it creates (scope_id is       *)
(* "section:request").                                                       *)
EXTENDS Naturals, Sequences, FiniteSets

CONSTANTS
    Lists,        \* list sections
    Entity,       \* the entity drill-down section
    Groups,       \* Groups[s]: the groups of section s besides its core
    OnDemand,     \* groups the user asks for
    Dated,        \* sections and groups the user asks for as of another date
    Filters,      \* Filters[s]: the filter settings of a list section
    Entities,     \* identifiers of an entity section
    Dates,        \* days a view can be as of
    Latest,       \* the latest publication, an empty as_of
    None,
    MaxInFlight,  \* MAX_IN_FLIGHT: group calls at a time
    MaxRetained,  \* sections the server retains
    MaxActs,      \* bound: actions of the user
    MaxFaults     \* bound: calls refused, queries that fail, calls given up on

Sections == Lists \cup {Entity}
Args == (UNION {Filters[s] : s \in Lists}) \cup Entities
SectionGroups == [s \in Sections |-> Groups[s] \cup {"core"}]
Keys == UNION {{s} \X SectionGroups[s] : s \in Sections}

ASSUME ExplorerAssumption ==
    /\ Entity \notin Lists
    /\ None \notin Args
    /\ None \notin [arg : Args, date : Dates]
    /\ None \notin [arg : Args, date : Dates, ok : BOOLEAN]
    /\ Latest \in Dates
    /\ Groups \in [Sections -> SUBSET (STRING \ {"core", "load", "none"})]
    /\ OnDemand \subseteq Groups[Entity]
    /\ Dated \subseteq Lists \cup Groups[Entity]
    /\ MaxInFlight \in Nat \ {0}
    /\ MaxRetained \in Nat \ {0}
    /\ MaxActs \in Nat /\ MaxFaults \in Nat

VARIABLES
    srv,      \* the view record of the server
    calls,    \* tool calls: an operation, who sent it, its id and its progress
    view,     \* the browser's copy of the view
    loader,   \* useSerializedLoader
    groups,   \* useGroupLoader: calls in flight and failed keys
    boot,     \* bootScopeRef: the first load was issued
    due,      \* a dependency of the deferred-load driver changed
    want,     \* the last request the user or the driver enqueued
    retried,  \* history: the user had the core of a section queried again
    acts, errors, timeouts

vars == <<srv, calls, view, loader, groups, boot, due, want, retried,
          acts, errors, timeouts>>

---------------------------------------------------------------------------
(* The server's view record *)

(* What a section was loaded for, and what a dataset was queried for.        *)
Prints == [arg : Args, date : Dates]
Tables == [arg : Args, date : Dates, ok : BOOLEAN]
Table(a, d, ok) == [arg |-> a, date |-> d, ok |-> ok]

Records == [sec : Sections, arg : Args \cup {None}, date : Dates,
            scope : Nat, applied : Nat,
            loaded : SUBSET Keys, tracked : SUBSET Keys,
            fp : [Sections -> Prints \cup {None}], lru : Seq(Sections),
            data : [Keys -> Tables \cup {None}]]

KeysOf(s) == {<<s, g>> : g \in SectionGroups[s]}
Core(s) == <<s, "core">>

(* _empty_state: the opening state names a section and loads nothing. *)
Empty(s, d) == [sec |-> s, arg |-> None, date |-> d, scope |-> 0, applied |-> 0,
                loaded |-> {}, tracked |-> {}, fp |-> [t \in Sections |-> None],
                lru |-> <<>>, data |-> [k \in Keys |-> None]]

(* A view opened for an entity opens with its core, loaded as request 0. *)
Opening(e, d, ok) ==
    LET k == Core(Entity) IN
    [Empty(Entity, d) EXCEPT
        !.arg = e, !.loaded = {k}, !.tracked = {k}, !.lru = <<Entity>>,
        !.fp[Entity] = [arg |-> e, date |-> d], !.data[k] = Table(e, d, ok)]

(* touch_section_lru: s becomes the newest, and the sections above the cap   *)
(* lose their datasets, their fingerprint and their loaded marks.            *)
Touched(lru, s) == Append(SelectSeq(lru, LAMBDA t : t # s), s)

Surplus(q) == IF Len(q) > MaxRetained THEN Len(q) - MaxRetained ELSE 0

\* Faulty: the fingerprint of an evicted section stays.
TouchLruKeepsFp(r, s) ==
    LET q == Touched(r.lru, s)
        gone == UNION {KeysOf(q[i]) : i \in 1 .. Surplus(q)}
    IN [r EXCEPT !.lru = SubSeq(q, Surplus(q) + 1, Len(q)),
                 !.loaded = @ \ gone,
                 !.data = [k \in Keys |->
                     IF k \in gone \cap r.tracked THEN None ELSE @[k]],
                 !.tracked = @ \ gone]

TouchLru(r, s) ==
    LET q == Touched(r.lru, s)
        victims == {q[i] : i \in 1 .. Surplus(q)}
        gone == UNION {KeysOf(v) : v \in victims}
    IN [r EXCEPT !.lru = SubSeq(q, Surplus(q) + 1, Len(q)),
                 !.loaded = @ \ gone,
                 !.fp = [t \in Sections |-> IF t \in victims THEN None ELSE @[t]],
                 !.data = [k \in Keys |->
                     IF k \in gone \cap r.tracked THEN None ELSE @[k]],
                 !.tracked = @ \ gone]

(* set_view_state stores the state a tool built from the copy `cur` it read  *)
(* before its queries; the datasets live beside the state.                   *)
Stored(cur) == [cur EXCEPT !.data = srv.data]

\* Faulty: a section whose core is loaded is restored whatever its filters.
RestoresAny(cur, c) == c.sec \in Lists /\ Core(c.sec) \in cur.loaded

Fingerprint(c) == [arg |-> c.arg, date |-> c.date]

(* A section whose fingerprint matches and whose core is loaded is restored, *)
(* be it a stub: the scope id and the loaded marks stay as they are.         *)
Restores(cur, c) == /\ c.sec \in Lists
                    /\ cur.fp[c.sec] = Fingerprint(c)
                    /\ Core(c.sec) \in cur.loaded

Restored(cur, c) ==
    TouchLru([Stored(cur) EXCEPT !.sec = c.sec, !.arg = c.arg, !.date = c.date,
                                 !.applied = c.id],
             c.sec)

(* A section or entity load replaces the core of its section, detaches the   *)
(* other datasets it tracked, and opens a new scope in which its other       *)
(* groups count as not loaded.  It does so whether or not the query gave rows*)
(* (ok): a core that failed is marked "partial", which counts as loaded.     *)
Loaded(cur, c, ok) ==
    TouchLru(
        [Stored(cur) EXCEPT
            !.sec = c.sec, !.arg = c.arg, !.date = c.date,
            !.scope = c.id, !.applied = c.id,
            !.loaded = (@ \ KeysOf(c.sec)) \cup {Core(c.sec)},
            !.tracked = (@ \ KeysOf(c.sec)) \cup {Core(c.sec)},
            !.fp[c.sec] = Fingerprint(c),
            !.data = [k \in Keys |->
                IF k = Core(c.sec) THEN Table(c.arg, c.date, ok)
                ELSE IF k \in KeysOf(c.sec) \cap cur.tracked THEN None ELSE @[k]]],
        c.sec)

(* What a group load queries: the filters or the entity of the copy it read, *)
(* as of its own date or that of the copy.                                   *)
Fetched(cur, c, ok) ==
    Table(cur.arg, IF c.date = Latest THEN cur.date ELSE c.date, ok)

(* It attaches the dataset, marks the group in the state as it is by now, and*)
(* makes its date the date of the view.                                      *)
Attached(cur, c, ok) ==
    LET k == <<c.sec, c.grp>>
        t == Fetched(cur, c, ok)
    IN [srv EXCEPT !.data[k] = t,
                   !.date = t.date,
                   !.loaded = @ \cup {k},
                   !.tracked = (@ \ KeysOf(c.sec))
                                 \cup (cur.tracked \cap KeysOf(c.sec)) \cup {k}]

---------------------------------------------------------------------------
(* Tool calls *)

(* What a payload carries of the record. *)
Copy(r) == [sec |-> r.sec, arg |-> r.arg, date |-> r.date, scope |-> r.scope,
            applied |-> r.applied, loaded |-> r.loaded, data |-> r.data]
Copies == [sec : Sections, arg : Args \cup {None}, date : Dates, scope : Nat,
           applied : Nat, loaded : SUBSET Keys, data : [Keys -> Tables \cup {None}]]

Initial(r) == [kind |-> "initial", copy |-> Copy(r)]
Patch(k, t) == [kind |-> "patch", key |-> k, table |-> t]
Nothing == [kind |-> "nothing"]
Error == [kind |-> "error"]

\* A call has a copy of the record between reading it and answering.
Unread == Empty(Entity, Latest)

Call(who, i, op) ==
    [who |-> who, id |-> i, sec |-> op.sec, arg |-> op.arg, date |-> op.date,
     grp |-> op.grp, scope |-> op.scope, live |-> TRUE, st |-> "sent",
     cur |-> Unread, reply |-> Nothing]

(* A request: a load of a section or an entity, or of one group, the core    *)
(* included, under the scope the browser shows; a group names a date to be   *)
(* dated anew.                                                               *)
Load(s, a, d) == [sec |-> s, arg |-> a, date |-> d, grp |-> "load", scope |-> 0]
Group(s, g, d, sc) == [sec |-> s, arg |-> None, date |-> d, grp |-> g, scope |-> sc]
IsLoad(op) == op.grp = "load"

Update(c, d) == calls' = (calls \ {c}) \cup {d}
Answered(c, r) == [c EXCEPT !.st = "answered", !.cur = Unread, !.reply = r]

(* A load older than the one applied is answered with the view as it is; a   *)
(* retained section is restored; anything else is queried.                   *)
StartLoad(c) ==
    /\ c.st = "sent" /\ IsLoad(c)
    /\ IF c.id < srv.applied
       THEN Update(c, Answered(c, Initial(srv))) /\ UNCHANGED srv
       ELSE IF Restores(srv, c)
       THEN /\ srv' = Restored(srv, c)
            /\ Update(c, Answered(c, Initial(srv')))
       ELSE Update(c, [c EXCEPT !.st = "running", !.cur = srv]) /\ UNCHANGED srv
    /\ UNCHANGED <<view, loader, groups, boot, due, want, retried, acts, errors, timeouts>>

(* A query that fails fails no load. *)
Queries(ok) ==
    IF ok THEN UNCHANGED errors ELSE errors + timeouts < MaxFaults /\ errors' = errors + 1

CommitLoad(c, ok) ==
    /\ c.st = "running" /\ IsLoad(c)
    /\ Queries(ok)
    /\ srv' = Loaded(c.cur, c, ok)
    /\ Update(c, Answered(c, Initial(srv')))
    /\ UNCHANGED <<view, loader, groups, boot, due, want, retried, acts, timeouts>>

(* A group load of another scope is a no-op; one of an entity section needs  *)
(* a selected entity.                                                        *)
StartGroup(c) ==
    /\ c.st = "sent" /\ ~IsLoad(c)
    /\ Update(c, IF c.scope # srv.scope THEN Answered(c, Nothing)
                 ELSE IF c.sec = Entity /\ srv.sec # Entity THEN Answered(c, Error)
                 ELSE [c EXCEPT !.st = "running", !.cur = srv])
    /\ UNCHANGED <<srv, view, loader, groups, boot, due, want, retried,
                   acts, errors, timeouts>>

CommitGroup(c, ok) ==
    /\ c.st = "running" /\ ~IsLoad(c)
    /\ Queries(ok)
    /\ srv' = Attached(c.cur, c, ok)
    /\ Update(c, Answered(c, Patch(<<c.sec, c.grp>>, Fetched(c.cur, c, ok))))
    /\ UNCHANGED <<view, loader, groups, boot, due, want, retried, acts, timeouts>>

(* The call is refused before it queried anything. *)
Raise(c) ==
    /\ errors + timeouts < MaxFaults
    /\ c.st = "sent"
    /\ errors' = errors + 1
    /\ Update(c, Answered(c, Error))
    /\ UNCHANGED <<srv, view, loader, groups, boot, due, want, retried, acts, timeouts>>

---------------------------------------------------------------------------
(* The browser: payloads and the serialized loader *)

(* The patch of a group adds its dataset and its mark, and brings its date.  *)
Patched(v, r) == [v EXCEPT !.loaded = @ \cup {r.key}, !.data[r.key] = r.table,
                           !.date = r.table.date]

\* Faulty: the view keeps the scope it was opened with.
ShowsKeepScope(v, r) ==
    CASE r.kind = "initial" -> [r.copy EXCEPT !.scope = v.scope]
      [] r.kind = "patch" -> Patched(v, r)
      [] OTHER -> v

\* Faulty: the patch of a group brings its dataset and not its mark.
ShowsWithoutMark(v, r) ==
    CASE r.kind = "initial" -> r.copy
      [] r.kind = "patch" -> [v EXCEPT !.data[r.key] = r.table, !.date = r.table.date]
      [] OTHER -> v

(* applyPayload: INITIAL_LOAD replaces the view, a group patch is merged into*)
(* it; an error changes nothing.                                             *)
Shows(v, r) ==
    CASE r.kind = "initial" -> r.copy
      [] r.kind = "patch" -> Patched(v, r)
      [] OTHER -> v

NoOp == [sec |-> Entity, arg |-> None, date |-> Latest, grp |-> "none", scope |-> 0]

Request(op, i) == [op |-> op, id |-> i]
NoRequest == Request(NoOp, 0)

\* Faulty: a request that waits is not replaced.
EnqueueKeepsFirst(op) ==
    /\ want' = op
    /\ IF loader.busy
       THEN /\ loader' = [loader EXCEPT !.seq = @ + 1,
                !.pending = IF @ = NoRequest THEN Request(op, loader.seq + 1) ELSE @]
            /\ UNCHANGED calls
       ELSE /\ loader' = [loader EXCEPT !.seq = @ + 1, !.busy = TRUE, !.error = FALSE]
            /\ calls' = calls \cup {Call("loader", loader.seq + 1, op)}

(* enqueue: the request gets the next id; it is sent at once, or it replaces *)
(* the pending one while another is in flight.                               *)
Enqueue(op) ==
    /\ want' = op
    /\ IF loader.busy
       THEN /\ loader' = [loader EXCEPT !.seq = @ + 1,
                                        !.pending = Request(op, loader.seq + 1)]
            /\ UNCHANGED calls
       ELSE /\ loader' = [loader EXCEPT !.seq = @ + 1, !.busy = TRUE, !.error = FALSE]
            /\ calls' = calls \cup {Call("loader", loader.seq + 1, op)}

(* run's finally: the pending request is sent, else the loader is idle; rest *)
(* are the calls that stay.                                                  *)
LoaderSettles(failed, rest) ==
    IF loader.pending = NoRequest
    THEN /\ loader' = [loader EXCEPT !.busy = FALSE, !.error = failed]
         /\ calls' = rest
    ELSE /\ loader' = [loader EXCEPT !.pending = NoRequest, !.error = FALSE]
         /\ calls' = rest \cup {Call("loader", loader.pending.id, loader.pending.op)}

\* Faulty: the key of a group call does not name its scope.
KeyWithoutScope(c) == <<c.sec, c.grp>>

KeyOf(c) == <<c.scope, c.sec, c.grp>>

(* A group call settles: its key leaves the calls in flight, and fails for   *)
(* good if the call threw.                                                   *)
GroupSettles(c, failed, rest) ==
    /\ groups' = [inFlight |-> groups.inFlight \ {KeyOf(c)},
                  failed |-> IF failed THEN groups.failed \cup {KeyOf(c)}
                             ELSE groups.failed]
    /\ calls' = rest

(* The driver's dependencies: the scope, the loaded marks, and the tick that *)
(* a settled group call bumps.                                               *)
Depends(v) == <<v.scope, v.loaded>>

Settles(c, failed, rest) ==
    IF c.who = "loader"
    THEN LoaderSettles(failed, rest) /\ UNCHANGED groups
    ELSE GroupSettles(c, failed, rest) /\ UNCHANGED loader

(* The result of a call reaches the browser. *)
Deliver(c) ==
    /\ c.st = "answered" /\ c.live
    /\ view' = Shows(view, c.reply)
    /\ due' = (due \/ c.who = "group" \/ Depends(view') # Depends(view))
    /\ Settles(c, c.reply = Error, calls \ {c})
    /\ UNCHANGED <<srv, boot, want, retried, acts, errors, timeouts>>

(* The browser's promise rejects while the tool goes on; what it answers is  *)
(* dropped.                                                                  *)
TimeOut(c) ==
    /\ errors + timeouts < MaxFaults
    /\ c.live
    /\ timeouts' = timeouts + 1
    /\ due' = (due \/ c.who = "group")
    /\ Settles(c, TRUE, (calls \ {c}) \cup {[c EXCEPT !.live = FALSE]})
    /\ UNCHANGED <<srv, view, boot, want, retried, acts, errors>>

Drop(c) ==
    /\ c.st = "answered" /\ ~c.live
    /\ calls' = calls \ {c}
    /\ UNCHANGED <<srv, view, loader, groups, boot, due, want, retried,
                   acts, errors, timeouts>>

---------------------------------------------------------------------------
(* The browser: the deferred-load driver and the user *)

Missing == {g \in Groups[view.sec] \ OnDemand : <<view.sec, g>> \notin view.loaded}

(* sync: groups neither in flight nor failed are called until the cap. *)
Callable == {g \in Missing : <<view.scope, view.sec, g>> \notin groups.inFlight \cup groups.failed}

Room == IF Cardinality(groups.inFlight) >= MaxInFlight THEN 0
        ELSE MaxInFlight - Cardinality(groups.inFlight)

Batch(gs) == /\ Cardinality(gs) <= Room
             /\ Cardinality(gs) = Room \/ gs = Callable

Sync ==
    \E gs \in {hs \in SUBSET Callable : Batch(hs)} :
        /\ groups' = [groups EXCEPT !.inFlight = @ \cup
                        {<<view.scope, view.sec, g>> : g \in gs}]
        /\ calls' = calls \cup
                {Call("group", 0, Group(view.sec, g, Latest, view.scope)) : g \in gs}

(* The loads of a section, or of an entity, as of the days D. *)
Loads(s, D) == {Load(s, a, d) : a \in IF s = Entity THEN Entities ELSE Filters[s],
                               d \in D}

(* The driver runs when a dependency changed: it issues the first load once, *)
(* then streams the groups of the section that are not loaded.               *)
DriveBoot ==
    /\ due
    /\ Core(view.sec) \notin view.loaded
    /\ due' = FALSE
    /\ boot' = TRUE
    /\ IF boot THEN UNCHANGED <<loader, calls, want>>
       ELSE \E s \in Sections : \E op \in Loads(s, Dates) : Enqueue(op)
    /\ UNCHANGED <<srv, view, groups, retried, acts, errors, timeouts>>

DriveStream ==
    /\ due
    /\ Core(view.sec) \in view.loaded
    /\ due' = FALSE
    /\ Sync
    /\ UNCHANGED <<srv, view, loader, boot, want, retried, acts, errors, timeouts>>

(* React runs the effects that are due before it handles an event. *)
Act == ~due /\ acts < MaxActs /\ acts' = acts + 1

(* apply / loadEntity: navigation, as of the date on screen where there is   *)
(* none to pick.                                                             *)
Navigate(s) ==
    /\ Act
    /\ \E op \in Loads(s, IF s \in Dated THEN Dates ELSE {view.date}) : Enqueue(op)
    /\ UNCHANGED <<srv, view, groups, boot, due, retried, errors, timeouts>>

(* onLoadHeatmap, onLoadProfileDate: one group through the serialized loader;*)
(* the profile comes with a date.                                            *)
AskGroup(g, d) ==
    /\ view.sec = Entity
    /\ g \in OnDemand \cup Dated
    /\ d # Latest => g \in Dated
    /\ Act
    /\ Enqueue(Group(Entity, g, d, view.scope))
    /\ UNCHANGED <<srv, view, groups, boot, due, retried, errors, timeouts>>

(* A group whose call or whose query failed, the core included, shows a Retry*)
(* button.                                                                   *)
CanRetry(g) ==
    \/ <<view.scope, view.sec, g>> \in groups.failed
    \/ LET k == <<view.sec, g>> IN
       k \in view.loaded /\ view.data[k] # None /\ ~view.data[k].ok

(* retryGroup: the failure mark is cleared and the group called at once,     *)
(* whatever the serialized loader is doing.                                  *)
RetryGroup(g) ==
    LET k == <<view.scope, view.sec, g>> IN
    /\ CanRetry(g)
    /\ Act
    /\ due' = TRUE
    /\ retried' = (retried \/ g = "core")
    /\ IF k \in groups.inFlight \/ Room = 0
       THEN groups' = [groups EXCEPT !.failed = @ \ {k}] /\ UNCHANGED calls
       ELSE /\ groups' = [inFlight |-> groups.inFlight \cup {k},
                          failed |-> groups.failed \ {k}]
            /\ calls' = calls \cup
                    {Call("group", 0, Group(view.sec, g, Latest, view.scope))}
    /\ UNCHANGED <<srv, view, loader, boot, want, errors, timeouts>>

---------------------------------------------------------------------------

Idle == [seq |-> 0, busy |-> FALSE, pending |-> NoRequest, error |-> FALSE]

Init ==
    /\ \/ \E s \in Lists, d \in Dates : srv = Empty(s, d)
       \/ \E e \in Entities, d \in Dates, ok \in BOOLEAN : srv = Opening(e, d, ok)
    /\ calls = {}
    /\ view = Copy(srv)
    /\ loader = Idle
    /\ groups = [inFlight |-> {}, failed |-> {}]
    /\ boot = FALSE
    /\ due = TRUE
    /\ want = NoOp
    /\ retried = FALSE
    /\ acts = 0 /\ errors = 0 /\ timeouts = 0

ServerStep(c) == \/ StartLoad(c) \/ StartGroup(c)
                 \/ \E ok \in BOOLEAN : CommitLoad(c, ok) \/ CommitGroup(c, ok)

User == \/ \E s \in Sections : Navigate(s)
        \/ \E g \in Groups[Entity], d \in Dates : AskGroup(g, d)
        \/ \E g \in SectionGroups[view.sec] : RetryGroup(g)

Next ==
    \/ \E c \in calls : ServerStep(c) \/ Raise(c) \/ Deliver(c) \/ TimeOut(c) \/ Drop(c)
    \/ DriveBoot \/ DriveStream
    \/ User

Spec == Init /\ [][Next]_vars

(* The server answers every call, the browser takes every answer, and an     *)
(* effect whose dependencies changed runs; streaming starves no load.        *)
Works(who) == \E c \in calls : c.who = who /\ ServerStep(c)
Takes(who) == \E c \in calls : c.who = who /\ (Deliver(c) \/ Drop(c))
Drives == DriveBoot \/ DriveStream

Fairness == /\ \A who \in {"loader", "group"} : WF_vars(Works(who)) /\ WF_vars(Takes(who))
            /\ WF_vars(Drives)

FairSpec == Spec /\ Fairness

---------------------------------------------------------------------------
(* Properties *)

Ops == [sec : Sections, arg : Args \cup {None}, date : Dates, grp : STRING, scope : Nat]

Replies == [kind : {"initial"}, copy : Copies]
           \cup [kind : {"patch"}, key : Keys, table : Tables]
           \cup {Nothing, Error}

Calls == [who : {"loader", "group"}, id : Nat, sec : Sections,
          arg : Args \cup {None}, date : Dates, grp : STRING, scope : Nat,
          live : BOOLEAN, st : {"sent", "running", "answered"}, cur : Records,
          reply : Replies]

CallKeys == Nat \X Sections \X STRING

(* Types of the record, the calls and the browser's state. *)
TypeOK ==
    /\ srv \in Records
    /\ calls \subseteq Calls
    /\ view \in Copies
    /\ loader \in [seq : Nat, busy : BOOLEAN, pending : [op : Ops, id : Nat], error : BOOLEAN]
    /\ groups \in [inFlight : SUBSET CallKeys, failed : SUBSET CallKeys]
    /\ boot \in BOOLEAN /\ due \in BOOLEAN /\ retried \in BOOLEAN
    /\ want \in Ops
    /\ acts \in Nat /\ errors \in Nat /\ timeouts \in Nat

(* When the loader has come to rest without an error, the browser shows the  *)
(* section and the filters or entity asked for last: no earlier answer, no   *)
(* streamed group and no Retry takes the user elsewhere                      *)
(* (useSerializedLoader.ts).  Of the date this is not so: see DateApplied.   *)
IntentApplied ==
    ~loader.busy /\ ~loader.error /\ IsLoad(want) =>
        view.sec = want.sec /\ view.arg = want.arg

(* "The scope_id guard makes a late-arriving load for a superseded scope a   *)
(* harmless no-op instead of a corruption" (pools_explorer.py:1538-1539):    *)
(* the date asked for is the one on screen.  The guard is passed before the  *)
(* queries, and the patch after them puts the date it read back.             *)
DateApplied ==
    ~loader.busy /\ ~loader.error /\ IsLoad(want) => view.date = want.date

(* The core rows on screen are those of the filters or the entity on screen, *)
(* also after a section was evicted, fetched again or restored from retained *)
(* datasets, and after a query that failed (pools_explorer.py:1394-1395).    *)
CoreAlwaysMatches ==
    Core(view.sec) \in view.loaded => view.data[Core(view.sec)].arg = view.arg

(* It is so as long as the browser gives up on no load and the user has no   *)
(* core queried again: both commit beside newer loads, the one puts back the *)
(* record that it read, the other the rows of the filters that it read.      *)
CoreMatches == timeouts = 0 /\ ~retried => CoreAlwaysMatches

(* A group the server counts as loaded has its dataset, and a fingerprint    *)
(* stands for a core that is still attached and was queried for it, for its  *)
(* filters and its date: neither an eviction nor a group that lands during a *)
(* load leaves a mark behind that a later restore would trust                *)
(* (touch_section_lru).  Loads the browser gave up on run concurrently, and  *)
(* lose each other's marks; a core queried again is queried for the filters  *)
(* and the date of the moment, and keeps the fingerprint.                    *)
MarksAreBacked ==
    timeouts = 0 =>
        /\ \A k \in srv.loaded : srv.data[k] # None
        /\ \A s \in Lists : ~retried /\ srv.fp[s] # None =>
              LET t == srv.data[Core(s)] IN
              t # None /\ srv.fp[s] = [arg |-> t.arg, date |-> t.date]

(* With no load on its way and none given up on, browser and server agree on *)
(* the scope: a streamed group is not refused as one of another scope.       *)
ScopeAgrees ==
    timeouts = 0 /\ ~(\E c \in calls : c.who = "loader" /\ IsLoad(c)) =>
        view.scope = srv.scope /\ view.sec = srv.sec

(* Streaming comes to rest: unless browser and server disagree on the scope  *)
(* for good, a failed or refused group is not asked for again and again.     *)
Settled == ~loader.busy /\ groups.inFlight = {} /\ ~due
StreamsSettle == <>[](Settled \/ view.scope # srv.scope)

(* The groups of the section on screen are loaded, have failed, or are on    *)
(* demand, once everything is at rest: the driver "streams every remaining   *)
(* `${section}.${group}` marked unloaded" (PoolsExplorerApp.tsx:186-187).    *)
StreamsAll ==
    Settled /\ Core(view.sec) \in view.loaded =>
        \A g \in Missing : <<view.scope, view.sec, g>> \in groups.failed

(* "The scope_id guard makes a late-arriving load for a superseded scope a   *)
(* harmless no-op instead of a corruption" (pools_explorer.py:1538-1539): a  *)
(* group marked as loaded shows the filters or the entity on screen.         *)
GroupsMatch ==
    \A g \in Groups[view.sec] :
        <<view.sec, g>> \in view.loaded => view.data[<<view.sec, g>>].arg = view.arg
=============================================================================
