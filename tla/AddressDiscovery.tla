-------------------------- MODULE AddressDiscovery --------------------------
(* The search for the transactions of an address in the graph explorer's     *)
(* Transactions mode.  The server pages stored history newest first, inside  *)
(* a wall-clock budget and in slices the database may refuse, adds the live  *)
(* tail, and hands out a cursor for the next page; the browser walks the     *)
(* pages by itself until one page of results is full, one request at a time. *)
(*                                                                           *)
(* Time is cut in slots, a slot being the smallest slice the server queries; *)
(* a transaction is a number, PerSlot of them to a slot, newer ones larger.  *)
EXTENDS Naturals, Sequences, FiniteSets, FiniteSetsExt

CONSTANTS
    Addrs,      \* addresses
    Histories,  \* the transactions each address may have at the start
    None,       \* no request
    PerSlot,    \* transactions a slot has room for
    Stored,     \* slots the execution tables hold; newer ones are the tail
    Last,       \* the newest slot
    Limit,      \* page_size
    MaxTile,    \* _DISCOVERY_DEFAULT_TILE_SECONDS, in slots
    MaxActs,    \* bound: actions of the analyst
    MaxLost     \* bound: replies the browser gives up on

Txs == 1 .. Last * PerSlot

ASSUME DiscoveryAssumption ==
    /\ Stored \in Nat \ {0} /\ Last \in Nat /\ Stored <= Last
    /\ PerSlot \in Nat \ {0} /\ Limit \in Nat \ {0} /\ MaxTile \in Nat \ {0}
    /\ Histories \subseteq [Addrs -> SUBSET Txs]
    /\ MaxActs \in Nat /\ MaxLost \in Nat

VARIABLES
    hist,   \* hist[a]: the transactions of address a on the chain
    srv,    \* transactions: the namespace of the server's view
    tasks,  \* requests the server has not handled, oldest first
    cl,     \* the browser's copy of the namespace
    fl,     \* the loader's request in flight, or None
    queue,  \* the loader's queued request, or None
    err,    \* the loader's error is set
    auto,   \* automaticDiscoveryRef
    pend,   \* pendingIntent, or None
    sub,    \* subview
    acts, lost,
    walk    \* history, for the properties only

vars == <<hist, srv, tasks, cl, fl, queue, err, auto, pend, sub, acts, lost, walk>>

---------------------------------------------------------------------------
(* Cursors.  A row cursor continues below transaction `at`; a coverage       *)
(* cursor below slot `at`, or, with `from` set, retries slots from..at-1     *)
(* before anything older.                                                    *)

Slot(p) == ((p - 1) \div PerSlot) + 1

Least(m, n) == IF m < n THEN m ELSE n

NoCursor == [kind |-> "none", at |-> 0, from |-> 0, tile |-> MaxTile]
RowCursor(p) == [kind |-> "row", at |-> p, from |-> 0, tile |-> MaxTile]
CoverageCursor(at, from, tile) ==
    [kind |-> "coverage", at |-> at, from |-> from, tile |-> tile]

Cursors == [kind : {"none", "row", "coverage"}, at : Nat, from : Nat,
            tile : 1 .. MaxTile]

(* The transactions a cursor leaves for later pages. *)
Ahead(c, p) == CASE c.kind = "none" -> FALSE
                 [] c.kind = "row" -> p < c.at
                 [] c.kind = "coverage" -> Slot(p) < c.at

---------------------------------------------------------------------------
(* One page of stored history: _discover_address_transactions_execution.    *)

Floor(c) == IF c.from > 0 THEN c.from ELSE 1
Ceiling(c) == IF c.kind = "coverage" THEN c.at - 1 ELSE Stored

(* The transactions of slots lo..hi, below the row cursor if there is one.   *)
Within(h, c, lo, hi) == {p \in h : /\ Slot(p) \in lo .. hi
                                   /\ c.kind = "row" => p < c.at}

Newest(S, n) == {p \in S : Cardinality({q \in S : q > p}) < n}

(* Tiles are read newest first; reading stops below a tile once more than a  *)
(* page was found.  The slot below the last one read.                        *)
StopSlot(h, c) ==
    LET tiles == {Floor(c) + k * c.tile - 1 : k \in 1 .. Stored}
                     \cap (Floor(c) .. Ceiling(c) - 1)
        full == {b \in tiles :
                   Cardinality(Within(h, c, b + 1, Ceiling(c))) > Limit}
    IN  IF full = {} THEN Floor(c) - 1 ELSE Max(full)

(* How a scan may end: at the stop slot, or at an older edge it cannot pass, *)
(* the wall budget being used up or the smallest slice being refused.        *)
Scans(h, c) ==
    {[stop |-> StopSlot(h, c), why |-> "read"]} \cup
    [stop : StopSlot(h, c) + 1 .. Ceiling(c), why : {"budget", "memory"}]

Found(h, c, scan) == Within(h, c, scan.stop + 1, Ceiling(c))

Uncovered(c, scan) ==
    IF scan.why = "read" THEN {} ELSE Floor(c) .. scan.stop

\* Faulty: a page that is not full is the last one, whatever was not read.
ExecutionCompleteByCount(h, c, scan) == Cardinality(Found(h, c, scan)) <= Limit

(* All the slots were read and no more than a page was found.  If they are a *)
(* retried slice, the history below it is not read: not complete.            *)
ExecutionComplete(h, c, scan) ==
    /\ scan.why = "read" /\ scan.stop = Floor(c) - 1
    /\ Cardinality(Found(h, c, scan)) <= Limit
    /\ c.from <= 1

(* The live tail is read by pages that start at the head. *)
LiveTail(h, c, tailOk) ==
    IF c.kind = "coverage" \/ ~tailOk THEN {}
    ELSE Within(h, c, Stored + 1, Last)

(* What the page is cut from. *)
Candidates(h, c, scan, tailOk) ==
    Newest(Found(h, c, scan), Limit + 1) \cup LiveTail(h, c, tailOk)

(* _newest_uncovered_retry_slice: the slot the database refused, with half   *)
(* the tile; or the newest tile, if the budget let nothing be read.          *)
RetrySlice(c, scan) ==
    IF scan.why = "memory"
    THEN CoverageCursor(scan.stop + 1, scan.stop, Max({1, c.tile \div 2}))
    ELSE CoverageCursor(scan.stop + 1,
             Max({Floor(c), (scan.stop + 1) - Least(c.tile, scan.stop)}), c.tile)

\* Faulty: continues below the slots read, whatever was left out of the page.
NextByCoverage(c, scan, cand, done) ==
    IF done \/ scan.stop = 0 THEN NoCursor
    ELSE CoverageCursor(scan.stop + 1, 0, c.tile)

(* The cursor of the next page.  Candidates left out of this page come       *)
(* first; then the slots below those read; a refused slot is tried again     *)
(* before anything older.                                                    *)
NextCursor(c, scan, cand, done) ==
    IF Cardinality(cand) > Limit THEN RowCursor(Min(Newest(cand, Limit)))
    ELSE IF done THEN NoCursor
    ELSE IF scan.why # "memory" /\ scan.stop \in 1 .. Ceiling(c) - 1
         THEN CoverageCursor(scan.stop + 1, 0, c.tile)
    ELSE IF scan.why # "read" THEN RetrySlice(c, scan)
    ELSE NoCursor

---------------------------------------------------------------------------
(* Requests *)

Discover(a, c) == [op |-> "discover", addr |-> a, cur |-> c]
Receipt(p) == [op |-> "receipt", tx |-> p]

Requests == [op : {"discover"}, addr : Addrs, cur : Cursors]
                \cup [op : {"receipt"}, tx : Txs]

ASSUME NoneAssumption == None \notin Requests

NobodyYet == [addr |-> None, list |-> {}, cur |-> NoCursor, complete |-> FALSE,
              gaps |-> {}, legs |-> {}, failed |-> None, scoped |-> FALSE]

(* A page that the server commits.  A cursor continues the list, the         *)
(* coverage and the receipts of the pages before; a search starts them anew. *)
PageOf(r, scan, tailOk) ==
    LET h == hist[r.addr]
        c == r.cur
        more == c.kind # "none"
        gaps == Uncovered(c, scan) \cup
                  (IF tailOk \/ c.kind = "coverage" THEN {} ELSE Stored + 1 .. Last)
        all == IF more THEN srv.gaps \cup gaps ELSE gaps
        cand == Candidates(h, c, scan, tailOk)
        done == ExecutionComplete(h, c, scan)
    IN  [addr     |-> r.addr,
         list     |-> (IF more THEN srv.list ELSE {}) \cup Newest(cand, Limit),
         cur      |-> NextCursor(c, scan, cand, done),
         complete |-> /\ done
                      /\ tailOk \/ c.kind = "coverage"
                      /\ more => all = {},
         gaps     |-> all,
         legs     |-> IF more THEN srv.legs ELSE {},
         failed   |-> None,
         scoped   |-> TRUE]

(* What the server's search has done: asof, the transactions there were when *)
(* it began; handed, the cursors of its pages; ours, whether no others were  *)
(* used (the cursor of an earlier search for the address is not refused);    *)
(* turn changes with every page, so that a page like the last one is a step. *)
WalkOf(r, s) ==
    IF r.cur.kind = "none"
    THEN [asof |-> hist[r.addr], handed |-> {s.cur}, ours |-> TRUE,
          turn |-> ~walk.turn]
    ELSE [walk EXCEPT !.handed = @ \cup {s.cur},
                      !.ours = @ /\ r.cur \in walk.handed, !.turn = ~@]

(* A receipt adds its legs and leaves the search as it is. *)
WithReceipt(p) == [srv EXCEPT !.legs = @ \cup {p}, !.failed = None,
                              !.scoped = TRUE]

(* _failed_transaction_result: the attempt is recorded beside the applied    *)
(* evidence; the first attempt of a view takes the place of the evidence.    *)
WithFailure(r) ==
    IF srv.scoped THEN [srv EXCEPT !.failed = r.op]
    ELSE [NobodyYet EXCEPT !.addr = IF r.op = "discover" THEN r.addr ELSE None,
                           !.failed = r.op, !.scoped = TRUE]

(* cursor_query_fingerprint: a cursor belongs to the search it came from. *)
Foreign(r) == r.op = "discover" /\ r.cur.kind # "none" /\ r.addr # srv.addr

---------------------------------------------------------------------------
(* The browser: the serialized loader and the view's effects *)

(* transactionFailure: a failure is shown in the subview it belongs to. *)
KindOfFailure(c, p) ==
    IF c.failed # None THEN c.failed
    ELSE IF p # None THEN p.op ELSE "discover"

Shows(kind) == (kind = "receipt") <=> (sub = "receipt")

FailureShown(c, e, p) == /\ e \/ c.failed # None
                         /\ Shows(KindOfFailure(c, p))

Failing == FailureShown(cl, err, pend)

Idle == fl = None

Off == [on |-> FALSE, addr |-> None, fresh |-> FALSE, seen |-> {}]
On(a) == [on |-> TRUE, addr |-> a, fresh |-> FALSE, seen |-> {}]

\* Faulty: the error of the last call stays up.
EnqueueKeepsError(r) ==
    IF fl = None
    THEN fl' = r /\ tasks' = Append(tasks, r) /\ UNCHANGED <<err, queue>>
    ELSE queue' = r /\ UNCHANGED <<fl, tasks, err>>

(* enqueue: one request in flight, the newest waiting. *)
Enqueue(r) ==
    IF fl = None
    THEN fl' = r /\ tasks' = Append(tasks, r) /\ err' = FALSE /\ UNCHANGED queue
    ELSE queue' = r /\ UNCHANGED <<fl, tasks, err>>

(* issueRequest *)
Issue(r) == pend' = r /\ Enqueue(r)

\* Faulty: asks for a page again and again.
EndsUnseen(c, failed) ==
    \/ failed \/ sub # "activity" \/ c.addr # auto.addr
    \/ Cardinality(c.list) >= Limit \/ c.cur.kind = "none"

(* The automatic walk ends here: a failure, another subject or subview, a    *)
(* full page, the end of the history, or a cursor that was tried already.    *)
Ends(c, failed) ==
    \/ failed \/ sub # "activity" \/ c.addr # auto.addr
    \/ Cardinality(c.list) >= Limit \/ c.cur.kind = "none"
    \/ c.cur \in auto.seen

(* The request in flight settles: `rest` are the tasks the server still has, *)
(* c the namespace it answered with, e whether the call failed.  A queued    *)
(* request follows at once; otherwise the automatic walk continues, ends, or *)
(* waits for a scope it has not seen, and a successful intent is retired.    *)
Settle(rest, c, e, news) ==
    LET failed == FailureShown(c, e, pend)
        acked == auto.on /\ (auto.fresh \/ news)
        next == Discover(auto.addr, c.cur)
    IN  /\ cl' = c
        /\ queue' = None
        /\ CASE queue # None ->
                  /\ fl' = queue /\ tasks' = Append(rest, queue) /\ err' = FALSE
                  /\ auto' = [auto EXCEPT !.fresh = acked]
                  /\ UNCHANGED pend
             [] queue = None /\ acked /\ ~Ends(c, failed) ->
                  /\ fl' = next /\ tasks' = Append(rest, next) /\ err' = FALSE
                  /\ auto' = [auto EXCEPT !.fresh = FALSE, !.seen = @ \cup {c.cur}]
                  /\ pend' = next
             [] queue = None /\ ~(acked /\ ~Ends(c, failed)) ->
                  /\ fl' = None /\ tasks' = rest /\ err' = e
                  /\ auto' = IF acked THEN Off ELSE auto
                  /\ pend' = IF failed \/ auto'.on THEN pend ELSE None

---------------------------------------------------------------------------
(* The server handles a request.  reserve_view_request makes every older one *)
(* stale; only the newest still has a browser that waits for it.             *)

Waited(i) == fl # None /\ i = Len(tasks)

Younger(i) == SubSeq(tasks, i + 1, Len(tasks))

Answer(i, s, news) ==
    /\ srv' = s
    /\ IF Waited(i)
       THEN Settle(<<>>, s, FALSE, news)
       ELSE /\ tasks' = Younger(i)
            /\ UNCHANGED <<cl, fl, queue, err, auto, pend>>

LoadPage(i) ==
    /\ tasks[i].op = "discover" /\ ~Foreign(tasks[i])
    /\ \E scan \in Scans(hist[tasks[i].addr], tasks[i].cur), tailOk \in BOOLEAN :
          LET s == PageOf(tasks[i], scan, tailOk)
          IN  Answer(i, s, TRUE) /\ walk' = WalkOf(tasks[i], s)

(* The scope of the search, which the activity shows, stays what it was. *)
LoadReceipt(i) ==
    /\ tasks[i].op = "receipt"
    /\ Answer(i, WithReceipt(tasks[i].tx), FALSE)
    /\ UNCHANGED walk

(* failed_load: the sources could not be read. *)
FailLoad(i) ==
    /\ ~Foreign(tasks[i])
    /\ Answer(i, WithFailure(tasks[i]), ~srv.scoped)
    /\ UNCHANGED walk

(* The tool answers with an error, after it reserved the request's number. *)
Reject(i) ==
    /\ Foreign(tasks[i])
    /\ IF Waited(i)
       THEN Settle(<<>>, cl, TRUE, FALSE)
       ELSE /\ tasks' = Younger(i)
            /\ UNCHANGED <<cl, fl, queue, err, auto, pend>>
    /\ UNCHANGED <<srv, walk>>

(* The browser gives up on the call; the server may still handle it. *)
GiveUp ==
    /\ fl # None /\ lost < MaxLost
    /\ lost' = lost + 1
    /\ Settle(tasks, cl, TRUE, FALSE)
    /\ UNCHANGED <<hist, srv, sub, acts, walk>>

---------------------------------------------------------------------------
(* The analyst *)

Act == acts < MaxActs /\ acts' = acts + 1

(* submit: search an address.  If the scope on screen is that of a receipt,  *)
(* the scope of the last search is one that the walk has not seen.           *)
Search(a) ==
    /\ Act
    /\ \E unseen \in {FALSE, sub = "receipt" /\ cl.legs # {}} :
          auto' = [On(a) EXCEPT !.fresh = unseen]
    /\ sub' = "activity"
    /\ Issue(Discover(a, NoCursor))
    /\ UNCHANGED <<hist, srv, cl, lost, walk>>

(* The results are listed unless a failure is shown. *)
Listed == sub = "activity" /\ cl.addr # None /\ ~Failing

LoadMore ==
    /\ Act
    /\ Listed /\ Idle /\ ~auto.on
    /\ cl.cur.kind # "none"
    /\ auto' = On(cl.addr)
    /\ Issue(Discover(cl.addr, cl.cur))
    /\ UNCHANGED <<hist, srv, cl, sub, lost, walk>>

(* chooseTransaction: a receipt that is not loaded is requested. *)
Choose(p) ==
    /\ Act
    /\ Listed /\ p \in cl.list
    /\ auto' = Off
    /\ sub' = "receipt"
    /\ IF p \in cl.legs
       THEN UNCHANGED <<fl, tasks, err, queue, pend>>
       ELSE Issue(Receipt(p))
    /\ UNCHANGED <<hist, srv, cl, lost, walk>>

(* The failure of a receipt is no longer shown, which retires its intent. *)
Back ==
    /\ Act
    /\ sub = "receipt"
    /\ sub' = "activity"
    /\ pend' = IF Idle /\ Failing THEN None ELSE pend
    /\ UNCHANGED <<hist, srv, tasks, cl, fl, queue, err, auto, lost, walk>>

Stop ==
    /\ auto.on
    /\ auto' = Off
    /\ UNCHANGED <<hist, srv, tasks, cl, fl, queue, err, pend, sub, acts, lost, walk>>

(* retryTransactionLoad: the pending intent, or the applied search. *)
Again == IF pend # None THEN pend ELSE Discover(cl.addr, NoCursor)

Retry ==
    /\ Act
    /\ Failing
    /\ pend # None \/ cl.addr # None
    /\ Issue(Again)
    /\ UNCHANGED <<hist, srv, cl, auto, sub, lost, walk>>

(* A newer transaction reaches the chain. *)
Arrive(a) ==
    /\ LET next == Max(hist[a] \cup {Stored * PerSlot}) + 1
       IN  next \in Txs /\ hist' = [hist EXCEPT ![a] = @ \cup {next}]
    /\ UNCHANGED <<srv, tasks, cl, fl, queue, err, auto, pend, sub, acts, lost, walk>>

Handle(i) == /\ UNCHANGED <<hist, sub, acts, lost>>
             /\ LoadPage(i) \/ LoadReceipt(i) \/ FailLoad(i) \/ Reject(i)

Init ==
    /\ hist \in Histories
    /\ srv = NobodyYet
    /\ tasks = <<>>
    /\ cl = NobodyYet
    /\ fl = None
    /\ queue = None
    /\ err = FALSE
    /\ auto = Off
    /\ pend = None
    /\ sub = "receipt"
    /\ acts = 0
    /\ lost = 0
    /\ walk = [asof |-> {}, handed |-> {}, ours |-> TRUE, turn |-> FALSE]

Next ==
    \/ \E a \in Addrs : Search(a) \/ Arrive(a)
    \/ \E p \in Txs : Choose(p)
    \/ LoadMore
    \/ Back
    \/ Stop
    \/ Retry
    \/ \E i \in DOMAIN tasks : Handle(i)
    \/ GiveUp

Spec == Init /\ [][Next]_vars

(* The server handles the request the browser waits for. *)
FairSpec == Spec /\ WF_vars(fl # None /\ Handle(Len(tasks)))

---------------------------------------------------------------------------
(* Properties *)

SrvType == [addr : Addrs \cup {None}, list : SUBSET Txs, cur : Cursors,
            complete : BOOLEAN, gaps : SUBSET (1 .. Last), legs : SUBSET Txs,
            failed : {"discover", "receipt", None}, scoped : BOOLEAN]

(* The request in flight is the last one the server was sent; a request      *)
(* waits only behind another one.                                            *)
TypeOK ==
    /\ hist \in [Addrs -> SUBSET Txs]
    /\ srv \in SrvType /\ cl \in SrvType
    /\ fl \in Requests \cup {None} /\ queue \in Requests \cup {None}
    /\ pend \in Requests \cup {None}
    /\ err \in BOOLEAN /\ sub \in {"activity", "receipt"}
    /\ walk.asof \subseteq Txs /\ walk.handed \subseteq Cursors
    /\ auto.on \in BOOLEAN /\ auto.seen \subseteq Cursors
    /\ fl # None => /\ Len(tasks) > 0 /\ tasks[Len(tasks)] = fl
                    /\ ~err
    /\ queue # None => fl # None
    /\ err => pend # None \/ cl.scoped

(* A stored transaction that is not in the list yet lies below the cursor of *)
(* the next page, whatever the pages before failed to read                   *)
(* (transactions.py:251-258: "without skipping a gap").                      *)
SkipsNothing ==
    \A p \in walk.asof \ srv.list :
        \/ Ahead(srv.cur, p)
        \/ Slot(p) > Stored /\ Slot(p) \in srv.gaps

(* So it is as long as the pages of a walk are asked with its own cursors.   *)
NoSkip == walk.ours => SkipsNothing

(* A search reported as complete lists every transaction there was when it   *)
(* began: an empty one is a verified absence.                                *)
CompleteIsExact ==
    walk.ours /\ srv.complete /\ srv.cur.kind = "none" => walk.asof \subseteq srv.list

(* An automatic walk comes to an end, or an attempt failed: it does not ask  *)
(* for ever when the database keeps refusing the same slice.                 *)
AutoEnds == auto.on ~> (~auto.on \/ err \/ cl.failed # None)

(* The walk ends, or its failure is shown with a Retry. *)
AutoEndsInSight == auto.on ~> (~auto.on \/ Failing)

(* Retry asks for what failed: as long as a failure is shown, the intent     *)
(* that failed is kept (TransactionsView.tsx, the effect that retires it).   *)
RetryReplays == Failing /\ Idle /\ err => pend # None
=============================================================================
