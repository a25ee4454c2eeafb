# Formal models of cerebro-mcp

TLA+ modules for the parts of cerebro-mcp that keep state across tool calls,
threads and restarts, and between its server and the mini apps in a browser, the TLC configurations that check them on small
instances, and TLAPS proofs of the invariants that matter most. Paths below are
relative to the repository; `…/` stands for `src/cerebro_mcp/`, `ui/` for
`ui/src/mini-apps/`.

    tlc -config MCResearch.cfg MCResearch
    tlc -config EventWriter.cfg EventWriter
    tlapm ResearchProofs.tla

## 1. The system

cerebro-mcp is an MCP server over ClickHouse and Ethereum RPC nodes. An agent
calls tools; the tools query, scan, render and record. Tool bodies are plain
functions that `…/runtime/offload.py` runs on a pool of worker threads, so **two
tool calls run at the same time and their steps interleave**. Only single
methods of the stores hold a lock, never a whole tool.

Tools may also open a **mini app**: a React view in a sandboxed frame beside the
chat. The server keeps one record per view (`…/tools/visualization/mini_apps.py`);
the view calls tools itself, gets results as payloads, and is also notified of
what the agent does to the same record. So each mini app is a small distributed
system: two copies of a state, requests that time out in the browser and commit
on the server all the same, and answers that overtake one another.

| Part | State | Operations | Hard behaviour | What makes it correct |
|---|---|---|---|---|
| Research workflow (`…/tools/research`, `…/research/store.py`, `…/research/workflow.py`) | `project.json`, `evidence.json`, `peer_review.json` of each project | plan, execute, attach, verify, review, publish | load – change – save without a lock across: lost updates; several files, a crash between them | phases in order; publication only after a verification with evidence and an accepting review; what the project claims is on file |
| Synchronous event writer (`…/workflow/event_store_sync.py`) | `events`, `gates`, `workflows` tables; a worker thread, its queue; a cool-down | append, set gate, mark, snapshot, all under a deadline | threads that cannot be killed and go on later; a deadline racing the answer | no event twice, the caller's order, a tool never blocked, nothing queued behind a stuck thread |
| Research resume handler (`…/research/resume.py`) | none: a pass over the events | resume outcome and hint | the log is behind the disk, or out of order | never ahead of the project; the named call is accepted |
| Storyteller (`…/storyteller/state.py`, `…/tools/storyteller/storyteller.py`) | one session per process, its id, durable snapshots | start, record each artifact, clarity review, accessibility pass, handoff, end, resume | roll-backs, restore, two tools at once, a handoff that reads the live session | every artifact is built on what its phase needs; what is handed off is what passed; work survives a restart |
| Storyteller resume handler (`…/storyteller/resume.py`) | none | resume hint | as above | as above |
| Async event store (`…/workflow/event_store.py`) | the same tables | create, append, replay, gates | shares sequence numbers with the synchronous writer | numbers unique and dense |
| Workflow registry, resume tools, startup sweep (`…/workflow/registry.py`, `…/tools/workflow/resume.py`, `…/runtime/bootstrap.py`) | handlers by kind; outcomes are events of the same log | resume, resume all, latest hint | each resume appends to what the next one reads | repeating a resume changes nothing |
| Workflow runner (`…/workflow/runner.py`) | events of a workflow | parallel and sequential phases | one of several sub-tasks fails | status, gate and results agree |
| RPC scan jobs (`…/rpc_scan`) | job table, cursor, scratch tables, registry rows | start, run, cancel, resume, expire | crash between rows and cursor; cancel at the end; two resumes; adaptive windows | each unit scanned or reported as skipped |
| Async query jobs (`…/tools/analytics/query_async.py`) | job table, result pages on disk | start, poll, clean up | check-then-insert; cleanup during a poll | one job per query; a result is there when the status says so |
| Sandbox manager (`…/runtime/sandbox_manager.py`) | sandboxes, limit, expiry | create, query, destroy, sweep | eviction before an export that fails; a query on an expiring sandbox | never above the limit; no leaked schema |
| Mini-app cache (`…/runtime/mini_app_cache.py`) | two bounded maps with a TTL | get, put, prune | eviction at the limit | bounded; fresh entries stay |
| Governance session state (`…/tools/governance`) | gates of the standard report | record, check, reset | one session for all clients | a report only after its gates |
| Charts and reports (`…/tools/visualization/charts.py`) | registry of charts with a TTL, report files | generate, resolve, render | a chart forgotten while evidence refers to it | – |
| Dataset hydration (`ui/shared/useMiniApp.ts`, `ui/shared/useHydratedDatasets.ts`, `mini_apps.py`) | datasets and revisions per view; the browser's copy, a loop per dataset | load, append, attach; merge payload; fetch pages | payloads overtake each other, are repeated or lost; a dataset is replaced under its loop | shown as complete: all rows of one revision; every load ends |
| Sectioned explorers (`ui/pools-explorer`, `ui/shared/useSerializedLoader.ts`, `ui/shared/useGroupLoader.ts`, `pools_explorer.py`; governance and CoW alike) | sections, their groups, fingerprints and an LRU on the server; a serialized loader and a group loader in the browser | navigate, stream groups, ask for one, date one anew, retry a group or a core | eviction, superseded scopes, queries that fail and leave a stub, a group that brings its date back, a timeout that commits | the view ends where the user went; marks are true; streaming comes to rest |
| Metric lab charts (`ui/metric-lab/useChartsSync.ts`, `metric_lab.py`) | the grid, in the browser and on the server | edit, debounced save, agent's edit | echoes of older saves, overlapping saves, a save made after it was given up | no edit lost to an echo; failures shown |
| Graph explorer state (`ui/graph-explorer/state`, `…/tools/semantic/graph_explorer/ui_tools.py`) | mode, selection, preferences, window, on both sides | select, change tab, load, save, agent's focus | commands overtaken, refused, or replaced while they wait | both sides agree at rest |
| Transactions search (`ui/graph-explorer/modes/TransactionsView.tsx`, `…/graph_explorer/transactions.py`) | the namespace of one search, its cursor and gaps | search, automatic walk, Load more, open a receipt, back, retry | budgets, refused slices, a chain that grows, late answers | nothing skipped, absence only if read, the walk ends |
| Timeline playback (`ui/graph-explorer/state/useTimelineFilter.ts`, `ui/graph-explorer/model/timelineIndex.ts`, `…/graph_explorer/timeline.py`) | axis, window, cursor, timer, URL | load, scrub, play, leave and come back | the axis moves under a running timer | a frame shows what was active; playback ends |
| Semantic layer, loaders, clients, safety, dashboards, canvas and other mini apps | caches of catalogues, view payloads | queries, searches, compilation | mostly data and I/O | – |

How they interact: the research and storyteller tools call the event writer
*after* their durable work; the writer's tables are what the resume handlers
read, at startup or on request; research evidence refers to charts, query
results and reports; both workflows hand off to `create_report_artifact`.
`useMiniApp` is the one channel between a view and the server: the explorers, the
lab and the graph explorer call through it and hydrate their datasets by
`useHydratedDatasets`; all but the lab queue their calls in `useSerializedLoader`
(newest request wins, one in flight), and the server repeats newest-wins in
`reserve_view_request` and `commit_view_update`.

## 2. Modules

| Module | Models | State |
|---|---|---|
| `Research` | one project and the tools over it | `disk`, `review`, `evidence`: the three files. `gone`: references that no longer resolve. `call[w]`: what worker thread `w` is doing, with its **private copy** of the project |
| `ResearchLog` | `Research` with the event log and the resume handler | `scan`: what a pass over the events finds; `gates`, `marked`: the other two tables; `second[w]`: the write that follows an event; `late`: writes left on abandoned threads |
| `Delivery` | what a tool may rely on when it writes to the log: once or never, the number only of a stored event, an answer in time is final | `table`, `fate`, `told` |
| `EventWriter` | the bounded writer | `events`, `worker`, `queue`, `thread`: table and threads. `call`, `wrote`, `told`, `result`: the callers. `degraded`, `lastError`, `timeouts`: the module's globals |
| `Storyteller` | the session, its tools and snapshots | `session`, `sid`: the two globals. `saved`: last snapshot per session. `late`: snapshots on abandoned threads. `report`: what the last report was made of. `call[w]` |
| `Hydration` | one view's datasets from the store to the consumer | `hist`: every revision's rows; `newest`, `tasks`: the server; `replies`: payloads on their way; `view`: the merged view; `reg`, `loops`: the registered and the running loops; `out`: what a chart sees |
| `DatasetContract` | what a view may rely on: rows of one revision, growing, complete means all | `goal`, `shown` |
| `Explorer` | the pools explorer | `srv`: the record (section, filters or entity, date, marks, fingerprints, scope, datasets); `calls`, each with the copy of the record it read; `view`; `loader`, `groups`: the two hooks; `due`: the driver has something to ask; `retried`: history |
| `ChartsSync` | the chart grid | `panels`, `timer`, `last`, `err`: the hook; `server`; `calls`, `notes`: saves and notifications under way; `late`: saves given up on that the server may still make; `agent`: the copy an agent works on |
| `GraphSync` | focus and preferences | `local`: the reducer's state; `view`: the last payload; `srv`; `focus`, `load`: the loaders; `timer`, `saves`: the debounced save; `notes` |
| `AddressDiscovery` | the search of an address | `srv`, `cl`: the namespace and its copy; `tasks`, `fl`, `queue`: requests; `auto`, `pend`, `sub`: refs and state of the view; `hist`: the chain |
| `Timeline` | playback | `axis`, `rows`: what is loaded; `win`, `srvWin`: window; `hook`: cursor and timer; `url` |
| `ResearchProofs` (with `ResearchLog`), `StorytellerProofs`, `EventWriterProofs`, `HydrationProofs`, `ExplorerProofs`, `ChartsSyncProofs`, `AddressDiscoveryProofs`, `GraphExplorerProofs` (of `GraphSync` and `Timeline`) | theorems about these modules (section 5) | – |
| `MC*` | instances for TLC, where an instance needs definitions of its own; the other modules are checked as they are | – |

**Steps.** A method that holds a lock is one step. A tool is a step per such
method: `LoadForPlan` is `load_project` and the validation that follows it,
`SaveProject` is `save_project`, `Emit` is the event. In between, any other
worker may run. `Crash` loses every call in progress and keeps the files;
`_write_json_atomic` makes each file change all or nothing.

In the browser a step is what runs between two awaits or renders: an event
handler, an effect, the delivery of a payload. React runs an effect after a
render, so an effect that sees several payloads merged sees them once: `Hydrate`
and the drivers of `Explorer` compare with what they last saw. On the server a step is a
critical section of the view store; a query runs between two of them.

**What is abstract.** Texts, titles and payloads are model values. Evidence is a
set of (reference, phase). The order of `evidence.json` and the memory and
findings lists are left out, as no guard reads them. A clarity review is its
outcome and, when it blocks, the phase the session goes back to. The log in
`ResearchLog` is kept as the fold of the handler's loop over it, which is exact
because the loop only looks at one event after another; no bound on its length is
needed. A row of `Hydration` is the number of the revision that introduced it, so
that rows of two replacements can be told apart. A query's filters and a pool are
model values. Time in `AddressDiscovery` is cut in slots, the smallest slice the
server queries, each with room for `PerSlot` transactions; the wall-clock budget and the refusals of
the database are choices of where a scan stops and which slots it leaves
uncovered. A dataset of `Explorer`
is what it was queried for (filters or entity, and date) and whether the query gave rows: one that fails raises
nothing, but leaves a stub that is marked as loaded (`mini_apps.py` 1315-1356, "partial"), and its section is restored
with it. A bucket of `Timeline` is a number and an edge a set of buckets: `load_graph_timeline` sends one row
per edge and bucket of the range (`timeline.py` 821-844). The index of the view could also take intervals, open ends,
states and static rows (`timelineIndex.ts` 123-162), which this loader does not send, so they are left out. So is
the one render between new data and the effect that moves the cursor.
Variables called *history* in their comment (`walk`, `shown`, `odd`, `own`)
record what happened for a property to speak of, and steer nothing.

**Composition.** `ResearchLog` extends `Research`: its `Work` is a step of a tool,
`WriteEvent` is `Emit` with what `EventWriter` says may become of a write: it lands,
it is dropped, or it is left on an abandoned thread and lands later. `Storyteller`
uses the same three outcomes for snapshots. These are what becomes of a write in
`Delivery`, which `EventWriter` implements (checked by the run `EventWriter`, proved in `EventWriterProofs`):

    table <- events
    fate  <- a write is "ahead" until its caller takes it up, "open" while the caller waits,
             "late" if the caller has gone and it is still in a queue, "landed" or "lost"
    told  <- told, where a failed and a dropped write are both "default"

`TakeWorker` begins a write, `Skip` drops it, `Commit` and `Fail` land and lose it, `Answered` and
`Timeout` tell the caller or give up; handing over, taking a job and the end of the cool-down do not show.
The contract has no threads, so it says what holds *whichever* of them is stuck: a caller with a
sequence number has its event stored, a default that came in time is final, and one that came at
the deadline says nothing.

`Hydration` composes the server's store, the transport, the merge and the loops,
and implements `DatasetContract` (checked by `MCHydration`, proved in `HydrationProofs`):

    goal  <- [k \in Keys |-> IF reg[k].own THEN [rev |-> reg[k].rev, rows |-> hist[k][reg[k].rev]]
                                           ELSE Unknown]
    shown <- out

A goal is a revision *and* its rows: an append of no rows commits a new revision all the same
(`transactions.py` 3397-3401, 3472), and a dataset that was complete may then start over with the rows it had. The contract
allows that, and promises nothing of a dataset whose label and rows did not come
together (`own` is false): section 4 says how that comes about. `Explorer`,
`GraphSync` and `AddressDiscovery` each hold their own copy of the serialized
loader, with the callbacks that their view gives it.

**Mutants.** An operator marked *Faulty* in a module is a plausible bug in
the code that the definition of the same stem models. None is used by a
specification; each is there to show that a property can fail.

## 3. Runs

PROJECT.json lists twelve runs: what the project asks of each part, and two
disagreements. The other `.cfg` files ask further questions of the same modules and are
started the same way.

| Run | Instance | Shows |
|---|---|---|
| `MCResearch` | 2 workers, a statistical result, a chart that may be forgotten; about 670,000 states | `PhasesInOrder`, `PublicationIsVerified`, `OutcomeOnFile`, `CopiesAreSound` |
| `MCResearchLog` | 1 worker, a result and a chart, 2 faults; about 1,640,000 states | `LogIsBacked`, `CompletionsAreOnDisk`, `HintNotAhead` |
| `EventWriter` | 2 callers, 2 writes each, 4 worker threads; about 318,000 states | `NoDuplicate`, `AcknowledgedInOrder`, `AbandonsItsOwnWorker`, `WriteReturns` under fairness, and that `EventWriter` implements `Delivery` |
| `MCStoryteller` | 1 worker, 1 session, 2 scenes, 1 fault; about 130,000 states | `PipelineInOrder`, `SnapshotIsCurrent` |
| `MCHydration` | 2 datasets, one appended to, one attached and cut at 2 rows; 2 requests, 1 fault, up to 3 rows in pages of up to 2, appends of no rows included; about 390,000 states | `CompleteIsExact`, `AppendIsExact`, `LoadingEnds` under fairness, and that `Hydration` implements `DatasetContract` |
| `MCExplorer` | 3 sections, room for 2, a group that is streamed and dated anew, 2 filters, 2 dates, 2 acts, 1 fault (a call refused, a query that fails, a call given up on); about 888,000 states | `IntentApplied`, `MarksAreBacked`, `ScopeAgrees`, `CoreMatches`, `StreamsSettle` under fairness |
| `ChartsSync` | 2 kinds of panel, up to 2 panels, 3 edits, 1 edit by an agent, 1 fault (a save refused or given up on, which may still be made); about 4,770,000 states | `GridIsSound`, `NotSilentInOrder`, `EchoKeepsEdits` |
| `GraphSync` | 2 tabs, 1 node, 2 layouts, 2 windows, 3 actions of user and agent, 2 faults; about 560,000 states | `FocusConverges`, `PrefsConverge`, `LoadKeepsFocus` |
| `MCAddressDiscovery` | 2 stored slots and a live one, 2 transactions a slot, pages of 1, three histories, 2 actions, 1 lost answer; about 77,000 states | `NoSkip`, `CompleteIsExact`, `AutoEnds` under fairness |
| `MCTimeline` | 1 edge with transfers in any buckets, up to 4 buckets, 2 windows, 4 actions; about 83,000 states | `FrameIsExact`, `ShowsAll`, `PlaybackEnds` under fairness, `CursorSurvives` |
| `MCHydrationMixed` | 2 datasets, no faults | `NeverMixes` fails (section 4) |
| `MCAddressDiscoveryRetry` | 1 address, 5 actions | `RetryReplays` fails (section 4) |

Further configurations. These pass: `MCExplorerMore` (an on-demand group, a list with a date picker and a second fault: `TypeOK` and the invariants of
`MCExplorer`; about 7,060,000 states) and `GraphSyncMore` (a fourth action and one fault: `SyncTypeOK` and the properties of
`GraphSync`; about 7,590,000 states). In these TLC finds the property violated, and
section 4 says what that means: `MCResearchRace`, `MCResearchLogRace`, `MCResearchLogHint`,
`MCResearchLogFailed`, `EventWriterStats`, `MCStorytellerText`, `MCStorytellerScenes`,
`MCStorytellerKept`, `MCExplorerStream`, `MCExplorerScope`, `MCExplorerStale`, `ChartsSyncSilent`,
`GraphSyncLoad`, `GraphSyncSilent`, `MCAddressDiscoverySkip`, `MCAddressDiscoverySight`,
`MCTimelineLink`. The name of a configuration begins with that of the module it is for.

**Bounds and why they are enough.** Two workers give every overlap of two calls,
which is what a lost update needs; a third adds only another stale copy, and
`CopiesAreSound`, proved for any number, says that no stale copy does harm. Two writes
per caller and as many threads as deadlines can be missed mean that the thread
bound never stops a caller. Two faults allow a late write that lands after a
crash or after a dropped one. One session id in `MCStoryteller` keeps the faults
affordable; two ids multiply the late snapshots, and what `PipelineInOrder` says
of several sessions is proved instead. Two scenes are the fewest a storyboard may have; a
third and a second storyboard are there where the question is which scenes have
a spec. `BlockedTo` is every phase that `_earliest_failing_phase` returns.

In the browser modules two requests, loads or acts are what an overtaking needs, and
one fault what a retry needs. Three rows with a preview of one and pages of one or two give a loop with
one page, with several, and with a page that is cut short by bytes; the cap of two
cuts a dataset in the middle. Room for two of three sections makes the third
navigation evict. Two panels reach the limit of the grid, where an add or a duplicate is
refused; the third edit is the one made while two others travel. In `GraphSync` every value
has one other value to be confused with, and the node is selected or not. Two
transactions to a slot and a page of one let a page end inside a slot; two stored slots and tiles
of one or two let a refusal hit the newer, the older or both. Four buckets are two windows of the
wider kind and a cursor between them. `MaxActs`, `MaxRequests`,
`MaxEdits`, `MaxFaults` and `MaxLost` bound how often the environment
acts, never what the program does in answer.

**Conditions.** Some properties hold only as long as the protocol is used in order, and
say so. `odd` collects what the protocol does not order (a save while another change
is under way, a payload that overtakes a newer one, a command replaced). `NotSilentInOrder` holds with
`odd = {}`; a save that the browser gave up on and that is made while the error is still shown is within it, one that is made
later counts as overlapping. In `GraphSync` the two halves need different parts of it: `FocusOrdered` allows overlapping saves and lost
replies to saves, `SavesOrdered` allows commands that are overtaken, fail or come from the agent, and drafts that a
failed save undoes. Under them `FocusConverges` and `PrefsConverge` hold, and the same claim without
the condition is violated in a configuration of its own. `walk.ours` says that the
pages of a search were asked with cursors of that search, and `timeouts = 0` that the
browser gave up on no call: the loads it gave up on run beside newer ones. `~retried` in `CoreMatches` says that no
core was queried again by its Retry, which the serialized loader does not hold back.
The mutants show that under these conditions there is still something to break.

**Symmetry** is used only in `MCResearch`, over workers, and only for invariants:
no definition names or orders a worker.

**Deadlock** is checked in the research and storyteller runs. It is not checked in the
writer, whose instance ends when every write of the bound has been made, nor in the
browser modules, which come to rest when the user's acts are used up.

**Fairness.** `WriteReturns` assumes weak fairness of a caller's own steps only: a
thread that runs goes on to its deadline. Nothing is assumed of the worker
threads, as in the code: they may be stuck in a system call for ever. `LoadingEnds`
assumes that a page that was asked for is answered or refused (`callTool` has a
timeout, after which `fetchRows` returns null), that the awaiting loop resumes, and that
the effect runs after a render; nothing is assumed of the user, the other
requests or their payloads. `StreamsSettle` assumes that the server works on a call, that an
answer or the timeout reaches the hook, and that the driver's effect runs. `AutoEnds` assumes that the
request in flight is handled; not that the user does anything, nor that the
database accepts a slice. `PlaybackEnds` assumes that the interval fires.

**Timing.** The models have no clock. The one assumption about time is in
`CooldownEnds`: a cool-down (60 s by default) outlasts the deadline (2 s) of those
that were waiting when it began. Settings that turn the two round are outside
the model. Debounce and playback timers may fire at any moment after they are set, and
a timeout may come before or after the commit of the call it gives up on.

## 4. Where code and documentation disagree

Listed in PROJECT.json, in the browser and its server:

- *Rows of two replacements are mixed* (`MCHydrationMixed`). The answer to an append carries the
  current labels of all datasets (`…/tools/semantic/graph_explorer/state.py` 518), and the
  browser raises the labels of datasets whose rows it was not sent
  (`useMiniApp.ts` 189-213). If such a dataset has just been replaced and that answer
  is still on its way, the loop starts from the old preview under the new
  label, the server's revision check passes, and old and new rows are
  concatenated. `mini_apps.py` 942-943 says that must never happen. The later answer with
  the dataset's own descriptor does not always mend it: label and row count may be the same, and then nothing restarts.
- *Retry repeats something else* (`MCAddressDiscoveryRetry`). A receipt that fails after the user went
  back is shown as a failed search, and Retry repeats the search
  (`TransactionsView.tsx` 1433-1437).

Found in the browser modules and shown by a configuration only:

- *A group may stay unasked* (`MCExplorerStream`): the driver looks at the groups when the scope or
  the loaded marks change. A user who goes to another section before the groups are asked for,
  and comes back to the retained one, changes neither, so they are neither loaded,
  nor failed, nor on their way (`PoolsExplorerApp.tsx` 186-187 says it streams every one).
- *A group of other filters, and an old date* (`MCExplorerScope`): a group that the server answered in time is delivered
  after the load of new filters, and the browser merges it: the guard on the scope is the
  server's only, and cannot see an answer already sent (`pools_explorer.py` 1538-1539). `GroupsMatch` fails. Every
  group patch also writes the date (`as_of`) that the group was queried for (1625), and the guard is passed before the queries:
  a group that was streamed under the old date and commits after a load of a new one puts the old date back, in the
  record and on screen, where the next navigation picks it up. `DateApplied` fails; `IntentApplied` is therefore about the section and
  the filters or the entity, and not about the date.
- *Rows of other filters* (`MCExplorerStale`), in two ways. Retry on a core that failed sends a group load beside the
  serialized loader (`PoolsExplorerApp.tsx` 270-273); it is queried for the filters it read, and may
  commit after a load of others, whose fingerprint then stands for its rows. And a load that the browser gave up on
  may commit after newer ones: its request id is compared when it starts, not after its queries
  (`pools_explorer.py` 1401), and what it stores is built on the record as it was then
  (1469-1502), so the fingerprint and the request id of before come back, while the datasets are those of the newer
  load, and a later navigation to the old filters is answered with "the retained datasets
  with zero queries" (1394-1395). `CoreMatches` says when neither can happen.
- *A failed save may be silent* (`ChartsSyncSilent`, `GraphSyncSilent`): with overlapping saves
  or payloads that overtake each other, screen and server differ with no error shown
  (`useChartsSync.ts` 8, `useGraphSync.ts` 12). In the graph explorer it takes no second edit: with a save under
  way, a failed load rolls the drafts back to the view (`GraphExplorerApp.tsx` 157-162), which makes a save of the *old*
  preference due, and Retry after an earlier failure makes one of the failed preference due. Both then run beside the
  first save, and if the later one fails, it is rolled back to the preferences its effect closed over, which are no longer
  the server's. This came out of the proof of `PrefsConverge`, and takes two failures.
- *A load moves the tab* (`GraphSyncLoad`): the user changes the tab twice quickly; the load's answer is
  taken between the two commands, has a newer mode revision than the browser, and brings the first
  tab back (`flows.py` 1539-1540: "must never flip the visible tab"). `LoadKeepsFocus` says when it
  does not. An answer that comes late also lowers the browser's mode revision,
  after which a second one moves the tab; hence its condition that nothing was reordered before.
- *A gap is skipped* (`MCAddressDiscoverySkip`): a new search of the same address times out in the browser,
  Load more sends the cursor of the search before, and the server, which has handled the new search
  meanwhile, accepts it (`transactions.py` 2356): what lies between is not read (251-258: "without skipping a gap").
- *The walk stops out of sight* (`MCAddressDiscoverySight`): a receipt fails, then a search times out;
  the failure on record is still that of the receipt, so the list shows neither failure nor Retry.
- *A deep link is lost* (`MCTimelineLink`): the first axis is rendered with the browser's window and then with
  the server's. If they differ the axis key changes twice, and the second change
  resets the cursor that `?tcur=` has just set (`useTimelineFilter.ts` 43-44).

In the research and storyteller tools:

- *A rejection does not always block.* `publish_research_report` reads the verdict,
  renders, and saves; a rejection recorded while it renders is not seen
  (`MCResearchRace`). `offload.py` runs tools on several workers, so nothing excludes it.
- *The log can say more than the disk.* A save replaces the file with a copy that
  may be stale, so a completed phase that was logged is planned again
  (`MCResearchLogRace`).
- *The hint after a plan.* The handler names `plan_research_phase` for a phase that is
  planned, which the tool refuses; it never names `execute_research_phase`
  (`MCResearchLogHint`).
- *A failed verification* is resumed as `ready_to_resume`, not `failed`
  (`MCResearchLogFailed`).
- *A log that fails looks healthy.* A handler that fails returns a default, which
  clears `last_error` (`EventWriterStats`).
- *An old review covers a new text.* Recording the story again keeps the review and
  the accessibility pass (`MCStorytellerText`).
- *Specs are counted, not matched.* After a second storyboard the specs of the
  first count (`MCStorytellerScenes`).
- *Snapshots out of order.* Two tools may take their payloads in one order and write
  them in the other; the older one is then what is restored (`MCStorytellerKept`).

Three more were met and have no configuration: a write reported as "event dropped"
(`event_store_sync.py` 336) is made later by its abandoned thread, which is why
`ResearchLog` and `Storyteller` have late writes; the gate a resume hint reports
and the row of the `gates` table are two writes that can be dropped apart
(`resume.py` 35); and a handoff checks the gates under the session's lock but
reads the story after it (`storyteller.py` 799, 829).

## 5. What is proved

Each theorem holds for every value of the constants that the named assumptions of its module allow: any number of
workers, callers, artifacts, sessions, scenes, datasets, sections, panels, slots, buckets, and
every bound. The argument is the same everywhere: an inductive invariant, checked by TLC on an instance before it was
proved, one lemma per action, and the property as its consequence.

**`ResearchProofs`**: `TypeOK`, `PhasesInOrder`, `PublicationIsVerified`, `OutcomeOnFile`,
`CopiesAreSound`. None of the middle three is inductive: `SaveProject` replaces the
disk with a copy that was taken long ago. The inductive invariant is `TypeOK`,
`Sound(disk)` and `CopiesAreSound`: every copy held by a call is sound *against the
files of now*, and has passed the guard of the step it is at. A copy stays sound
while other calls run because evidence is only added and a verdict is never
removed; that is lemma-level (`Sound` grows with the evidence), and every action is
a case that shows the copies it makes are sound. Assumed: `ArtifactAssumption` (the
report is no artifact, the statistical and volatile references are artifacts) and
`EvidencePhaseAssumption`.

The second part is about `ResearchLog`. `LogImplementsProject`: a step of the composition is a step of
`Research` or leaves the project alone, so all of the above holds there too. `LogIsBacked` holds
for any set of workers; for it the invariant also says of every event on its way, in a
call's hands or on an abandoned thread, that the files already bear it out. `CompletionsAreOnDisk` and `HintNotAhead`
are stated under `OneAtATime` (there are not two different
workers), because two overlapping calls do violate them (section 4); with one they still stand against dropped and late writes
and crashes. The theorems read
`ASSUME OneAtATime PROVE ...`. The invariant then adds that whatever the log speaks of, the project has reached
(`LogIsReached`), and that a call holds the copy that is on disk (`AloneAt`).

**`EventWriterProofs`**: `TypeOK`, `NoDuplicate`, `AcknowledgedInOrder`, `AbandonsItsOwnWorker`,
`NoCorpseAhead`, `LeakCostsTimeout`; the second to the fourth are properties of the run. The invariant follows a write through its life: it has left no
trace before it is handed over (`NotHandedOver`, `NotToldYet`), then it is in one place of one queue
(`QueuedOnce`), and neither stored nor answered while it is there (`QueuedIsOpen`). A thread that writes has a job, one never started has none
(`ThreadsHaveJobs`); a waiting caller is bound to the current worker or there is none (`CallsAreBound`). That is what
makes an abandoned thread harmless: it may finish its write, but nothing else is behind it.
`Refinement`, that `EventWriter` implements `Delivery`, needs two facts more: whoever waits has been
answered or has its write in a queue (`WaitingIsServed`), so that a deadline leaves a write that is done or one
that may still land; and a caller has been told of every write it has finished (`FinishedIsTold`), so that the
next one begins in order. Each action then maps to one of `Delivery` or to a stutter. Assumed: `BoundAssumption`.

**`StorytellerProofs`**: `TypeOK` and `PipelineInOrder`. The last is not inductive either,
because a session can be replaced by a snapshot, and a snapshot by a payload on
an abandoned thread. The strengthening says of *every* session in the system
(live, saved, late, or in a call's hands) that it is chained and backed. Assumed: a
storyboard is a sequence of at least two scenes (`BoardAssumption`, from the model's
validator), the roll-back phases (`BlockedToAssumption`), `TextAssumption` and `FaultAssumption`.

**`HydrationProofs`**: `TypeOK`, `AppendIsExact`, `CompleteIsExact`, `LoadingHasLoop`, `DeltaOnce`, and
`Refinement`: `Hydration` implements `DatasetContract`. What a chart shows came
from a page, a payload, a task and a revision, so the inductive invariant `IInv` has a part for
each of them, always relative to the store of now: a committed task names its base and its
result, and an append's result extends its base (`TaskOK`); a descriptor that came
with its label is exact for it (`Exact`), in the view and in every payload under way; a
delta is the difference between two revisions as long as its target is current (`DeltaOK`);
a live loop holds a prefix of its revision, ahead of what is shown, and so does the page
it was given (`LoopOK`). A commit disturbs none of it, because the store only
grows (`GrownKeeps`). For the refinement, the step that needs an argument is `Hydrate`:
a dataset restarts when its label or its row count changes, and as long as the row count is that of the revision the
label names, it restarts only with *another* goal (`GoalFacts`).
The invariant says nothing of a dataset whose label was raised without its rows, and
cannot: `NeverMixes` is violated (section 4). Assumed: `HydrationAssumption`, that is,
page sizes and caps are positive and `Unknown` is no pair of a revision and rows.

**`ExplorerProofs`**: `IntentApplied`, `MarksAreBacked`, `ScopeAgrees`, `CoreMatches`. None of
them is inductive: what a call will commit is computed from the copy of the record it read before its
queries, and what the view will show travels in an answer. The invariant has six parts. `Typed`
gives records, calls, answers and keys their shape. `NothingLoaded`: as long as the record names neither filters nor
entity nothing was loaded, so no group can be queried for nothing. `Cores`: a core is asked for as a group by Retry alone.
`Serialized` is the loader: it waits for one call at a time, the newest of those it sent, the request
wanted last is that call or the one that waits behind it, and the server has applied nothing newer. `Applied`: the answer to the
awaited load shows what it asked for. `InTurn`: while the browser gives up on no call, the copy a running load works on
is backed by the datasets of *now*, and the view, or the answer about to replace it, agrees with
the record. That a group may land, or a section be evicted, between the two halves of a load is the case that needs the
argument: loads do not overlap, and a group adds a mark together with its dataset. What a group does to the date is in none of the parts, and
what it does to a fingerprinted core is why two of them have the condition `~retried`. Assumed: `ExplorerAssumption`,
that is, the entity section is no list, `None` is neither filter nor entity, no group is called "core" (or
"none", the name that the model gives to no request), and what is loaded on demand or as of another date are groups of the entity section, as in
`SECTION_GROUPS` (`pools_explorer.py` 229-254), the latter lists also. Without the conditions on timeouts and retries
`CoreMatches` and `MarksAreBacked` are not even true: the stale commit and the retried core of section 4.

**`ChartsSyncProofs`**: `TypeOK`, `GridIsSound`, `NotSilentInOrder`, and the action property
`EchoKeepsEdits`. Identifiers stay below the number of edits plus two, in *every* copy of the grid, and a new one is
above all in use: the largest of a bounded set of numbers exists (`Largest`, from the
well-foundedness of < on the naturals, which is stated about sets and so can be used). For the
saves, the invariant numbers the server's writes: a payload with the newest number carries the server's grid (`Numbered`);
with nothing out of order at most one save is under way (`OneSave`), and the newest write has been heard of, is still to be heard of, or its
echo was lost and the error shows (`Informed`); a save made late leaves the last case as it is. Assumed: `ChartsAssumption`.

**`AddressDiscoveryProofs`**: `TypeOK`, `NoSkip`, `CompleteIsExact`, and, about one page of
the server alone, `PageSkipsNothing`: for any scan, refused slices and limit, what the page does not return is
after its next cursor, in a gap, or was before the cursor it came with. The invariant says it of *every* cursor that the search has
handed out and not only of the last (`Walked`), since the browser may come back to any; types, `InFlight` and `FirstView` relate
the request under way to the loader and to the view. Assumed: `DiscoveryAssumption`, and
`NoneAssumption` (no request is `None`).

**`GraphExplorerProofs`**, about `GraphSync`: `SyncTypeOK`, `FocusConverges`, `PrefsConverge`, and the action property
`LoadKeepsFocus`. There are three inductive invariants. `Base`: types; a request waits only behind an active one and
unsent, and only a call that was answered has a reply (`ChannelsOK`); a save is due exactly while the preferences are
not those sent last (`DueOK`), which has to be shown of every way the local state can change.
`SavesAgree`, while `SavesOrdered`: at most one save is due or under way, and each place that holds preferences
(the view, the last sent, the value a save would go back to, a load's snapshot) is the server's at the right moment; a
snapshot that is older than a save heard of is recognised by the order of the writes, which is why a reordered payload
is part of the condition.
`FocusAgree`, while `FocusOrdered`: the screen shows what the newest command asks for, or what the server has
(`NewestShown`); a mode command is followed by no other (`OneMode`); a reserved one will not be refused (`ReservedOK`); an answered one is
what the server has (`RepliedOK`); the browser's mode revision is the server's, or the one before while the answer is
under way (`ViewOK`); and what a load's snapshot brings depends on which data and writes it has seen (`SnapshotOK`). For
`LoadKeepsFocus` it follows that a snapshot with a newer mode revision brings the command whose own answer is still
under way, and the screen shows that already. Each step is described once by what it does (`SelectFacts` ...
`NotifiedFacts`), and the three invariants use that; a step that moves nothing an invariant speaks of is one frame lemma.
Assumed: `GraphAssumption`, and `NothingIsNoCall` (`Nothing` is neither a call nor a state of the server).

The same module about `Timeline`: `TypeOK`, `FrameIsExact`, and the action properties `ShowsAll` and `CursorSurvives`.
The invariant says that the URL tells where a cursor that stands still is (`UrlTells`), that playback has drawn an unbroken
run of buckets that ends with its frame (`ShownIsARun`), and that rows belong to a loaded axis (`RowsHaveAxis`). `FrameIsExact`
then says that a whole window fits behind the cursor, which holds because every change of axis or window rekeys it.
Assumed: `TimelineAssumption`.

**Only model-checked**:

- liveness: `WriteReturns`, `LoadingEnds`, `StreamsSettle`, `AutoEnds`, `PlaybackEnds`. Liveness under fairness and
  ENABLED are beyond the proof system's reach;
- `TypeOK` of `Explorer`: that "core" is a string, and that removing a section from the LRU leaves a sequence (`SelectSeq`, defined by
  recursion), are not within reach of the provers. `Typed` is proved instead: it says the same
  but for the LRU and the group of a call, which is a group of its section or the core;
- `SnapshotIsCurrent`, with one worker; with two, snapshots can be written in the other order (section 4);
- the stronger claims of section 4 without their conditions, which TLC refutes.

## 6. Plan

Done: `Research`, `ResearchLog`, `EventWriter` with `Delivery`, `Storyteller`; on the side of the mini apps
`Hydration` with `DatasetContract`, `Explorer`, `ChartsSync`, `GraphSync`, `AddressDiscovery` and
`Timeline`; and proofs about all of them. In this order next:

1. `ScanJobs`: job table, cursor, rows and registry row; units scanned or skipped,
   `commit_unit`, cancel, crash, resume. Hazards: rows before cursor, persisted at
   intervals, two resumes, cancel at the end. Properties: no unit is lost between
   cursor and rows; a completed job has every unit; a job ends.
2. `ScanAdaptive`: the window of `scan_adaptive` as a state machine, against
   the reference "each block once"; proof of the coverage invariant.
3. `Registry`, with the resume tools and the startup sweep: outcomes appended to the
   log that they are computed from; then the hint events of the storyteller.
4. `AsyncQuery` and `SandboxManager`: job table and pool with their races, limits and
   expiry; `MiniAppCache` with its bounds.
5. `WorkflowRunner` with the async event store, against the synchronous writer on the
   same tables.
6. `Delivery` as an instance of `ResearchLog` and `Storyteller`, in place of their own three outcomes.
7. The serialized loader as a module of its own, which `Explorer`, `GraphSync` and
   `AddressDiscovery` instantiate; the governance and CoW explorers as further instances of
   `Explorer`, and removed datasets and view expiry in `Hydration`.

Left out of modules that are otherwise whole:

- `GraphSync`: what the view does once a load it asked for itself has come (entering Investigate from
  a seed, `GraphExplorerApp.tsx` 148-155, 393-410, tied to the intent of that load).
- `Explorer`: Refresh (`force_refresh`), the search, the range and heatmap windows, the token overlay, and Retry after a
  failed hydration. The windows travel as the date does: a group's patch writes them too (`pools_explorer.py` 1625-1628), so what
  section 4 says of the date holds of them. Patches of groups that arrive in another order than they were committed leave browser
  and server with different dates; `ScopeAgrees` is about the scope.
- `AddressDiscovery`: filters and page sizes, the chain picker and the hash mode, which reset the search.
- `ChartsSync`: the normalization of a panel (`types.ts` 74-84, `metric_lab.py` 63-85). Both sides apply the same one and the
  browser compares normalized grids (`useChartsSync.ts` 130-148, 179-198), so the model's panels are normalized ones.

**Not modelled**, and not planned: the graph canvas, panels and charts (what they draw is a function
of the state that is modelled here), the mini apps that make one request per view (contract explorer, data
catalog, model lineage, portfolio, report studio), the servers of mini apps that answer each call by one query, SQL
and text validation, ABI decoding, the semantic layer's compiler and its loaders, dashboards,
observability, configuration, the client libraries, benchmarks and scripts. They
are functions on data, or I/O, with no protocol for a model checker to explore. Built assets
(`…/static/assets`) are the output of the UI's build and fixtures are data.
