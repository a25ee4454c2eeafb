------------------------------ MODULE GraphSync ------------------------------
(* The state of a graph explorer that browser and server share.  The browser *)
(* owns the tab, the selection of each tab, the draft of the window and the  *)
(* visual preferences; three channels carry them to the server: focus        *)
(* commands (tab and selection), data loads (window), both serialized with   *)
(* the newest waiting request kept, and saves of the preferences, sent after *)
(* a pause and not serialized.  The server answers with parts or the whole   *)
(* of its own copy, which the browser merges into its view and, when the     *)
(* data changed, adopts.                                                     *)
EXTENDS Naturals

CONSTANTS
    Modes,      \* the tabs
    Nodes,      \* what can be selected
    Nothing,       \* no selection, no mode, no call
    Prefs,      \* visual preferences (layout, status filter)
    DataWindows, \* data windows
    InitMode, InitPref, InitWindow,
    MaxUserActs, \* bound: actions of the user
    MaxFaults,  \* bound: calls that fail or whose reply is lost
    AgentMay    \* bound: whether the agent commands a mode, once

ASSUME GraphAssumption ==
    /\ Nothing \notin Modes \cup Nodes \cup Prefs
    /\ InitMode \in Modes /\ InitPref \in Prefs /\ InitWindow \in DataWindows
    /\ MaxUserActs \in Nat /\ MaxFaults \in Nat /\ AgentMay \in BOOLEAN

VARIABLES
    local,   \* GraphLocalState, with selectionByTask as mem
    view,    \* the server's state as the browser has it
    srv,     \* the server's state
    focus,   \* focusLoader: sequence number, active and waiting request
    load,    \* relationshipLoader, likewise
    timer,   \* a save is due
    saves,   \* saves without an answer
    last,    \* lastServerJson: the preferences the server is to hold
    err,     \* syncError is shown
    failed,  \* failedDraftRef: preferences of the last failed save
    notes,   \* answers to the agent on their way to the browser
    seen,    \* newest write the browser has heard of
    odd,     \* what happened that the protocol does not order
    userActs, faults

syncVars == <<local, view, srv, focus, load, timer, saves, last, err, failed,
          notes, seen, odd, userActs, faults>>

---------------------------------------------------------------------------
(* State of browser and server *)

Selections == Nodes \cup {Nothing}

(* rev: mode_revision; data: dataset_revisions; req: the newest request of   *)
(* the focus channel; n counts the writes (only the properties read it).     *)
Server == [mode : Modes, rev : Nat, sel : Selections, pref : Prefs,
           window : DataWindows, data : Nat, req : Nat, n : Nat]

Local == [mode : Modes, rev : Nat, mem : [Modes -> Selections], pref : Prefs,
          window : DataWindows]

(* Calls of the focus and of the load channel, and saves; reply: the server  *)
(* at the time of the answer.                                                *)
Calls == [id : Nat, st : {"sent", "reserved", "replied", "failed"},
          mode : Modes \cup {Nothing}, sel : Selections, rev : Nat,
          reply : Server \cup {Nothing}]
Loads == [id : Nat, st : {"sent", "committed", "replied", "failed"},
          window : DataWindows, reply : Server \cup {Nothing}]
Saves == [id : Nat, was : Local, applied : Prefs,
          st : {"sent", "saved", "failed"}, at : Nat]
Channel(C) == [seq : Nat, active : C \cup {Nothing}, waiting : C \cup {Nothing}]

ASSUME NothingIsNoCall == Nothing \notin Calls \cup Loads \cup Server

Sel(l) == l.mem[l.mode]

Focused(l, m, s) == [l EXCEPT !.mode = m, !.mem[m] = s]

\* Faulty: the tab is adopted unless it is older.
AdoptServerFromEqual(l, v) ==
    [IF v.rev >= l.rev THEN Focused(l, v.mode, v.sel) ELSE l EXCEPT
        !.rev = v.rev, !.pref = v.pref, !.window = v.window]

(* adoptServerState: tab and selection only with a newer mode command, all   *)
(* else as the server has it.                                                *)
AdoptServer(l, v) ==
    [IF v.rev > l.rev THEN Focused(l, v.mode, v.sel) ELSE l EXCEPT
        !.rev = v.rev, !.pref = v.pref, !.window = v.window]

(* The outbound effect after a change of the state: a save is due if the     *)
(* preferences are not those sent last.  It closes over the view of now.     *)
Due(l, v, sent) == [on |-> l.pref # sent, applied |-> v.pref]
NotDue(v) == [on |-> FALSE, applied |-> v.pref]

(* A save is due while another one is under way. *)
Resave(t) == IF t.on /\ saves # {} THEN {"resave"} ELSE {}

(* The view becomes v: new data are adopted wholesale and clear the error,   *)
(* preferences that somebody else changed are taken over.                    *)
Receive(v) ==
    /\ view' = v
    /\ seen' = IF v.n > seen THEN v.n ELSE seen
    /\ IF v.data # view.data
       THEN /\ local' = AdoptServer(local, v)
            /\ last' = v.pref
            /\ timer' = NotDue(v)
            /\ err' = FALSE
       ELSE IF v.pref # last
       THEN /\ local' = [local EXCEPT !.pref = v.pref]
            /\ last' = v.pref
            /\ timer' = NotDue(v)
            /\ UNCHANGED err
       ELSE UNCHANGED <<local, last, timer, err>>

Disordered(v) == IF v.n < seen THEN {"reorder"} ELSE {}

---------------------------------------------------------------------------
(* Serialized loaders *)

Idle == [seq |-> 0, active |-> Nothing, waiting |-> Nothing]

\* Faulty: a request that waits is not replaced by a newer one.
EnqueueKeepsFirst(ch, r) ==
    LET q == [r EXCEPT !.id = ch.seq + 1] IN
    IF ch.active = Nothing
    THEN [ch EXCEPT !.seq = @ + 1, !.active = q]
    ELSE [ch EXCEPT !.seq = @ + 1,
                    !.waiting = IF ch.waiting = Nothing THEN q ELSE @]

Enqueue(ch, r) ==
    LET q == [r EXCEPT !.id = ch.seq + 1] IN
    IF ch.active = Nothing
    THEN [ch EXCEPT !.seq = @ + 1, !.active = q]
    ELSE [ch EXCEPT !.seq = @ + 1, !.waiting = q]

(* The active request ended: the waiting one, if any, is sent. *)
Finished(ch) == [ch EXCEPT !.active = ch.waiting, !.waiting = Nothing]

(* An idle loader catches up with the request ids of the server. *)
CaughtUp(ch, id) ==
    IF ch.active = Nothing /\ id > ch.seq THEN [ch EXCEPT !.seq = id] ELSE ch

FocusCall(m, s) == [id |-> 0, st |-> "sent", mode |-> m, sel |-> s,
                    rev |-> 0, reply |-> Nothing]
LoadCall(w) == [id |-> 0, st |-> "sent", window |-> w, reply |-> Nothing]

(* A command is given while a mode command is under way or waiting. *)
Overlap ==
    IF \E c \in {focus.active, focus.waiting} \ {Nothing} : c.mode # Nothing
    THEN {"overlap"} ELSE {}

---------------------------------------------------------------------------
(* The user *)

UserAct == userActs < MaxUserActs /\ userActs' = userActs + 1

(* onSelectNode, onClearSelection; the node may be the selected one. *)
SelectNode(s) ==
    /\ UserAct
    /\ local' = Focused(local, local.mode, s)
    /\ timer' = Due(local', view, last)
    /\ focus' = Enqueue(focus, FocusCall(Nothing, s))
    /\ odd' = odd \cup Overlap
    /\ UNCHANGED <<view, srv, load, saves, last, err, failed, notes, seen,
                   faults>>

(* onModeChange: the selection of the other tab comes back, and one command  *)
(* carries both.                                                             *)
ChangeMode(m) ==
    /\ UserAct
    /\ m # local.mode
    /\ local' = [local EXCEPT !.mode = m]
    /\ timer' = Due(local', view, last)
    /\ focus' = Enqueue(focus, FocusCall(m, local.mem[m]))
    /\ odd' = odd \cup Overlap
    /\ UNCHANGED <<view, srv, load, saves, last, err, failed, notes, seen,
                   faults>>

(* SET_WINDOW and refetchSeed *)
AskLoad(w) ==
    /\ UserAct
    /\ w # local.window
    /\ local' = [local EXCEPT !.window = w]
    /\ timer' = Due(local', view, last)
    /\ load' = Enqueue(load, LoadCall(w))
    /\ UNCHANGED <<view, srv, focus, saves, last, err, failed, notes, seen,
                   odd, faults>>

(* SET_LAYOUT, SET_STATUS_FILTER *)
EditPref(p) ==
    /\ UserAct
    /\ p # local.pref
    /\ local' = [local EXCEPT !.pref = p]
    /\ timer' = Due(local', view, last)
    /\ odd' = odd \cup Resave(timer')
    /\ UNCHANGED <<view, srv, focus, load, saves, last, err, failed, notes,
                   seen, faults>>

---------------------------------------------------------------------------
(* Saves of the preferences *)

Send ==
    /\ timer.on
    /\ timer' = NotDue(view)
    /\ last' = local.pref
    /\ saves' = saves \cup {[id |-> userActs, was |-> local,
                             applied |-> timer.applied, st |-> "sent", at |-> 0]}
    /\ UNCHANGED <<local, view, srv, focus, load, err, failed, notes, seen, odd,
                   userActs, faults>>

(* set_graph_explorer_view *)
ServerSaves(c) ==
    /\ c.st = "sent"
    /\ srv' = [srv EXCEPT !.pref = c.was.pref, !.n = @ + 1]
    /\ saves' = (saves \ {c}) \cup {[c EXCEPT !.st = "saved", !.at = srv.n + 1]}
    /\ UNCHANGED <<local, view, focus, load, timer, last, err, failed, notes,
                   seen, odd, userActs, faults>>

Saved(c) ==
    /\ c.st = "saved"
    /\ LET v == [view EXCEPT !.pref = c.was.pref, !.n = c.at] IN
       /\ view' = v
       /\ seen' = IF c.at > seen THEN c.at ELSE seen
       /\ odd' = odd \cup Disordered(v)
       /\ IF v.pref # last
          THEN /\ local' = [local EXCEPT !.pref = v.pref]
               /\ last' = v.pref
               /\ timer' = NotDue(v)
          ELSE UNCHANGED <<local, last, timer>>
    /\ err' = FALSE
    /\ saves' = saves \ {c}
    /\ UNCHANGED <<srv, focus, load, failed, notes, userActs, faults>>

\* Faulty: the failure is only logged.
SaveFailsQuietly(c) ==
    /\ c.st = "failed"
    /\ failed' = c.was.pref
    /\ last' = c.applied
    /\ saves' = saves \ {c}
    /\ UNCHANGED <<local, view, srv, focus, load, timer, err, notes, seen, odd,
                   userActs, faults>>

(* RESTORE_DRAFT with the state and the preferences the effect closed over:  *)
(* also tab, selection and window are those of the time of sending.          *)
SaveFails(c) ==
    /\ c.st = "failed"
    /\ failed' = c.was.pref
    /\ local' = [Focused(local, c.was.mode, Sel(c.was)) EXCEPT
                    !.rev = c.was.rev, !.window = c.was.window,
                    !.pref = c.applied]
    /\ last' = c.applied
    /\ timer' = NotDue(view)
    /\ err' = TRUE
    /\ saves' = saves \ {c}
    /\ odd' = IF local = c.was THEN odd ELSE odd \cup {"restore"}
    /\ UNCHANGED <<view, srv, focus, load, notes, seen, userActs, faults>>

(* retrySync *)
Retry ==
    /\ err
    /\ err' = FALSE
    /\ failed' = Nothing
    /\ local' = IF failed = Nothing THEN local
                ELSE [local EXCEPT !.pref = failed]
    /\ timer' = Due(local', view, last)
    /\ odd' = odd \cup Resave(timer')
    /\ UNCHANGED <<view, srv, focus, load, saves, last, notes, seen, userActs,
                   faults>>

---------------------------------------------------------------------------
(* Focus commands and loads *)

(* update_graph_explorer_focus reserves the channel and reads the mode       *)
(* revision, then asks for evidence; an overtaken request is refused.  A     *)
(* mode command invalidates whatever was issued before it.                   *)
Effective(c) == IF c.mode = Nothing \/ c.id > srv.req THEN c.id ELSE srv.req + 1

Reserve ==
    /\ focus.active # Nothing /\ focus.active.st = "sent"
    /\ focus.active.id >= srv.req
    /\ focus' = [focus EXCEPT !.active.st = "reserved",
                              !.active.id = Effective(focus.active),
                              !.active.rev = srv.rev + 1]
    /\ srv' = [srv EXCEPT !.req = Effective(focus.active)]
    /\ UNCHANGED <<local, view, load, timer, saves, last, err, failed, notes,
                   seen, odd, userActs, faults>>

Refuse ==
    /\ focus.active # Nothing /\ focus.active.st = "sent"
    /\ focus.active.id < srv.req
    /\ focus' = [focus EXCEPT !.active.st = "failed"]
    /\ UNCHANGED <<local, view, srv, load, timer, saves, last, err, failed,
                   notes, seen, odd, userActs, faults>>

\* Faulty: a command without a mode clears the mode.
CommandedAlways(s, c) ==
    [s EXCEPT !.mode = c.mode, !.rev = c.rev, !.sel = c.sel]

(* What a focus command makes of a state that holds tab and selection. *)
Commanded(s, c) ==
    IF c.mode = Nothing THEN [s EXCEPT !.sel = c.sel]
    ELSE [s EXCEPT !.mode = c.mode, !.rev = c.rev, !.sel = c.sel]

(* The commit is refused when the channel moved on; the reply is then the    *)
(* current selection.                                                        *)
FocusCommit ==
    /\ focus.active # Nothing /\ focus.active.st = "reserved"
    /\ LET c == focus.active
           s == IF c.id < srv.req THEN srv
                ELSE [Commanded(srv, c) EXCEPT !.data = @ + 1, !.n = @ + 1]
       IN
       /\ srv' = s
       /\ focus' = [focus EXCEPT !.active =
            [c EXCEPT !.st = "replied",
                      !.mode = IF c.id < srv.req THEN Nothing ELSE @,
                      !.id = srv.req,
                      !.sel = s.sel, !.reply = s]]
    /\ UNCHANGED <<local, view, load, timer, saves, last, err, failed, notes,
                   seen, odd, userActs, faults>>

(* The patch carries what was commanded and the data revisions. *)
FocusReply(c) == [Commanded(view, c) EXCEPT !.data = c.reply.data,
                                            !.req = c.id, !.n = c.reply.n]

FocusReturns ==
    /\ focus.active # Nothing /\ focus.active.st = "replied"
    /\ LET v == FocusReply(focus.active) IN
       Receive(v) /\ odd' = odd \cup Disordered(v)
    /\ focus' = CaughtUp(Finished(focus), view'.req)
    /\ UNCHANGED <<srv, load, saves, failed, notes, userActs, faults>>

(* A failed focus command is only logged. *)
FocusFails ==
    /\ focus.active # Nothing /\ focus.active.st = "failed"
    /\ focus' = Finished(focus)
    /\ odd' = odd \cup {"unheard"}
    /\ UNCHANGED <<local, view, srv, load, timer, saves, last, err, failed,
                   notes, seen, userActs, faults>>

(* load_graph_explorer_seed commits its window and data, ... *)
LoadCommit ==
    /\ load.active # Nothing /\ load.active.st = "sent"
    /\ srv' = [srv EXCEPT !.window = load.active.window,
                          !.data = @ + 1, !.n = @ + 1]
    /\ load' = [load EXCEPT !.active.st = "committed"]
    /\ UNCHANGED <<local, view, focus, timer, saves, last, err, failed, notes,
                   seen, odd, userActs, faults>>

(* ... and answers with a later snapshot of the whole view. *)
LoadAnswer ==
    /\ load.active # Nothing /\ load.active.st = "committed"
    /\ load' = [load EXCEPT !.active.st = "replied", !.active.reply = srv]
    /\ UNCHANGED <<local, view, srv, focus, timer, saves, last, err, failed,
                   notes, seen, odd, userActs, faults>>

LoadReturns ==
    /\ load.active # Nothing /\ load.active.st = "replied"
    /\ Receive(load.active.reply)
    /\ odd' = odd \cup Disordered(load.active.reply)
    /\ load' = Finished(load)
    /\ focus' = CaughtUp(focus, view'.req)
    /\ UNCHANGED <<srv, saves, failed, notes, userActs, faults>>

(* A failed load rolls the drafts back to the view. *)
LoadRejected ==
    /\ load.active # Nothing /\ load.active.st = "failed"
    /\ local' = AdoptServer(local, view)
    /\ timer' = Due(local', view, last)
    /\ load' = Finished(load)
    /\ odd' = odd \cup Resave(timer')
    /\ UNCHANGED <<view, srv, focus, saves, last, err, failed, notes, seen,
                   userActs, faults>>

(* A call fails, before or after its write, or its reply is lost. *)
CallFails ==
    /\ faults < MaxFaults
    /\ faults' = faults + 1
    /\ \/ /\ focus.active # Nothing /\ focus.active.st # "failed"
          /\ focus' = [focus EXCEPT !.active.st = "failed"]
          /\ UNCHANGED <<load, saves, odd>>
       \/ /\ load.active # Nothing /\ load.active.st # "failed"
          /\ load' = [load EXCEPT !.active.st = "failed"]
          /\ UNCHANGED <<focus, saves, odd>>
       \/ /\ \E c \in saves :
                /\ c.st # "failed"
                /\ saves' = (saves \ {c}) \cup {[c EXCEPT !.st = "failed"]}
                /\ odd' = IF c.st = "saved" THEN odd \cup {"lost"} ELSE odd
          /\ UNCHANGED <<focus, load>>
    /\ UNCHANGED <<local, view, srv, timer, last, err, failed, notes, seen,
                   userActs>>

---------------------------------------------------------------------------
(* The agent *)

(* A mode command of the agent takes the next request id by itself. *)
AgentCommands(m) ==
    /\ AgentMay /\ UserAct
    /\ odd' = odd \cup {"agent"}
    /\ srv' = [srv EXCEPT !.mode = m, !.rev = @ + 1, !.sel = Nothing,
                          !.data = @ + 1, !.req = @ + 1, !.n = @ + 1]
    /\ notes' = notes \cup {[mode |-> m, rev |-> srv.rev + 1, sel |-> Nothing,
                             id |-> srv.req + 1, reply |-> srv']}
    /\ UNCHANGED <<local, view, focus, load, timer, saves, last, err, failed,
                   seen, faults>>

Notified(m) ==
    /\ Receive(FocusReply(m))
    /\ notes' = notes \ {m}
    /\ odd' = odd \cup Disordered(m.reply)
    /\ focus' = CaughtUp(focus, m.id)
    /\ UNCHANGED <<srv, load, saves, failed, userActs, faults>>

---------------------------------------------------------------------------

SyncInit ==
    /\ srv = [mode |-> InitMode, rev |-> 1, sel |-> Nothing, pref |-> InitPref,
              window |-> InitWindow, data |-> 1, req |-> 0, n |-> 0]
    /\ view = srv
    /\ local = [mode |-> InitMode, rev |-> 1, mem |-> [m \in Modes |-> Nothing],
                pref |-> InitPref, window |-> InitWindow]
    /\ focus = Idle
    /\ load = Idle
    /\ timer = NotDue(view)
    /\ saves = {}
    /\ last = InitPref
    /\ err = FALSE
    /\ failed = Nothing
    /\ notes = {}
    /\ seen = 0
    /\ odd = {}
    /\ userActs = 0
    /\ faults = 0

UserStep ==
    \/ \E s \in Selections : SelectNode(s)
    \/ \E m \in Modes : ChangeMode(m)
    \/ \E w \in DataWindows : AskLoad(w)
    \/ \E p \in Prefs : EditPref(p)
    \/ Retry

SaveStep ==
    \/ Send
    \/ \E c \in saves : ServerSaves(c) \/ Saved(c) \/ SaveFails(c)

FocusStep == Reserve \/ Refuse \/ FocusCommit \/ FocusReturns \/ FocusFails

LoadStep == LoadCommit \/ LoadAnswer \/ LoadReturns \/ LoadRejected

AgentStep == \/ \E m \in Modes : AgentCommands(m)
             \/ \E m \in notes : Notified(m)

SyncNext ==
    UserStep \/ SaveStep \/ FocusStep \/ LoadStep \/ CallFails \/ AgentStep

SyncSpec == SyncInit /\ [][SyncNext]_syncVars
---------------------------------------------------------------------------
(* Properties *)

(* Types of the two copies of the state and of the three channels. *)
SyncTypeOK ==
    /\ local \in Local /\ view \in Server /\ srv \in Server
    /\ focus \in Channel(Calls) /\ load \in Channel(Loads)
    /\ timer \in [on : BOOLEAN, applied : Prefs]
    /\ saves \subseteq Saves
    /\ last \in Prefs /\ err \in BOOLEAN /\ failed \in Prefs \cup {Nothing}
    /\ notes \subseteq [mode : Modes, rev : Nat, sel : {Nothing}, id : Nat,
                        reply : Server]
    /\ seen \in Nat /\ userActs \in Nat /\ faults \in Nat
    /\ odd \subseteq {"overlap", "resave", "reorder", "restore", "lost",
                      "unheard", "agent"}

FocusAtRest == focus.active = Nothing /\ notes = {}

(* No mode command was overtaken, none failed unheard, the agent gave none,  *)
(* no rollback undid a later edit, and payloads came in the order of their   *)
(* writes.                                                                   *)
FocusOrdered == odd \subseteq {"resave", "lost"}

(* With no focus command under way browser and server show the same tab and  *)
(* the same selection, however many nodes were selected during one round     *)
(* trip and whatever is loaded and saved meanwhile                           *)
(* (GraphExplorerApp.tsx:181-279).                                           *)
FocusConverges ==
    FocusOrdered /\ FocusAtRest => local.mode = srv.mode /\ Sel(local) = srv.sel

(* No save fell due while another was under way, no reply to a save was      *)
(* lost, and payloads came in the order of their writes.                     *)
SavesOrdered == odd \cap {"resave", "lost", "reorder"} = {}

(* With no save due or under way the screen has the server's preferences: an *)
(* edit was saved or visibly rolled back, whatever failed, was retried or    *)
(* was commanded by the agent meanwhile (useGraphSync.ts:128-158).           *)
PrefsConverge ==
    SavesOrdered /\ ~timer.on /\ saves = {} => local.pref = srv.pref

(* "persistence failures are NOT silent" (useGraphSync.ts:12): with no save  *)
(* due or under way the screen has the server's preferences or the error.    *)
NeverSilent ==
    ~timer.on /\ saves = {} /\ load.active = Nothing
        => local.pref = srv.pref \/ err

SameFocus == local'.mode = local.mode /\ Sel(local') = Sel(local)

(* An answer to a load moves neither the tab nor the selection, also when it *)
(* was taken before a focus command and comes after it.  Once such an answer *)
(* has lowered the browser's mode revision the next one may.                 *)
LoadKeepsFocus ==
    [][LoadReturns /\ FocusOrdered => SameFocus]_syncVars

(* "a trace must never flip the visible tab or clear the client selection"   *)
(* (flows.py:1539-1540).                                                     *)
LoadNeverMovesFocus == [][LoadReturns => SameFocus]_syncVars
=============================================================================
