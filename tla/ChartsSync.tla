----------------------------- MODULE ChartsSync -----------------------------
(* The chart grid of the metric lab.  The browser owns the panels while the  *)
(* user edits them, saves the whole grid after a pause, and adopts what the  *)
(* agent or a reload of the data changes on the server.  Saves are not       *)
(* serialized: a second one may be sent while the first is under way, and    *)
(* replies and notifications come in any order.                              *)
EXTENDS Naturals, Sequences, FiniteSets

CONSTANTS
    Configs,      \* what a panel can show
    FirstConfig,  \* the panel of a grid that was just loaded
    MaxPanels,    \* MAX_CHART_PANELS
    MaxEdits,     \* bound: edits by the user
    MaxForeign,   \* bound: changes by the agent and reloads
    MaxFaults     \* bound: refused saves and lost replies

ASSUME ChartsAssumption ==
    /\ FirstConfig \in Configs
    /\ MaxPanels \in Nat \ {0}
    /\ MaxEdits \in Nat
    /\ MaxForeign \in Nat
    /\ MaxFaults \in Nat

VARIABLES
    panels,   \* the grid on screen
    last,     \* lastServerJson: the grid the server is believed to hold
    timer,    \* a save is due
    err,      \* syncError is shown
    rev,      \* the data revision of the browser's view
    calls,    \* saves without an answer
    notes,    \* payloads of other changes on their way to the browser
    server,   \* the server's grid, its data revision, its number of writes
    agent,    \* the grid the agent's tool has read, or NoGrid
    seen,     \* newest write the browser has heard of
    late,     \* grids the server may still save, though their calls were given up
    odd,      \* what happened that the protocol does not order
    edits, foreign, faults

vars == <<panels, last, timer, err, rev, calls, notes, server, agent, seen,
          odd, edits, foreign, faults, late>>

---------------------------------------------------------------------------
(* The grid *)

NoGrid == <<>>
\* Normalized: the browser compares and the server stores normalized panels, so
\* that an echo is what was sent.
Panels == [id : Nat \ {0}, v : Configs]

IdsOf(g) == {g[i].id : i \in 1 .. Len(g)}

\* Faulty: the new panel is numbered by its place.
NextPanelIdByCount(g) == Len(g) + 1

NextPanelId(g) == CHOOSE n \in 1 .. 1 + MaxEdits + MaxPanels :
    n - 1 \in IdsOf(g) \cup {0} /\ \A m \in IdsOf(g) : m < n

Fresh == <<[id |-> 1, v |-> FirstConfig]>>

InsertedAt(g, i, p) == SubSeq(g, 1, i) \o <<p>> \o SubSeq(g, i + 1, Len(g))
RemovedAt(g, i) == SubSeq(g, 1, i - 1) \o SubSeq(g, i + 1, Len(g))

(* panelsReducer: what one edit can make of the grid. *)
Edited(g) == {[g EXCEPT ![i].v = v] : i \in 1 .. Len(g), v \in Configs}

Added(g) ==
    IF Len(g) >= MaxPanels THEN {}
    ELSE {Append(g, [id |-> NextPanelId(g), v |-> g[Len(g)].v])}

Duplicated(g) ==
    IF Len(g) >= MaxPanels THEN {}
    ELSE {InsertedAt(g, i, [id |-> NextPanelId(g), v |-> g[i].v]) :
            i \in 1 .. Len(g)}

Removed(g) == IF Len(g) <= 1 THEN {} ELSE {RemovedAt(g, i) : i \in 1 .. Len(g)}

Moved(g) ==
    {InsertedAt(RemovedAt(g, ij[1]), ij[2] - 1, g[ij[1]]) :
        ij \in {p \in (1 .. Len(g)) \X (1 .. Len(g)) :
                    p[2] = p[1] + 1 \/ p[1] = p[2] + 1}}

PanelsReducer(g) ==
    Edited(g) \cup Added(g) \cup Duplicated(g) \cup Removed(g) \cup Moved(g)

---------------------------------------------------------------------------
(* The browser *)

(* An edit re-arms the timer; an edit back to what was sent disarms it. *)
Edit ==
    /\ edits < MaxEdits
    /\ \E g \in PanelsReducer(panels) \ {panels} :
        panels' = g /\ timer' = (g # last)
    /\ edits' = edits + 1
    /\ UNCHANGED <<last, err, rev, calls, notes, server, agent, seen, odd,
                   foreign, faults, late>>

\* Faulty: the grid counts as sent only once the server has it.
SendUnmarked ==
    /\ timer
    /\ timer' = FALSE
    /\ calls' = calls \cup {[id |-> edits, grid |-> panels, prev |-> last,
                             st |-> "sent", at |-> 0]}
    /\ odd' = IF calls = {} THEN odd ELSE odd \cup {"overlap"}
    /\ UNCHANGED <<panels, last, err, rev, notes, server, agent, seen, edits,
                   foreign, faults, late>>

(* The pause is over.  The grid is marked as sent before the round trip, so  *)
(* that its echo is not read as somebody else's change.                      *)
Send ==
    /\ timer
    /\ timer' = FALSE
    /\ last' = panels
    /\ calls' = calls \cup {[id |-> edits, grid |-> panels, prev |-> last,
                             st |-> "sent", at |-> 0]}
    /\ odd' = IF calls = {} THEN odd ELSE odd \cup {"overlap"}
    /\ UNCHANGED <<panels, err, rev, notes, server, agent, seen, edits,
                   foreign, faults, late>>

(* A payload with another revision is adopted wholesale, one with the same   *)
(* revision when it is not what the server is believed to hold.              *)
Adopts(g, r) == r # rev \/ g # last

(* The view merges a payload: grid g of data revision r, write number n.     *)
Merge(g, r, n) ==
    /\ rev' = r
    /\ panels' = IF Adopts(g, r) THEN g ELSE panels
    /\ last' = IF Adopts(g, r) THEN g ELSE last
    /\ timer' = (timer /\ ~Adopts(g, r))
    /\ seen' = IF n > seen THEN n ELSE seen

Disordered(n) == IF n < seen THEN {"reorder"} ELSE {}

(* A save is answered: the echo is merged, then the error is cleared. *)
Saved(c) ==
    /\ c.st = "saved"
    /\ Merge(c.grid, rev, c.at)
    /\ err' = FALSE
    /\ calls' = calls \ {c}
    /\ odd' = odd \cup Disordered(c.at)
    /\ UNCHANGED <<notes, server, agent, edits, foreign, faults, late>>

\* Faulty: the failure is only logged.
SaveFailsQuietly(c) ==
    /\ c.st = "failed"
    /\ last' = c.prev
    /\ calls' = calls \ {c}
    /\ UNCHANGED <<panels, timer, err, rev, notes, server, agent, seen, odd,
                   edits, foreign, faults, late>>

(* A failed save restores what the server was believed to hold before it,    *)
(* keeps the panels and shows the error.                                     *)
SaveFails(c) ==
    /\ c.st = "failed"
    /\ last' = c.prev
    /\ err' = TRUE
    /\ calls' = calls \ {c}
    /\ UNCHANGED <<panels, timer, rev, notes, server, agent, seen, odd, edits,
                   foreign, faults, late>>

(* retrySync runs the outbound effect again. *)
Retry ==
    /\ err /\ ~timer /\ panels # last
    /\ timer' = TRUE
    /\ UNCHANGED <<panels, last, err, rev, calls, notes, server, agent, seen,
                   odd, edits, foreign, faults, late>>

(* A change of the agent or a reload arrives.  A new revision clears the     *)
(* error.                                                                    *)
Notified(m) ==
    /\ m \in notes
    /\ Merge(m.grid, m.rev, m.at)
    /\ err' = (err /\ m.rev = rev)
    /\ notes' = notes \ {m}
    /\ odd' = odd \cup Disordered(m.at)
                  \cup (IF calls = {} THEN {} ELSE {"overlap"})
    /\ UNCHANGED <<calls, server, agent, edits, foreign, faults, late>>

---------------------------------------------------------------------------
(* The server *)

(* set_metric_lab_charts replaces the grid. *)
ServerSaves(c) ==
    /\ c.st = "sent"
    /\ server' = [server EXCEPT !.grid = c.grid, !.n = @ + 1]
    /\ calls' = (calls \ {c}) \cup {[c EXCEPT !.st = "saved", !.at = server.n + 1]}
    /\ odd' = IF notes = {} THEN odd ELSE odd \cup {"overlap"}
    /\ UNCHANGED <<panels, last, timer, err, rev, notes, agent, seen, edits,
                   foreign, faults, late>>

(* It refuses a grid with a field its dataset has lost; or the browser gives *)
(* the call up, before or after the write, or while the server is at it.     *)
CallFails(c) ==
    /\ c.st # "failed"
    /\ faults < MaxFaults
    /\ faults' = faults + 1
    /\ calls' = (calls \ {c}) \cup {[c EXCEPT !.st = "failed"]}
    /\ late' \in {late} \cup (IF c.st = "sent" THEN {late \cup {c.grid}} ELSE {})
    /\ UNCHANGED <<panels, last, timer, err, rev, notes, server, agent, seen,
                   odd, edits, foreign>>

(* A save that was given up on is made after all, and nobody hears of it.    *)
SavesLate(g) ==
    /\ late' = late \ {g}
    /\ server' = [server EXCEPT !.grid = g, !.n = @ + 1]
    /\ odd' = IF err /\ calls = {} /\ notes = {} THEN odd
              ELSE odd \cup {"overlap"}
    /\ UNCHANGED <<panels, last, timer, err, rev, calls, notes, agent, seen,
                   edits, foreign, faults>>

(* update_metric_lab_chart copies the grid it reads ... *)
AgentReads ==
    /\ agent = NoGrid
    /\ foreign < MaxForeign
    /\ foreign' = foreign + 1
    /\ agent' = server.grid
    /\ UNCHANGED <<panels, last, timer, err, rev, calls, notes, server, seen,
                   odd, edits, faults, late>>

Note(g, r, n) == [grid |-> g, rev |-> r, at |-> n]

(* ... and writes the copy back with one panel changed. *)
AgentWrites ==
    /\ agent # NoGrid
    /\ agent' = NoGrid
    /\ \E g \in Edited(agent) :
        /\ server' = [server EXCEPT !.grid = g, !.n = @ + 1]
        /\ notes' = notes \cup {Note(g, server.rev, server.n + 1)}
    /\ UNCHANGED <<panels, last, timer, err, rev, calls, seen, odd, edits,
                   foreign, faults, late>>

(* A load of data replaces the grid and raises the revision. *)
Reload ==
    /\ foreign < MaxForeign
    /\ foreign' = foreign + 1
    /\ server' = [grid |-> Fresh, rev |-> server.rev + 1, n |-> server.n + 1]
    /\ notes' = notes \cup {Note(Fresh, server.rev + 1, server.n + 1)}
    /\ UNCHANGED <<panels, last, timer, err, rev, calls, agent, seen, odd,
                   edits, faults, late>>

---------------------------------------------------------------------------

Init ==
    /\ panels = Fresh
    /\ last = Fresh
    /\ timer = FALSE
    /\ err = FALSE
    /\ rev = 1
    /\ calls = {}
    /\ notes = {}
    /\ server = [grid |-> Fresh, rev |-> 1, n |-> 0]
    /\ agent = NoGrid
    /\ seen = 0
    /\ odd = {}
    /\ edits = 0
    /\ foreign = 0
    /\ faults = 0
    /\ late = {}

Next ==
    \/ Edit \/ Send \/ Retry
    \/ \E c \in calls :
        Saved(c) \/ SaveFails(c) \/ ServerSaves(c) \/ CallFails(c)
    \/ \E m \in notes : Notified(m)
    \/ \E g \in late : SavesLate(g)
    \/ AgentReads \/ AgentWrites \/ Reload

Spec == Init /\ [][Next]_vars
---------------------------------------------------------------------------
(* Properties *)

Grids == Seq(Panels)

(* Types of both copies of the grid and of what travels between them. *)
TypeOK ==
    /\ panels \in Grids /\ last \in Grids /\ agent \in Grids
    /\ timer \in BOOLEAN /\ err \in BOOLEAN
    /\ rev \in Nat /\ seen \in Nat
    /\ calls \subseteq [id : Nat, grid : Grids, prev : Grids,
                        st : {"sent", "saved", "failed"}, at : Nat]
    /\ notes \subseteq [grid : Grids, rev : Nat, at : Nat]
    /\ server \in [grid : Grids, rev : Nat, n : Nat]
    /\ late \subseteq Grids /\ odd \subseteq {"overlap", "reorder"}
    /\ edits \in Nat /\ foreign \in Nat /\ faults \in Nat

(* Every copy of the grid, also one that an agent or a late reply brings     *)
(* back, has one to MaxPanels panels with different ids                      *)
(* (useChartsSync.ts:60-61).                                                 *)
Sound(g) == /\ Len(g) \in 1 .. MaxPanels
            /\ Cardinality(IdsOf(g)) = Len(g)

GridIsSound ==
    /\ Sound(panels) /\ Sound(server.grid)
    /\ \A c \in calls : Sound(c.grid)
    /\ \A m \in notes : Sound(m.grid)
    /\ \A g \in late : Sound(g)

AtRest == ~timer /\ calls = {} /\ notes = {}

(* "Persistence failures are NOT silent" (useChartsSync.ts:8): with nothing  *)
(* under way the screen shows the server's grid, or the error.               *)
NeverSilent == AtRest => panels = server.grid \/ err

(* It is so whenever saves do not overlap with other changes, a save that    *)
(* was given up on is not made after the error is gone, and payloads come in *)
(* the order of their writes, whatever is refused or lost.                   *)
NotSilentInOrder == odd = {} => NeverSilent

(* The answer to a save never takes an edit off the screen that was made     *)
(* while it was under way.                                                   *)
EchoKeepsEdits ==
    [][\A c \in calls : (c \notin calls' /\ odd' = {}) => panels' = panels /\ timer' = timer]_vars
=============================================================================
