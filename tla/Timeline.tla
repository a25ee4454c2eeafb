------------------------------ MODULE Timeline ------------------------------
(* Playback of the Over time view of the graph explorer.  The server loads a *)
(* bucketed range and, for each edge, the buckets with transfers; the        *)
(* browser slides a window of buckets over the axis, by hand or by a timer,  *)
(* and draws the edges active in it.  Cursor and playback are local to the   *)
(* view and die with it, but for the cursor in the URL (?tcur=); the width   *)
(* of the window is a copy of the server's, which any adoption restores.     *)
(*                                                                           *)
(* A bucket of the axis is a number; positions on the axis count from 0.     *)
EXTENDS Integers, FiniteSets, FiniteSetsExt

CONSTANTS
    Edges,      \* edges of the graph
    Starts,     \* first buckets a load may have
    MaxLen,     \* bound: buckets of a load
    Windows,    \* WINDOW_OPTIONS
    Default,    \* TIMELINE_DEFAULT_WINDOW_BUCKETS
    DeepLinks,  \* cursors the URL may have at boot; 0 for none
    None,       \* no rows, no load
    MaxActs     \* bound: actions of analyst and agent, and loads

ASSUME TimelineAssumption ==
    /\ Starts \subseteq Nat \ {0} /\ MaxLen \in Nat \ {0}
    /\ Windows \subseteq Nat \ {0} /\ Default \in Windows
    /\ DeepLinks \subseteq Nat /\ MaxActs \in Nat

VARIABLES
    axis,    \* the loaded range: first bucket and number of buckets
    rows,    \* the hydrated buckets of each edge, or None
    win,     \* timelineWindowBuckets
    srvWin,  \* the server's window_buckets
    asked,   \* window_buckets as the load under way read it, or None
    hook,    \* the state of useTimelineFilter
    url,     \* the cursor in the URL, 0 for none
    shown,   \* history: positions drawn since playback began
    acts

vars == <<axis, rows, win, srvWin, asked, hook, url, shown, acts>>

---------------------------------------------------------------------------
(* The axis *)

NoAxis == [start |-> 0, len |-> 0]
Axes == [start : Starts, len : 1 .. MaxLen]

Buckets(a) == a.start .. a.start + a.len - 1
LastIdx(a) == Max({1, a.len}) - 1

(* What a load returns for an edge: a row for each bucket of the range with  *)
(* transfers; each row begins and ends in its bucket.                        *)
Flows(a) == SUBSET Buckets(a)

---------------------------------------------------------------------------
(* buildTimelineIndex and computeFrame *)

(* clampIdx: the position of a bucket on the axis. *)
Idx(a, b) == b - a.start

InWindow(c, w, i) == c <= i /\ i <= c + w - 1

(* The edges a frame lights up. *)
Lit(a, r, c, w) == {e \in Edges : \E b \in r[e] : InWindow(c, w, Idx(a, b))}

---------------------------------------------------------------------------
(* useTimelineFilter *)

MaxCursor(a, w) == IF a.len > w THEN a.len - w ELSE 0

KeyOf(a, w) == [start |-> a.start, len |-> a.len, win |-> w]

(* The state hooks when the view is mounted with a cursor in the URL. *)
Mount(a, w, link) ==
    [cursor  |-> IF link \in 1 .. MaxCursor(a, w) THEN link ELSE MaxCursor(a, w),
     playing |-> FALSE,
     key     |-> KeyOf(a, w),
     link    |-> link,
     used    |-> a.len > 0]

\* Faulty: the effect does not depend on the window.
RekeyWithoutWindow(h, a, w) ==
    IF h.key.start = a.start /\ h.key.len = a.len THEN h
    ELSE [cursor  |-> IF ~h.used /\ h.link \in 1 .. MaxCursor(a, w)
                      THEN h.link ELSE MaxCursor(a, w),
          playing |-> FALSE, key |-> KeyOf(a, w), link |-> h.link, used |-> TRUE]

(* The effect on a new axis key: the cursor goes to the latest window, or,   *)
(* for the first key, to the deep link; playback stops.                      *)
Rekey(h, a, w) ==
    IF h.key = KeyOf(a, w) THEN h
    ELSE [cursor  |-> IF ~h.used /\ h.link \in 1 .. MaxCursor(a, w)
                      THEN h.link ELSE MaxCursor(a, w),
          playing |-> FALSE, key |-> KeyOf(a, w), link |-> h.link, used |-> TRUE]

\* Faulty: the URL is written while playback runs, and not when it stops.
UrlOfPlaying(h, a, w, old) ==
    IF ~h.playing THEN old
    ELSE IF h.cursor > 0 /\ h.cursor # MaxCursor(a, w) THEN h.cursor ELSE 0

(* The effect that keeps ?tcur=. *)
UrlOf(h, a, w, old) ==
    IF h.playing THEN old
    ELSE IF h.cursor > 0 /\ h.cursor # MaxCursor(a, w) THEN h.cursor ELSE 0

Frame(h, a, w) == h.cursor .. Min({h.cursor + w - 1, LastIdx(a)})

(* A render with its effects. *)
Render(h, a, w) ==
    /\ hook' = h
    /\ axis' = a
    /\ win' = w
    /\ url' = UrlOf(h, a, w, url)
    /\ shown' = IF ~h.playing THEN shown
                ELSE IF hook.playing /\ h.cursor - hook.cursor \in {0, 1}
                THEN shown \cup Frame(h, a, w)
                ELSE Frame(h, a, w)

---------------------------------------------------------------------------
(* Actions *)

Act == acts < MaxActs /\ acts' = acts + 1

Stale == asked # None

(* load_graph_timeline reads the state, ... *)
Ask ==
    /\ Act
    /\ ~Stale
    /\ asked' = srvWin
    /\ UNCHANGED <<axis, rows, win, srvWin, hook, url, shown>>

(* ... and commits the range together with the window it read.  The view     *)
(* renders the range with its own window first, then adopts the server's.    *)
Load(a) ==
    /\ Stale
    /\ srvWin' = asked
    /\ asked' = None
    /\ rows' = None
    /\ Render(Rekey(Rekey(hook, a, win), a, asked), a, asked)
    /\ UNCHANGED acts

(* The rows arrive, page by page; none is drawn before the last. *)
Hydrate ==
    /\ rows = None /\ axis.len > 0
    /\ rows' \in [Edges -> Flows(axis)]
    /\ UNCHANGED <<axis, win, srvWin, asked, hook, url, shown, acts>>

(* New data of any kind, the evidence of a selection too, are adopted with   *)
(* the server's window.                                                      *)
Adopt ==
    /\ Act
    /\ Render(Rekey(hook, axis, srvWin), axis, srvWin)
    /\ UNCHANGED <<rows, srvWin, asked>>

(* A load that fails gives its draft controls back, the window with them.    *)
LoadFails ==
    /\ Stale
    /\ asked' = None
    /\ Render(Rekey(hook, axis, srvWin), axis, srvWin)
    /\ UNCHANGED <<rows, srvWin, acts>>

(* SET_TIMELINE_WINDOW *)
SetWindow(w) ==
    /\ Act
    /\ w # win
    /\ Render(Rekey(hook, axis, w), axis, w)
    /\ UNCHANGED <<rows, srvWin, asked>>

(* The agent patches the server's window; the view does not adopt it yet. *)
PatchWindow(w) ==
    /\ Act
    /\ srvWin' = w
    /\ UNCHANGED <<axis, rows, win, asked, hook, url, shown>>

SetCursor(c) ==
    /\ Act
    /\ axis.len > 0 /\ ~Stale
    /\ Render([hook EXCEPT !.cursor = c], axis, win)
    /\ UNCHANGED <<rows, srvWin, asked>>

(* togglePlay: at the end playback starts over.  While a load is under way   *)
(* the controls are disabled, and hiding the graph still stops playback.     *)
TogglePlay ==
    /\ Act
    /\ axis.len > 0
    /\ Stale => hook.playing
    /\ LET end == MaxCursor(axis, win) IN
       Render([hook EXCEPT !.playing = ~@,
                           !.cursor = IF ~hook.playing /\ @ >= end /\ end > 0
                                      THEN 0 ELSE @], axis, win)
    /\ UNCHANGED <<rows, srvWin, asked>>

\* Faulty: stops one window early.
StepsEarly(h, a, w) ==
    IF h.cursor + 1 >= MaxCursor(a, w) THEN [h EXCEPT !.playing = FALSE]
    ELSE [h EXCEPT !.cursor = @ + 1]

\* Faulty: at the end playback stays on.
StepsOn(h, a, w) ==
    IF h.cursor >= MaxCursor(a, w) THEN h ELSE [h EXCEPT !.cursor = @ + 1]

(* One tick of the playback timer. *)
Steps(h, a, w) ==
    IF h.cursor >= MaxCursor(a, w) THEN [h EXCEPT !.playing = FALSE]
    ELSE [h EXCEPT !.cursor = @ + 1]

Tick ==
    /\ hook.playing
    /\ Render(Steps(hook, axis, win), axis, win)
    /\ UNCHANGED <<rows, srvWin, asked, acts>>

(* The view is left for another tab, and mounted again. *)
Remount ==
    /\ Act
    /\ Render(Mount(axis, win, url), axis, win)
    /\ UNCHANGED <<rows, srvWin, asked>>

Init ==
    /\ axis \in Axes \cup {NoAxis}
    /\ rows = None
    /\ win \in Windows
    /\ srvWin = Default
    /\ asked = None
    /\ \E link \in DeepLinks :
          /\ hook = Mount(axis, win, link)
          /\ url = UrlOf(hook, axis, win, link)
    /\ shown = {}
    /\ acts = 0

Next ==
    \/ \E a \in Axes : Load(a)
    \/ \E w \in Windows : SetWindow(w) \/ PatchWindow(w)
    \/ \E c \in 0 .. MaxCursor(axis, win) : SetCursor(c)
    \/ Ask
    \/ LoadFails
    \/ Hydrate
    \/ Adopt
    \/ TogglePlay
    \/ Tick
    \/ Remount

Spec == Init /\ [][Next]_vars

(* setInterval: the timer ticks as long as playback is on. *)
FairSpec == Spec /\ WF_vars(Tick)

---------------------------------------------------------------------------
(* Properties *)

(* The cursor is on the axis, whatever becomes of axis and window under it:  *)
(* a window of full width fits behind it, or the axis is shorter than that.  *)
TypeOK ==
    /\ axis \in Axes \cup {NoAxis}
    /\ win \in Windows /\ srvWin \in Windows /\ asked \in Windows \cup {None}
    /\ rows = None \/ rows \in [Edges -> Flows(axis)]
    /\ hook.playing \in BOOLEAN /\ hook.used \in BOOLEAN /\ hook.link \in Nat
    /\ hook.key = KeyOf(axis, win)
    /\ hook.cursor \in 0 .. MaxCursor(axis, win)
    /\ url \in Nat /\ shown \subseteq 0 .. MaxLen
    /\ acts \in Nat

(* A frame is a whole window of the axis, or the axis when it is shorter,    *)
(* whoever has changed axis and window under the cursor, and it lights the   *)
(* edges with transfers in it (useTimelineFilter.ts:79-101).                 *)
FrameIsExact ==
    rows # None =>
        LET drawn == hook.cursor .. hook.cursor + Min({win, axis.len}) - 1 IN
        /\ drawn \subseteq 0 .. LastIdx(axis)
        /\ Lit(axis, rows, hook.cursor, win) =
               {e \in Edges : \E i \in drawn : axis.start + i \in rows[e]}

(* Playback that ends by itself has drawn every bucket from the one it began *)
(* with to the last.                                                         *)
ShowsAll ==
    [][Tick /\ ~hook'.playing => Min(shown) .. LastIdx(axis) \subseteq shown]_vars

(* Playback ends, whatever is loaded, adopted or scrubbed meanwhile.         *)
PlaybackEnds == hook.playing ~> ~hook.playing

(* A cursor that stands still survives leaving the view, by the URL; not at  *)
(* the first bucket, which has no ?tcur= (TimelineView.tsx:685-713).         *)
CursorSurvives ==
    [][Remount /\ ~hook.playing /\ hook.cursor > 0
           => hook'.cursor = hook.cursor]_vars

(* "Deep-linked cursor (?tcur=) - applied to the FIRST axis only; later      *)
(* loads/grain changes reset to the latest window"                           *)
(* (useTimelineFilter.ts:43-44).                                             *)
DeepLinkApplied ==
    [][axis.len = 0 /\ axis'.len > 0 /\ hook.link \in 1 .. MaxCursor(axis', win)
           => hook'.cursor = hook.link]_vars
=============================================================================
