------------------------ MODULE GraphExplorerProofs ------------------------
(* Proofs about the graph explorer, for any tabs, nodes, preferences, data   *)
(* windows, edges, ranges and bounds.                                        *)
(*                                                                           *)
(* The shared state (GraphSync): types, that browser and server come to the  *)
(* same tab, selection and preferences, and that a load moves no focus.      *)
(* Three inductive invariants: Base relates the channels and the timer to    *)
(* the state; SavesAgree, while saves are ordered, relates every place that  *)
(* holds preferences to the server's; FocusAgree, while focus commands are   *)
(* ordered, relates the newest command, the two mode revisions and the       *)
(* snapshot that a load brings.                                              *)
(*                                                                           *)
(* Playback (Timeline): types, what a frame shows, what playback has         *)
(* drawn when it ends, and the cursor that survives leaving the view.  The   *)
(* inductive invariant relates the cursor to its two copies, the URL and the *)
(* run of drawn positions.                                                   *)
EXTENDS GraphSync, Timeline, TLAPS

---------------------------------------------------------------------------
(* Operators: the local state, the channels, the view *)

(* Moving the tab and its selection (graphReducer.ts:254-263) changes no     *)
(* other part of the local state.                                            *)
LEMMA FocusedFacts ==
    ASSUME NEW l \in Local, NEW m \in Modes, NEW s \in Selections
    PROVE  /\ Focused(l, m, s) \in Local
           /\ Focused(l, m, s).mode = m /\ Sel(Focused(l, m, s)) = s
           /\ Focused(l, m, s).rev = l.rev /\ Focused(l, m, s).pref = l.pref
           /\ Focused(l, m, s).window = l.window
<1>1. PICK f : f = Focused(l, m, s)
  OBVIOUS
<1>2. l.mem \in [Modes -> Selections] /\ l.mode \in Modes /\ l.rev \in Nat
      /\ l.pref \in Prefs /\ l.window \in DataWindows
  BY DEF Local
<1>3. f = [mode |-> m, rev |-> l.rev, mem |-> [l.mem EXCEPT ![m] = s],
           pref |-> l.pref, window |-> l.window]
  BY <1>1 DEF Focused, Local
<1>4. [l.mem EXCEPT ![m] = s] \in [Modes -> Selections]
      /\ [l.mem EXCEPT ![m] = s][m] = s
  BY <1>2
<1>5. f \in Local /\ f.mode = m /\ Sel(f) = s /\ f.rev = l.rev
      /\ f.pref = l.pref /\ f.window = l.window
  BY <1>2, <1>3, <1>4 DEF Local, Sel
<1>6. QED
  BY <1>1, <1>5

(* adoptServerState (graphReducer.ts) takes tab and selection with a newer   *)
(* mode command only, and everything else always.                            *)
LEMMA AdoptFacts ==
    ASSUME NEW l \in Local, NEW v \in Server
    PROVE  /\ AdoptServer(l, v) \in Local
           /\ AdoptServer(l, v).rev = v.rev /\ AdoptServer(l, v).pref = v.pref
           /\ AdoptServer(l, v).mode = (IF v.rev > l.rev THEN v.mode ELSE l.mode)
           /\ Sel(AdoptServer(l, v)) = (IF v.rev > l.rev THEN v.sel ELSE Sel(l))
<1>1. PICK b : b = (IF v.rev > l.rev THEN Focused(l, v.mode, v.sel) ELSE l)
  OBVIOUS
<1>2. v.mode \in Modes /\ v.sel \in Selections /\ v.rev \in Nat
      /\ v.pref \in Prefs /\ v.window \in DataWindows
  BY DEF Server
<1>3. b \in Local /\ b.mode = (IF v.rev > l.rev THEN v.mode ELSE l.mode)
      /\ Sel(b) = (IF v.rev > l.rev THEN v.sel ELSE Sel(l))
  BY <1>1, <1>2, FocusedFacts
<1>4. PICK a : a = AdoptServer(l, v)
  OBVIOUS
<1>5. a = [b EXCEPT !.rev = v.rev, !.pref = v.pref, !.window = v.window]
  BY <1>1, <1>4 DEF AdoptServer
<1>6. a = [mode |-> b.mode, rev |-> v.rev, mem |-> b.mem, pref |-> v.pref,
           window |-> v.window]
  BY <1>3, <1>5 DEF Local
<1>7. a \in Local /\ a.rev = v.rev /\ a.pref = v.pref /\ a.mode = b.mode
      /\ a.mem = b.mem
  BY <1>2, <1>3, <1>6 DEF Local
<1>8. QED
  BY <1>3, <1>4, <1>7 DEF Sel

(* Whether a save is due is told from the preferences sent last              *)
(* (useGraphSync.ts:126-127).                                                *)
LEMMA DueFacts ==
    ASSUME NEW l \in Local, NEW v \in Server, NEW p \in Prefs
    PROVE  /\ Due(l, v, p) \in [on : BOOLEAN, applied : Prefs]
           /\ Due(l, v, p).on <=> l.pref # p
           /\ Due(l, v, p).applied = v.pref
           /\ NotDue(v) \in [on : BOOLEAN, applied : Prefs]
           /\ ~NotDue(v).on /\ NotDue(v).applied = v.pref
  BY DEF Due, NotDue, Local, Server

(* What the browser holds after it received the view v                       *)
(* (useGraphSync.ts:83-113).                                                 *)
LEMMA ReceiveFacts ==
    ASSUME NEW v \in Server, Receive(v), SyncTypeOK
    PROVE  /\ view' = v /\ local' \in Local /\ seen' \in Nat /\ err' \in BOOLEAN
           /\ timer' \in [on : BOOLEAN, applied : Prefs]
           /\ seen' >= seen /\ seen' >= v.n /\ (v.n < seen => seen' = seen)
           /\ local'.rev = (IF v.data # view.data THEN v.rev ELSE local.rev)
           /\ local'.mode = (IF v.data # view.data /\ v.rev > local.rev
                             THEN v.mode ELSE local.mode)
           /\ Sel(local') = (IF v.data # view.data /\ v.rev > local.rev
                             THEN v.sel ELSE Sel(local))
           /\ last' = v.pref
           /\ \/ ~timer'.on /\ local'.pref = last'
              \/ timer' = timer /\ local'.pref = local.pref /\ last' = last
<1>1. local \in Local /\ view \in Server /\ seen \in Nat /\ last \in Prefs
      /\ err \in BOOLEAN /\ timer \in [on : BOOLEAN, applied : Prefs]
      /\ v.pref \in Prefs /\ v.n \in Nat /\ v.rev \in Nat
  BY DEF SyncTypeOK, Server
<1>2. view' = v /\ seen' = IF v.n > seen THEN v.n ELSE seen
  BY DEF Receive
<1>3. NotDue(v) \in [on : BOOLEAN, applied : Prefs] /\ ~NotDue(v).on
  BY <1>1, DueFacts
<1>4. CASE v.data # view.data
  <2>1. local' = AdoptServer(local, v) /\ last' = v.pref /\ timer' = NotDue(v)
        /\ err' = FALSE
    BY <1>4 DEF Receive
  <2>2. PICK l : l = AdoptServer(local, v)
    OBVIOUS
  <2>3. /\ l \in Local /\ l.rev = v.rev /\ l.pref = v.pref
        /\ l.mode = (IF v.rev > local.rev THEN v.mode ELSE local.mode)
        /\ Sel(l) = (IF v.rev > local.rev THEN v.sel ELSE Sel(local))
    BY <1>1, <2>2, AdoptFacts
  <2>4. local' = l
    BY <2>1, <2>2
  <2>5. local' \in Local /\ local'.rev = v.rev /\ local'.pref = v.pref
    BY <2>3, <2>4
  <2>6. /\ local'.mode = (IF v.rev > local.rev THEN v.mode ELSE local.mode)
        /\ Sel(local') = (IF v.rev > local.rev THEN v.sel ELSE Sel(local))
    BY <2>3, <2>4
  <2>7. ~timer'.on /\ timer' \in [on : BOOLEAN, applied : Prefs]
    BY <1>3, <2>1
  <2>8. seen' \in Nat /\ seen' >= seen /\ seen' >= v.n
        /\ (v.n < seen => seen' = seen)
    BY <1>1, <1>2
  <2>9. QED
    BY <1>2, <1>4, <2>1, <2>5, <2>6, <2>7, <2>8
<1>5. CASE v.data = view.data /\ v.pref # last
  <2>1. local' = [local EXCEPT !.pref = v.pref] /\ last' = v.pref
        /\ timer' = NotDue(v) /\ UNCHANGED err
    BY <1>5 DEF Receive
  <2>2. PICK l : l = local'
    OBVIOUS
  <2>3. l = [mode |-> local.mode, rev |-> local.rev, mem |-> local.mem,
             pref |-> v.pref, window |-> local.window]
    BY <1>1, <2>1, <2>2 DEF Local
  <2>4. l \in Local /\ l.rev = local.rev /\ l.mode = local.mode
        /\ l.mem = local.mem /\ l.pref = v.pref
    BY <1>1, <2>3 DEF Local
  <2>5. QED
    BY <1>1, <1>2, <1>3, <1>5, <2>1, <2>2, <2>4 DEF Sel
<1>6. CASE v.data = view.data /\ v.pref = last
  <2>1. UNCHANGED <<local, last, timer, err>>
    BY <1>6 DEF Receive
  <2>2. QED
    BY <1>1, <1>2, <1>6, <2>1
<1>7. QED
  BY <1>4, <1>5, <1>6

(* A request goes out at once on an idle channel and replaces the one that   *)
(* waits on a busy one (useSerializedLoader.ts).                             *)
LEMMA EnqueueFacts ==
    ASSUME NEW C, NEW ch \in Channel(C), NEW r,
           NEW q, q = [r EXCEPT !.id = ch.seq + 1], q \in C
    PROVE  /\ Enqueue(ch, r) \in Channel(C)
           /\ Enqueue(ch, r).active = IF ch.active = Nothing THEN q ELSE ch.active
           /\ Enqueue(ch, r).waiting = IF ch.active = Nothing THEN ch.waiting ELSE q
<1>1. PICK e : e = Enqueue(ch, r)
  OBVIOUS
<1>2. e = IF ch.active = Nothing
          THEN [ch EXCEPT !.seq = @ + 1, !.active = q]
          ELSE [ch EXCEPT !.seq = @ + 1, !.waiting = q]
  BY <1>1 DEF Enqueue
<1>3. e = [seq |-> ch.seq + 1, active |-> IF ch.active = Nothing THEN q ELSE ch.active,
           waiting |-> IF ch.active = Nothing THEN ch.waiting ELSE q]
  BY <1>2 DEF Channel
<1>4. ch.seq \in Nat /\ ch.active \in C \cup {Nothing} /\ ch.waiting \in C \cup {Nothing}
  BY DEF Channel
<1>5. QED
  BY <1>1, <1>3, <1>4 DEF Channel

(* The end of a call sends the waiting one, and catching up with the         *)
(* server's request ids moves neither (useSerializedLoader.ts).              *)
LEMMA FinishedFacts ==
    ASSUME NEW C, NEW ch \in Channel(C), NEW n \in Nat
    PROVE  /\ Finished(ch) \in Channel(C)
           /\ Finished(ch).active = ch.waiting /\ Finished(ch).waiting = Nothing
           /\ CaughtUp(ch, n) \in Channel(C)
           /\ CaughtUp(ch, n).active = ch.active
           /\ CaughtUp(ch, n).waiting = ch.waiting
  BY DEF Finished, CaughtUp, Channel

(* A focus command writes tab, mode revision and selection, and only the     *)
(* selection when it names no tab (ui_tools.py update_graph_explorer_focus). *)
LEMMA CommandedFacts ==
    ASSUME NEW s \in Server, NEW c, c.mode \in Modes \cup {Nothing},
           c.rev \in Nat, c.sel \in Selections
    PROVE  /\ Commanded(s, c) \in Server
           /\ Commanded(s, c).mode = IF c.mode = Nothing THEN s.mode ELSE c.mode
           /\ Commanded(s, c).rev = IF c.mode = Nothing THEN s.rev ELSE c.rev
           /\ Commanded(s, c).sel = c.sel
           /\ Commanded(s, c).pref = s.pref /\ Commanded(s, c).window = s.window
           /\ Commanded(s, c).data = s.data /\ Commanded(s, c).n = s.n
           /\ Commanded(s, c).req = s.req
  BY DEF Commanded, Server

---------------------------------------------------------------------------
(* Types *)

(* A focus command is issued unanswered, with the next request id            *)
(* (useSerializedLoader.ts enqueue).                                         *)
LEMMA NewCallFacts ==
    ASSUME NEW ch \in Channel(Calls), NEW m \in Modes \cup {Nothing},
           NEW s \in Selections
    PROVE  \E q \in Calls :
              /\ q = [FocusCall(m, s) EXCEPT !.id = ch.seq + 1]
              /\ q.st = "sent" /\ q.mode = m /\ q.sel = s /\ q.reply = Nothing
<1> DEFINE q == [id |-> ch.seq + 1, st |-> "sent", mode |-> m, sel |-> s,
                 rev |-> 0, reply |-> Nothing]
<1>1. ch.seq + 1 \in Nat
  BY DEF Channel
<1>2. q \in Calls
  BY <1>1 DEF Calls
<1>3. q = [FocusCall(m, s) EXCEPT !.id = ch.seq + 1]
  BY DEF FocusCall
<1>4. QED
  BY <1>2, <1>3

(* A load is issued unanswered, with the next request id. *)
LEMMA NewLoadFacts ==
    ASSUME NEW ch \in Channel(Loads), NEW w \in DataWindows
    PROVE  \E q \in Loads :
              /\ q = [LoadCall(w) EXCEPT !.id = ch.seq + 1]
              /\ q.st = "sent" /\ q.reply = Nothing
<1> DEFINE q == [id |-> ch.seq + 1, st |-> "sent", window |-> w,
                 reply |-> Nothing]
<1>1. ch.seq + 1 \in Nat
  BY DEF Channel
<1>2. q \in Loads
  BY <1>1 DEF Loads
<1>3. q = [LoadCall(w) EXCEPT !.id = ch.seq + 1]
  BY DEF LoadCall
<1>4. QED
  BY <1>2, <1>3

(* What the protocol does not order. *)
Oddities == {"overlap", "resave", "reorder", "restore", "lost", "unheard", "agent"}

(* A payload that comes out of order is one of them. *)
LEMMA OddFacts ==
    ASSUME NEW v, NEW t
    PROVE  Overlap \subseteq Oddities /\ Resave(t) \subseteq Oddities
           /\ Disordered(v) \subseteq Oddities
  BY DEF Overlap, Resave, Disordered, Oddities

(* No call, mode, selected node, preference or answer is Nothing. *)
LEMMA NothingFacts ==
    Nothing \notin Calls /\ Nothing \notin Loads /\ Nothing \notin Server
    /\ Nothing \notin Modes /\ Nothing \notin Prefs
  BY NothingIsNoCall, GraphAssumption

(* The state of a session just opened is typed. *)
LEMMA InitTypes == SyncInit => SyncTypeOK
<1> SUFFICES ASSUME SyncInit PROVE SyncTypeOK
  OBVIOUS
<1> USE GraphAssumption DEF SyncInit
<1>1. srv \in Server /\ view \in Server
  BY DEF Server, Selections
<1>2. local \in Local
  BY DEF Local, Selections
<1>3. focus \in Channel(Calls) /\ load \in Channel(Loads)
  BY DEF Channel, Idle
<1>4. timer \in [on : BOOLEAN, applied : Prefs]
  BY DEF NotDue
<1>5. QED
  BY <1>1, <1>2, <1>3, <1>4 DEF SyncTypeOK

---------------------------------------------------------------------------
(* Types *)

(* The types of the parts, one by one. *)
LEMMA TypeParts ==
    ASSUME SyncTypeOK
    PROVE  /\ local \in Local /\ local.mode \in Modes /\ Sel(local) \in Selections
           /\ view \in Server /\ srv \in Server
           /\ focus \in Channel(Calls) /\ load \in Channel(Loads)
           /\ focus.active # Nothing => focus.active \in Calls
           /\ focus.waiting # Nothing => focus.waiting \in Calls
           /\ load.active # Nothing => load.active \in Loads
           /\ timer \in [on : BOOLEAN, applied : Prefs] /\ last \in Prefs
  BY DEF SyncTypeOK, Channel, Local, Sel

(* What the user does in the panels keeps the types. *)
LEMMA UserTypes ==
    ASSUME SyncTypeOK, UserStep
    PROVE  SyncTypeOK'
<1>p. /\ local \in Local /\ local.mode \in Modes /\ Sel(local) \in Selections
      /\ view \in Server /\ srv \in Server
      /\ focus \in Channel(Calls) /\ load \in Channel(Loads)
      /\ timer \in [on : BOOLEAN, applied : Prefs] /\ last \in Prefs
  BY TypeParts
<1>q. saves \subseteq Saves /\ seen \in Nat /\ userActs \in Nat
      /\ failed \in Prefs \cup {Nothing}
  BY DEF SyncTypeOK
<1>a. /\ \A v : Overlap \subseteq Oddities /\ Resave(v) \subseteq Oddities
      /\ userActs + 1 \in Nat
  BY <1>q, OddFacts
<1>1. ASSUME NEW s \in Selections, SelectNode(s)
      PROVE  SyncTypeOK'
  <2>1. local' \in Local
    BY <1>p, <1>q, <1>1, FocusedFacts DEF SelectNode
  <2>2. timer' \in [on : BOOLEAN, applied : Prefs]
    BY <1>p, <1>q, <1>1, <2>1, DueFacts DEF SelectNode
  <2>3. focus' \in Channel(Calls)
    <3>1. PICK q \in Calls : q = [FocusCall(Nothing, s) EXCEPT !.id = focus.seq + 1]
      BY <1>p, <1>q, NewCallFacts
    <3>2. Enqueue(focus, FocusCall(Nothing, s)) \in Channel(Calls)
      BY <1>p, <1>q, <3>1, EnqueueFacts
    <3>3. QED
      BY <1>p, <1>q, <1>1, <3>2 DEF SelectNode
  <2>4. QED
    BY <1>p, <1>q, <1>1, <1>a, <2>1, <2>2, <2>3
       DEF SyncTypeOK, SelectNode, UserAct, Oddities
<1>2. ASSUME NEW m \in Modes, ChangeMode(m)
      PROVE  SyncTypeOK'
  <2>1. local' \in Local
    BY <1>p, <1>q, <1>2 DEF ChangeMode, Local
  <2>2. timer' \in [on : BOOLEAN, applied : Prefs]
    BY <1>p, <1>q, <1>2, <2>1, DueFacts DEF ChangeMode
  <2>3. focus' \in Channel(Calls)
    <3>0. local.mem[m] \in Selections
      BY <1>p, <1>q DEF Local
    <3>1. PICK q \in Calls :
             q = [FocusCall(m, local.mem[m]) EXCEPT !.id = focus.seq + 1]
      BY <1>p, <1>q, <3>0, NewCallFacts
    <3>2. Enqueue(focus, FocusCall(m, local.mem[m])) \in Channel(Calls)
      BY <1>p, <1>q, <3>1, EnqueueFacts
    <3>3. QED
      BY <1>p, <1>q, <1>2, <3>2 DEF ChangeMode
  <2>4. QED
    BY <1>p, <1>q, <1>2, <1>a, <2>1, <2>2, <2>3
       DEF SyncTypeOK, ChangeMode, UserAct, Oddities
<1>3. ASSUME NEW w \in DataWindows, AskLoad(w)
      PROVE  SyncTypeOK'
  <2>1. local' \in Local
    BY <1>p, <1>q, <1>3 DEF AskLoad, Local
  <2>2. timer' \in [on : BOOLEAN, applied : Prefs]
    BY <1>p, <1>q, <1>3, <2>1, DueFacts DEF AskLoad
  <2>3. load' \in Channel(Loads)
    <3>1. PICK q \in Loads : q = [LoadCall(w) EXCEPT !.id = load.seq + 1]
      BY <1>p, <1>q, NewLoadFacts
    <3>2. Enqueue(load, LoadCall(w)) \in Channel(Loads)
      BY <1>p, <1>q, <3>1, EnqueueFacts
    <3>3. QED
      BY <1>p, <1>q, <1>3, <3>2 DEF AskLoad
  <2>4. QED
    BY <1>p, <1>q, <1>3, <1>a, <2>1, <2>2, <2>3
       DEF SyncTypeOK, AskLoad, UserAct
<1>4. ASSUME NEW p \in Prefs, EditPref(p)
      PROVE  SyncTypeOK'
  <2>1. local' \in Local
    BY <1>p, <1>q, <1>4 DEF EditPref, Local
  <2>2. timer' \in [on : BOOLEAN, applied : Prefs]
    BY <1>p, <1>q, <1>4, <2>1, DueFacts DEF EditPref
  <2>3. QED
    BY <1>p, <1>q, <1>4, <1>a, <2>1, <2>2
       DEF SyncTypeOK, EditPref, UserAct, Oddities
<1>5. ASSUME Retry
      PROVE  SyncTypeOK'
  <2>1. local' \in Local
    BY <1>p, <1>q, <1>5 DEF Retry, Local
  <2>2. timer' \in [on : BOOLEAN, applied : Prefs]
    BY <1>p, <1>q, <1>5, <2>1, DueFacts DEF Retry
  <2>3. QED
    BY <1>p, <1>q, <1>5, <1>a, <2>1, <2>2 DEF SyncTypeOK, Retry, Oddities
<1>6. QED
  BY <1>1, <1>2, <1>3, <1>4, <1>5 DEF UserStep

(* So do the save, its answer and its failure (useGraphSync.ts). *)
LEMMA SaveTypes ==
    ASSUME SyncTypeOK, SaveStep
    PROVE  SyncTypeOK'
<1>p. /\ local \in Local /\ local.mode \in Modes /\ Sel(local) \in Selections
      /\ view \in Server /\ srv \in Server
      /\ focus \in Channel(Calls) /\ load \in Channel(Loads)
      /\ timer \in [on : BOOLEAN, applied : Prefs] /\ last \in Prefs
  BY TypeParts
<1>q. saves \subseteq Saves /\ seen \in Nat /\ userActs \in Nat
      /\ failed \in Prefs \cup {Nothing}
  BY DEF SyncTypeOK
<1>1. ASSUME Send
      PROVE  SyncTypeOK'
  <2>1. timer' \in [on : BOOLEAN, applied : Prefs]
    BY <1>p, <1>q, <1>1, DueFacts DEF Send
  <2>2. [id |-> userActs, was |-> local, applied |-> timer.applied,
         st |-> "sent", at |-> 0] \in Saves
    BY <1>p, <1>q DEF Saves
  <2>3. local.pref \in Prefs
    BY <1>p, <1>q DEF Local
  <2>4. QED
    BY <1>p, <1>q, <1>1, <2>1, <2>2, <2>3 DEF SyncTypeOK, Send
<1>2. ASSUME NEW c \in saves, ServerSaves(c)
      PROVE  SyncTypeOK'
  <2>1. c \in Saves /\ c.was.pref \in Prefs
    BY <1>p, <1>q DEF Saves, Local
  <2>0. srv.n + 1 \in Nat
    BY <1>p DEF Server
  <2>2. srv' \in Server
    <3>1. srv' = [srv EXCEPT !.pref = c.was.pref, !.n = srv.n + 1]
      BY <1>2 DEF ServerSaves
    <3>2. QED
      BY <1>p, <2>0, <2>1, <3>1 DEF Server
  <2>3. [c EXCEPT !.st = "saved", !.at = srv.n + 1] \in Saves
    BY <2>0, <2>1 DEF Saves
  <2>4. QED
    BY <1>p, <1>q, <1>2, <2>2, <2>3 DEF SyncTypeOK, ServerSaves
<1>3. ASSUME NEW c \in saves, Saved(c)
      PROVE  SyncTypeOK'
  <2>1. c \in Saves /\ c.was.pref \in Prefs /\ c.at \in Nat
    BY <1>p, <1>q DEF Saves, Local
  <2>2. PICK v : v = [view EXCEPT !.pref = c.was.pref, !.n = c.at]
    OBVIOUS
  <2>3. v \in Server /\ v.pref = c.was.pref
    BY <1>p, <1>q, <2>1, <2>2 DEF Server
  <2>4. local' \in Local
    <3>1. local' = local \/ local' = [local EXCEPT !.pref = v.pref]
      BY <1>3, <2>2 DEF Saved
    <3>2. QED
      BY <1>p, <2>1, <2>3, <3>1 DEF Local
  <2>5. timer' \in [on : BOOLEAN, applied : Prefs] /\ last' \in Prefs
    BY <1>p, <1>q, <1>3, <2>1, <2>2, <2>3, DueFacts DEF Saved
  <2>6. seen' \in Nat /\ view' \in Server /\ odd' \subseteq odd \cup Oddities
    BY <1>p, <1>q, <1>3, <2>1, <2>2, <2>3, OddFacts DEF Saved
  <2>7. QED
    BY <1>p, <1>q, <1>3, <2>4, <2>5, <2>6 DEF SyncTypeOK, Saved, Oddities
<1>4. ASSUME NEW c \in saves, SaveFails(c)
      PROVE  SyncTypeOK'
  <2>1. c \in Saves /\ c.was \in Local /\ c.was.pref \in Prefs /\ c.applied \in Prefs
    BY <1>p, <1>q DEF Saves, Local
  <2>2. c.was.mode \in Modes /\ Sel(c.was) \in Selections /\ c.was.rev \in Nat
        /\ c.was.window \in DataWindows
    BY <1>p, <1>q, <2>1 DEF Local, Sel
  <2>3. PICK f : f = Focused(local, c.was.mode, Sel(c.was))
    OBVIOUS
  <2>4. f \in Local
    BY <1>p, <1>q, <2>2, <2>3, FocusedFacts
  <2>5. local' = [f EXCEPT !.rev = c.was.rev, !.window = c.was.window,
                           !.pref = c.applied]
    BY <1>p, <1>q, <1>4, <2>3 DEF SaveFails
  <2>6. local' \in Local
    BY <1>p, <1>q, <2>1, <2>2, <2>4, <2>5 DEF Local
  <2>7. timer' \in [on : BOOLEAN, applied : Prefs]
    BY <1>p, <1>q, <1>4, DueFacts DEF SaveFails
  <2>8. QED
    BY <1>p, <1>q, <1>4, <2>1, <2>6, <2>7 DEF SyncTypeOK, SaveFails
<1>5. QED
  BY <1>1, <1>2, <1>3, <1>4 DEF SaveStep

(* The patch of a focus answer is a view: tab, revision and selection as     *)
(* commanded, data revision, request id and write of the answer.             *)
LEMMA FocusReplyTypes ==
    ASSUME SyncTypeOK, NEW c, c.mode \in Modes \cup {Nothing}, c.rev \in Nat,
           c.sel \in Selections, c.id \in Nat, c.reply \in Server
    PROVE  /\ FocusReply(c) \in Server
           /\ FocusReply(c).mode = IF c.mode = Nothing THEN view.mode ELSE c.mode
           /\ FocusReply(c).rev = IF c.mode = Nothing THEN view.rev ELSE c.rev
           /\ FocusReply(c).sel = c.sel /\ FocusReply(c).pref = view.pref
           /\ FocusReply(c).data = c.reply.data /\ FocusReply(c).n = c.reply.n
           /\ FocusReply(c).req = c.id
<1>1. PICK s : s = Commanded(view, c)
  OBVIOUS
<1>2. /\ s \in Server /\ s.sel = c.sel /\ s.pref = view.pref
      /\ s.mode = IF c.mode = Nothing THEN view.mode ELSE c.mode
      /\ s.rev = IF c.mode = Nothing THEN view.rev ELSE c.rev
  BY <1>1, TypeParts, CommandedFacts
<1>3. PICK v : v = FocusReply(c)
  OBVIOUS
<1>4. v = [s EXCEPT !.data = c.reply.data, !.req = c.id, !.n = c.reply.n]
  BY <1>1, <1>3 DEF FocusReply
<1>5. v = [mode |-> s.mode, rev |-> s.rev, sel |-> s.sel, pref |-> s.pref,
           window |-> s.window, data |-> c.reply.data, req |-> c.id,
           n |-> c.reply.n]
  BY <1>2, <1>4 DEF Server
<1>6. c.reply.data \in Nat /\ c.reply.n \in Nat
  BY DEF Server
<1>7. v \in Server /\ v.mode = s.mode /\ v.rev = s.rev /\ v.sel = s.sel
      /\ v.pref = s.pref /\ v.data = c.reply.data /\ v.n = c.reply.n
      /\ v.req = c.id
  BY <1>2, <1>5, <1>6 DEF Server
<1>8. QED
  BY <1>2, <1>3, <1>7

(* Replacing the active request leaves the waiting one. *)
LEMMA ActiveFacts ==
    ASSUME NEW C, NEW ch \in Channel(C), NEW q \in C
    PROVE  /\ [ch EXCEPT !.active = q] \in Channel(C)
           /\ [ch EXCEPT !.active = q].active = q
           /\ [ch EXCEPT !.active = q].waiting = ch.waiting
  BY DEF Channel

---------------------------------------------------------------------------
(* Shapes of the steps *)

(* What Reserve makes of the command and of the server. *)
LEMMA ReserveFacts ==
    ASSUME SyncTypeOK, Reserve
    PROVE  /\ focus.active \in Calls
           /\ focus' \in Channel(Calls) /\ focus'.active \in Calls
           /\ focus'.waiting = focus.waiting
           /\ focus'.active.st = "reserved"
           /\ focus'.active.mode = focus.active.mode
           /\ focus'.active.sel = focus.active.sel
           /\ focus'.active.reply = focus.active.reply
           /\ focus'.active.rev = srv.rev + 1
           /\ focus'.active.id = srv'.req
           /\ srv' \in Server
           /\ srv'.mode = srv.mode /\ srv'.rev = srv.rev /\ srv'.sel = srv.sel
           /\ srv'.pref = srv.pref /\ srv'.data = srv.data /\ srv'.n = srv.n
<1>1. PICK c : c = focus.active
  OBVIOUS
<1>2. c \in Calls /\ srv \in Server /\ focus \in Channel(Calls)
  BY <1>1, TypeParts DEF Reserve
<1>3. c.id \in Nat /\ srv.req \in Nat /\ srv.req + 1 \in Nat /\ srv.rev + 1 \in Nat
  BY <1>2 DEF Calls, Server
<1>4. PICK e : e = Effective(c)
  OBVIOUS
<1>5. e \in Nat
  BY <1>3, <1>4 DEF Effective
<1>6. PICK q : q = [c EXCEPT !.st = "reserved", !.id = e, !.rev = srv.rev + 1]
  OBVIOUS
<1>7. q = [id |-> e, st |-> "reserved", mode |-> c.mode, sel |-> c.sel,
           rev |-> srv.rev + 1, reply |-> c.reply]
  BY <1>2, <1>6 DEF Calls
<1>8. q \in Calls /\ q.st = "reserved" /\ q.mode = c.mode /\ q.sel = c.sel
      /\ q.reply = c.reply /\ q.rev = srv.rev + 1 /\ q.id = e
  BY <1>2, <1>3, <1>5, <1>7 DEF Calls
<1>9. focus' = [focus EXCEPT !.active = q]
  BY <1>1, <1>2, <1>4, <1>6 DEF Reserve, Channel
<1>10. focus' \in Channel(Calls) /\ focus'.active = q
       /\ focus'.waiting = focus.waiting
  BY <1>2, <1>8, <1>9, ActiveFacts
<1>11. srv' = [srv EXCEPT !.req = e]
  BY <1>1, <1>4 DEF Reserve
<1>12. srv' \in Server /\ srv'.mode = srv.mode /\ srv'.rev = srv.rev
       /\ srv'.sel = srv.sel /\ srv'.pref = srv.pref /\ srv'.data = srv.data
       /\ srv'.n = srv.n /\ srv'.req = e
  BY <1>2, <1>5, <1>11 DEF Server
<1>13. QED
  BY <1>1, <1>2, <1>8, <1>10, <1>12

(* A call that fails keeps all but its state. *)
Failing(ch, f) == f = [ch EXCEPT !.active.st = "failed"]

(* So a failed focus call still says what it commanded. *)
LEMMA FailedFacts ==
    ASSUME NEW ch \in Channel(Calls), ch.active # Nothing,
           NEW f, Failing(ch, f)
    PROVE  /\ f \in Channel(Calls) /\ f.waiting = ch.waiting
           /\ f.active \in Calls /\ f.active.st = "failed"
           /\ f.active.mode = ch.active.mode /\ f.active.sel = ch.active.sel
           /\ f.active.rev = ch.active.rev /\ f.active.id = ch.active.id
           /\ f.active.reply = ch.active.reply
<1>1. PICK c : c = ch.active
  OBVIOUS
<1>2. c \in Calls
  BY <1>1 DEF Channel
<1>3. PICK q : q = [c EXCEPT !.st = "failed"]
  OBVIOUS
<1>4. q \in Calls /\ q.st = "failed" /\ q.mode = c.mode /\ q.sel = c.sel
      /\ q.rev = c.rev /\ q.id = c.id /\ q.reply = c.reply
  BY <1>2, <1>3 DEF Calls
<1>5. f = [ch EXCEPT !.active = q]
  BY <1>1, <1>3 DEF Channel, Failing
<1>6. f \in Channel(Calls) /\ f.active = q /\ f.waiting = ch.waiting
  BY <1>4, <1>5, ActiveFacts
<1>7. QED
  BY <1>1, <1>4, <1>6

(* The commit of a focus command writes what it commands, or, overtaken,     *)
(* nothing; its reply is the server.                                         *)
LEMMA CommitFacts ==
    ASSUME SyncTypeOK, FocusCommit
    PROVE  LET c == focus.active IN
           /\ c \in Calls
           /\ focus' \in Channel(Calls) /\ focus'.active \in Calls
           /\ focus'.waiting = focus.waiting
           /\ focus'.active.st = "replied" /\ focus'.active.rev = c.rev
           /\ focus'.active.reply = srv' /\ focus'.active.sel = srv'.sel
           /\ srv' \in Server /\ srv'.pref = srv.pref /\ srv'.req = srv.req
           /\ srv.n <= srv'.n
           /\ c.id >= srv.req =>
                 /\ focus'.active.mode = c.mode
                 /\ srv'.mode = (IF c.mode = Nothing THEN srv.mode ELSE c.mode)
                 /\ srv'.rev = (IF c.mode = Nothing THEN srv.rev ELSE c.rev)
                 /\ srv'.sel = c.sel
                 /\ srv'.data = srv.data + 1 /\ srv'.n = srv.n + 1
<1>1. PICK c : c = focus.active
  OBVIOUS
<1>2. c \in Calls /\ srv \in Server /\ focus \in Channel(Calls)
  BY <1>1, TypeParts DEF FocusCommit
<1>3. c.id \in Nat /\ c.rev \in Nat /\ c.mode \in Modes \cup {Nothing}
      /\ c.sel \in Selections /\ srv.req \in Nat /\ srv.data \in Nat /\ srv.n \in Nat
  BY <1>2 DEF Calls, Server
<1>4. PICK d : d = Commanded(srv, c)
  OBVIOUS
<1>5. /\ d \in Server /\ d.sel = c.sel /\ d.pref = srv.pref
      /\ d.mode = (IF c.mode = Nothing THEN srv.mode ELSE c.mode)
      /\ d.rev = (IF c.mode = Nothing THEN srv.rev ELSE c.rev)
      /\ d.data = srv.data /\ d.n = srv.n /\ d.req = srv.req
  BY <1>2, <1>3, <1>4, CommandedFacts
<1>6. PICK w : w = [d EXCEPT !.data = @ + 1, !.n = @ + 1]
  OBVIOUS
<1>7. w = [mode |-> d.mode, rev |-> d.rev, sel |-> d.sel, pref |-> d.pref,
           window |-> d.window, data |-> srv.data + 1, req |-> d.req,
           n |-> srv.n + 1]
  BY <1>5, <1>6 DEF Server
<1>8. w \in Server /\ w.mode = d.mode /\ w.rev = d.rev /\ w.sel = d.sel
      /\ w.pref = d.pref /\ w.data = srv.data + 1 /\ w.n = srv.n + 1
      /\ w.req = srv.req
  BY <1>3, <1>5, <1>7 DEF Server
<1>9. srv' = IF c.id < srv.req THEN srv ELSE w
  BY <1>1, <1>4, <1>6 DEF FocusCommit
<1>10. srv' \in Server /\ srv'.pref = srv.pref /\ srv'.req = srv.req
       /\ srv.n <= srv'.n
  BY <1>2, <1>3, <1>5, <1>8, <1>9
<1>11. PICK q : q = [c EXCEPT !.st = "replied",
                      !.mode = IF c.id < srv.req THEN Nothing ELSE @,
                      !.id = srv.req, !.sel = srv'.sel, !.reply = srv']
  OBVIOUS
<1>12. q = [id |-> srv.req, st |-> "replied",
            mode |-> IF c.id < srv.req THEN Nothing ELSE c.mode,
            sel |-> srv'.sel, rev |-> c.rev, reply |-> srv']
  BY <1>2, <1>11 DEF Calls
<1>13. /\ q \in Calls /\ q.st = "replied" /\ q.rev = c.rev /\ q.reply = srv'
       /\ q.sel = srv'.sel
       /\ q.mode = (IF c.id < srv.req THEN Nothing ELSE c.mode)
  <2>1. srv'.sel \in Selections
    BY <1>10 DEF Server
  <2>2. QED
    BY <1>3, <1>10, <1>12, <2>1 DEF Calls
<1>14. focus' = [focus EXCEPT !.active = q]
  BY <1>1, <1>4, <1>6, <1>9, <1>11 DEF FocusCommit
<1>15. focus' \in Channel(Calls) /\ focus'.active = q
       /\ focus'.waiting = focus.waiting
  BY <1>2, <1>13, <1>14, ActiveFacts
<1>16. ASSUME c.id >= srv.req
       PROVE  q.mode = c.mode /\ srv' = w
  BY <1>3, <1>9, <1>13, <1>16
<1>17. QED
  BY <1>1, <1>2, <1>5, <1>8, <1>10, <1>13, <1>15, <1>16

---------------------------------------------------------------------------
(* Channels and timer *)

(* A call whose answer is known. *)
FocusReplied == focus.active # Nothing /\ focus.active.reply # Nothing
LoadReplied == load.active # Nothing /\ load.active.reply # Nothing

(* The loaders: a request waits only behind an active one and unsent,        *)
(* answers belong to answered calls, and the snapshot of a load is not newer *)
(* than the server.                                                          *)
ChannelsOK ==
    /\ focus.active = Nothing => focus.waiting = Nothing
    /\ focus.waiting # Nothing =>
          focus.waiting.st = "sent" /\ focus.waiting.reply = Nothing
    /\ load.waiting # Nothing =>
          load.waiting.st = "sent" /\ load.waiting.reply = Nothing
    /\ FocusReplied => focus.active.st \in {"replied", "failed"}
    /\ focus.active # Nothing /\ focus.active.st = "replied" => FocusReplied
    /\ load.active # Nothing /\ load.active.st = "replied" => LoadReplied
    /\ LoadReplied => load.active.reply.n <= srv.n

(* A save is due exactly while the preferences are not those sent last. *)
DueOK == timer.on <=> local.pref # last

(* Types, channels and the timer: what the other two invariants rest on. *)
Base == SyncTypeOK /\ ChannelsOK /\ DueOK

(* The answer of a focus command is received and the waiting one sent. *)
LEMMA FocusReturnsFacts ==
    ASSUME SyncTypeOK, ChannelsOK, FocusReturns
    PROVE  /\ focus.active \in Calls /\ focus.active.reply \in Server
           /\ focus.active.mode \in Modes \cup {Nothing}
           /\ focus.active.rev \in Nat /\ focus.active.sel \in Selections
           /\ focus.active.id \in Nat
           /\ FocusReply(focus.active) \in Server
           /\ Receive(FocusReply(focus.active))
           /\ focus' \in Channel(Calls)
           /\ focus'.active = focus.waiting /\ focus'.waiting = Nothing
<1>1. PICK c : c = focus.active
  OBVIOUS
<1>2. c \in Calls /\ focus \in Channel(Calls) /\ c.reply # Nothing
  BY <1>1, TypeParts DEF FocusReturns, ChannelsOK, FocusReplied
<1>3. /\ c.mode \in Modes \cup {Nothing} /\ c.rev \in Nat /\ c.sel \in Selections
      /\ c.id \in Nat /\ c.reply \in Server
  BY <1>2 DEF Calls
<1>4. PICK v : v = FocusReply(c)
  OBVIOUS
<1>5. v \in Server
  BY <1>3, <1>4, FocusReplyTypes
<1>6. Receive(v) /\ view' = v
  BY <1>1, <1>4 DEF FocusReturns, Receive
<1>7. view'.req \in Nat
  BY <1>5, <1>6 DEF Server
<1>8. PICK f : f = Finished(focus)
  OBVIOUS
<1>9. f \in Channel(Calls) /\ f.active = focus.waiting /\ f.waiting = Nothing
  BY <1>2, <1>8, FinishedFacts, 0 \in Nat
<1>10. focus' = CaughtUp(f, view'.req)
  BY <1>8 DEF FocusReturns
<1>11. focus' \in Channel(Calls) /\ focus'.active = focus.waiting
       /\ focus'.waiting = Nothing
  BY <1>7, <1>9, <1>10, FinishedFacts
<1>12. QED
  BY <1>1, <1>2, <1>3, <1>4, <1>5, <1>6, <1>11

(* The answer of a load is received; the focus channel keeps its requests. *)
LEMMA LoadReturnsFacts ==
    ASSUME SyncTypeOK, ChannelsOK, LoadReturns
    PROVE  /\ LoadReplied /\ load.active.reply \in Server
           /\ Receive(load.active.reply)
           /\ load' \in Channel(Loads)
           /\ load'.active = load.waiting /\ load'.waiting = Nothing
           /\ focus' \in Channel(Calls)
           /\ focus'.active = focus.active /\ focus'.waiting = focus.waiting
<1>1. load.active # Nothing /\ LoadReplied
  BY DEF LoadReturns, ChannelsOK
<1>2. load.active \in Loads /\ load.active.reply # Nothing
      /\ load \in Channel(Loads) /\ focus \in Channel(Calls)
  BY <1>1, TypeParts DEF LoadReplied
<1>3. load.active.reply \in Server
  BY <1>2 DEF Loads
<1>4. Receive(load.active.reply) /\ view' = load.active.reply
  BY DEF LoadReturns, Receive
<1>5. view'.req \in Nat
  BY <1>3, <1>4 DEF Server
<1>6. load' = Finished(load) /\ focus' = CaughtUp(focus, view'.req)
  BY DEF LoadReturns
<1>7. load' \in Channel(Loads) /\ load'.active = load.waiting
      /\ load'.waiting = Nothing
  BY <1>2, <1>6, FinishedFacts, 0 \in Nat
<1>8. focus' \in Channel(Calls) /\ focus'.active = focus.active
      /\ focus'.waiting = focus.waiting
  BY <1>2, <1>5, <1>6, FinishedFacts
<1>9. QED
  BY <1>1, <1>3, <1>4, <1>7, <1>8

(* An answer to the agent is received; the focus channel keeps its requests. *)
LEMMA NotifiedFacts ==
    ASSUME SyncTypeOK, NEW m \in notes, Notified(m)
    PROVE  /\ m.reply \in Server /\ FocusReply(m) \in Server
           /\ Receive(FocusReply(m)) /\ FocusReply(m).pref = view.pref
           /\ focus' \in Channel(Calls)
           /\ focus'.active = focus.active /\ focus'.waiting = focus.waiting
<1>1. /\ m.mode \in Modes \cup {Nothing} /\ m.rev \in Nat
      /\ m.sel \in Selections /\ m.id \in Nat /\ m.reply \in Server
      /\ focus \in Channel(Calls)
  BY DEF SyncTypeOK, Selections
<1>2. FocusReply(m) \in Server /\ FocusReply(m).pref = view.pref
  BY <1>1, FocusReplyTypes
<1>3. Receive(FocusReply(m)) /\ focus' = CaughtUp(focus, m.id)
  BY DEF Notified
<1>4. QED
  BY <1>1, <1>2, <1>3, FinishedFacts

(* The calls of a load. *)
LEMMA LoadCommitFacts ==
    ASSUME SyncTypeOK, LoadCommit
    PROVE  /\ srv' \in Server /\ srv'.mode = srv.mode /\ srv'.rev = srv.rev
           /\ srv'.sel = srv.sel /\ srv'.pref = srv.pref /\ srv'.req = srv.req
           /\ srv'.data = srv.data + 1 /\ srv'.n = srv.n + 1
           /\ load' \in Channel(Loads) /\ load'.active \in Loads
           /\ load'.active.st = "committed"
           /\ load'.active.reply = load.active.reply
           /\ load'.waiting = load.waiting
<1>1. PICK c : c = load.active
  OBVIOUS
<1>2. c \in Loads /\ srv \in Server /\ load \in Channel(Loads)
  BY <1>1, TypeParts DEF LoadCommit
<1>3. c.window \in DataWindows /\ srv.data + 1 \in Nat /\ srv.n + 1 \in Nat
  BY <1>2 DEF Loads, Server
<1>4. srv' = [srv EXCEPT !.window = c.window, !.data = srv.data + 1,
                         !.n = srv.n + 1]
  BY <1>1 DEF LoadCommit
<1>5. /\ srv' \in Server /\ srv'.mode = srv.mode /\ srv'.rev = srv.rev
      /\ srv'.sel = srv.sel /\ srv'.pref = srv.pref /\ srv'.req = srv.req
      /\ srv'.data = srv.data + 1 /\ srv'.n = srv.n + 1
  BY <1>2, <1>3, <1>4 DEF Server
<1>6. PICK q : q = [c EXCEPT !.st = "committed"]
  OBVIOUS
<1>7. q \in Loads /\ q.st = "committed" /\ q.reply = c.reply
  BY <1>2, <1>6 DEF Loads
<1>8. load' = [load EXCEPT !.active = q]
  BY <1>1, <1>2, <1>6 DEF LoadCommit, Channel
<1>9. QED
  BY <1>1, <1>2, <1>5, <1>7, <1>8, ActiveFacts

(* The answer of a load is the server as it is. *)
LEMMA LoadAnswerFacts ==
    ASSUME SyncTypeOK, LoadAnswer
    PROVE  /\ load' \in Channel(Loads) /\ load'.active \in Loads
           /\ load'.active.st = "replied" /\ load'.active.reply = srv
           /\ load'.waiting = load.waiting
<1>1. PICK c : c = load.active
  OBVIOUS
<1>2. c \in Loads /\ srv \in Server /\ load \in Channel(Loads)
  BY <1>1, TypeParts DEF LoadAnswer
<1>6. PICK q : q = [c EXCEPT !.st = "replied", !.reply = srv]
  OBVIOUS
<1>7. q \in Loads /\ q.st = "replied" /\ q.reply = srv
  BY <1>2, <1>6 DEF Loads
<1>8. load' = [load EXCEPT !.active = q]
  BY <1>1, <1>2, <1>6 DEF LoadAnswer, Channel
<1>9. QED
  BY <1>1, <1>2, <1>7, <1>8, ActiveFacts

(* A failed load keeps the answer that was lost. *)
LEMMA LoadFailedFacts ==
    ASSUME SyncTypeOK, load.active # Nothing,
           Failing(load, load')
    PROVE  /\ load' \in Channel(Loads) /\ load'.active \in Loads
           /\ load'.active.st = "failed"
           /\ load'.active.reply = load.active.reply
           /\ load'.waiting = load.waiting
<1>1. PICK c : c = load.active
  OBVIOUS
<1>2. c \in Loads /\ load \in Channel(Loads)
  BY <1>1, TypeParts
<1>6. PICK q : q = [c EXCEPT !.st = "failed"]
  OBVIOUS
<1>7. q \in Loads /\ q.st = "failed" /\ q.reply = c.reply
  BY <1>2, <1>6 DEF Loads
<1>8. load' = [load EXCEPT !.active = q]
  BY <1>1, <1>2, <1>6 DEF Channel, Failing
<1>9. load' \in Channel(Loads) /\ load'.active = q
      /\ load'.waiting = load.waiting
  BY <1>2, <1>7, <1>8, ActiveFacts
<1>10. QED
  BY <1>1, <1>7, <1>9

(* A mode command of the agent. *)
LEMMA AgentFacts ==
    ASSUME SyncTypeOK, NEW m \in Modes, AgentCommands(m)
    PROVE  /\ srv' \in Server /\ srv'.pref = srv.pref /\ srv.n <= srv'.n
           /\ notes' \subseteq [mode : Modes, rev : Nat, sel : {Nothing},
                                id : Nat, reply : Server]
<1>1. srv \in Server /\ srv.rev \in Nat /\ srv.data \in Nat /\ srv.req \in Nat
      /\ srv.n \in Nat
  BY TypeParts DEF Server
<1>2. srv' = [srv EXCEPT !.mode = m, !.rev = srv.rev + 1, !.sel = Nothing,
                 !.data = srv.data + 1, !.req = srv.req + 1, !.n = srv.n + 1]
  BY DEF AgentCommands
<1>3. srv' = [mode |-> m, rev |-> srv.rev + 1, sel |-> Nothing,
              pref |-> srv.pref, window |-> srv.window, data |-> srv.data + 1,
              req |-> srv.req + 1, n |-> srv.n + 1]
  BY <1>1, <1>2 DEF Server
<1>4. srv' \in Server /\ srv'.pref = srv.pref /\ srv.n <= srv'.n
  BY <1>1, <1>3 DEF Server, Selections
<1>5. [mode |-> m, rev |-> srv.rev + 1, sel |-> Nothing, id |-> srv.req + 1,
       reply |-> srv'] \in [mode : Modes, rev : Nat, sel : {Nothing},
                            id : Nat, reply : Server]
  BY <1>1, <1>4
<1>6. QED
  BY <1>4, <1>5 DEF AgentCommands, SyncTypeOK

(* A focus command is issued (GraphExplorerApp.tsx focusCall). *)
LEMMA IssueFacts ==
    ASSUME SyncTypeOK, NEW m \in Modes \cup {Nothing}, NEW s \in Selections,
           focus' = Enqueue(focus, FocusCall(m, s))
    PROVE  \E q \in Calls :
              /\ q.st = "sent" /\ q.mode = m /\ q.sel = s /\ q.reply = Nothing
              /\ focus' \in Channel(Calls)
              /\ focus'.active = IF focus.active = Nothing THEN q
                                 ELSE focus.active
              /\ focus'.waiting = IF focus.active = Nothing THEN focus.waiting
                                  ELSE q
<1>1. focus \in Channel(Calls)
  BY TypeParts
<1>2. PICK q \in Calls :
         /\ q = [FocusCall(m, s) EXCEPT !.id = focus.seq + 1]
         /\ q.st = "sent" /\ q.mode = m /\ q.sel = s /\ q.reply = Nothing
  BY <1>1, NewCallFacts
<1>3. PICK r : r = FocusCall(m, s)
  OBVIOUS
<1>4. q = [r EXCEPT !.id = focus.seq + 1]
  BY <1>2, <1>3
<1>5. /\ Enqueue(focus, r) \in Channel(Calls)
      /\ Enqueue(focus, r).active =
            IF focus.active = Nothing THEN q ELSE focus.active
      /\ Enqueue(focus, r).waiting =
            IF focus.active = Nothing THEN focus.waiting ELSE q
  BY <1>1, <1>4, EnqueueFacts
<1>6. focus' = Enqueue(focus, r)
  BY <1>3
<1>7. QED
  BY <1>2, <1>5, <1>6

(* onSelectNode and onClearSelection change the selection of the tab. *)
LEMMA SelectFacts ==
    ASSUME SyncTypeOK, NEW s \in Selections, SelectNode(s)
    PROVE  /\ local' \in Local /\ local'.mode = local.mode /\ Sel(local') = s
           /\ local'.rev = local.rev /\ local'.pref = local.pref
  BY TypeParts, FocusedFacts DEF SelectNode

(* onModeChange brings the selection of the other tab back. *)
LEMMA ChangeFacts ==
    ASSUME SyncTypeOK, NEW m \in Modes, ChangeMode(m)
    PROVE  /\ local' \in Local /\ local'.mode = m
           /\ Sel(local') = local.mem[m] /\ local.mem[m] \in Selections
           /\ local'.rev = local.rev /\ local'.pref = local.pref
<1>1. PICK l : l = [local EXCEPT !.mode = m]
  OBVIOUS
<1>2. local \in Local
  BY TypeParts
<1>3. l = [mode |-> m, rev |-> local.rev, mem |-> local.mem,
           pref |-> local.pref, window |-> local.window]
  BY <1>1, <1>2 DEF Local
<1>4. l \in Local /\ l.mode = m /\ l.mem = local.mem /\ l.rev = local.rev
      /\ l.pref = local.pref
  BY <1>2, <1>3 DEF Local
<1>5. local' = l
  BY <1>1 DEF ChangeMode
<1>6. local.mem[m] \in Selections
  BY <1>2 DEF Local
<1>7. QED
  BY <1>4, <1>5, <1>6 DEF Sel

(* The other actions of the user touch neither tab nor selection. *)
LEMMA DraftFacts ==
    ASSUME SyncTypeOK, NEW p \in Prefs, NEW w \in DataWindows,
           local' = [local EXCEPT !.window = w] \/ local' = [local EXCEPT !.pref = p]
           \/ local' = local
    PROVE  /\ local' \in Local /\ local'.mode = local.mode
           /\ Sel(local') = Sel(local) /\ local'.rev = local.rev
<1>1. local \in Local
  BY TypeParts
<1>2. local' \in Local /\ local'.mode = local.mode /\ local'.mem = local.mem
      /\ local'.rev = local.rev
  BY <1>1 DEF Local
<1>3. QED
  BY <1>2 DEF Sel

(* Asking for a window moves neither focus nor preferences and issues a      *)
(* load.                                                                     *)
LEMMA AskFacts ==
    ASSUME SyncTypeOK, NEW w \in DataWindows, AskLoad(w)
    PROVE  /\ local' \in Local /\ local'.mode = local.mode
           /\ Sel(local') = Sel(local) /\ local'.rev = local.rev
           /\ local'.pref = local.pref
           /\ \E q \in Loads :
                 /\ q.st = "sent" /\ q.reply = Nothing
                 /\ load' \in Channel(Loads)
                 /\ load'.active = IF load.active = Nothing THEN q ELSE load.active
                 /\ load'.waiting = IF load.active = Nothing THEN load.waiting ELSE q
<1>1. local \in Local /\ load \in Channel(Loads) /\ local.pref \in Prefs
  BY TypeParts DEF Local
<1>2. local' = [local EXCEPT !.window = w]
  BY DEF AskLoad
<1>3. local' \in Local /\ local'.mode = local.mode /\ Sel(local') = Sel(local)
      /\ local'.rev = local.rev
  BY <1>1, <1>2, DraftFacts
<1>4. local'.pref = local.pref
  BY <1>1, <1>2 DEF Local
<1>5. PICK q \in Loads : /\ q = [LoadCall(w) EXCEPT !.id = load.seq + 1]
                         /\ q.st = "sent" /\ q.reply = Nothing
  BY <1>1, NewLoadFacts
<1>6. PICK r : r = LoadCall(w)
  OBVIOUS
<1>7. q = [r EXCEPT !.id = load.seq + 1]
  BY <1>5, <1>6
<1>8. /\ Enqueue(load, r) \in Channel(Loads)
      /\ Enqueue(load, r).active =
            IF load.active = Nothing THEN q ELSE load.active
      /\ Enqueue(load, r).waiting =
            IF load.active = Nothing THEN load.waiting ELSE q
  BY <1>1, <1>7, EnqueueFacts
<1>9. load' = Enqueue(load, r)
  BY <1>6 DEF AskLoad
<1>10. QED
  BY <1>3, <1>4, <1>5, <1>8, <1>9

(* Editing a preference moves no focus. *)
LEMMA EditFacts ==
    ASSUME SyncTypeOK, NEW p \in Prefs, EditPref(p)
    PROVE  /\ local' \in Local /\ local'.mode = local.mode
           /\ Sel(local') = Sel(local) /\ local'.rev = local.rev
<1>1. local.window \in DataWindows
  BY TypeParts DEF Local
<1>2. QED
  BY <1>1, DraftFacts DEF EditPref

(* Trying again moves no focus. *)
LEMMA RetryFacts ==
    ASSUME SyncTypeOK, Retry
    PROVE  /\ local' \in Local /\ local'.mode = local.mode
           /\ Sel(local') = Sel(local) /\ local'.rev = local.rev
<1>1. local.window \in DataWindows /\ local.pref \in Prefs
  BY TypeParts DEF Local
<1>2. failed \in Prefs \cup {Nothing}
  BY DEF SyncTypeOK
<1>3. CASE failed = Nothing
  BY <1>1, <1>3, DraftFacts DEF Retry
<1>4. CASE failed # Nothing
  BY <1>1, <1>2, <1>4, DraftFacts DEF Retry
<1>5. QED
  BY <1>3, <1>4

(* The answer to a save carries what was saved. *)
LEMMA SavedFacts ==
    ASSUME SyncTypeOK, NEW c \in saves, Saved(c)
    PROVE  /\ view' \in Server /\ view'.pref = c.was.pref /\ view'.n = c.at
           /\ view'.rev = view.rev /\ view'.data = view.data
           /\ local' \in Local /\ local'.mode = local.mode
           /\ Sel(local') = Sel(local) /\ local'.rev = local.rev
           /\ last' = c.was.pref /\ last' \in Prefs
           /\ \/ ~timer'.on /\ local'.pref = last'
              \/ timer' = timer /\ local'.pref = local.pref /\ last' = last
           /\ timer' \in [on : BOOLEAN, applied : Prefs]
           /\ seen' \in Nat /\ seen' >= seen /\ seen' >= c.at
<1>1. /\ c.was.pref \in Prefs /\ c.at \in Nat /\ seen \in Nat
      /\ view \in Server /\ local \in Local /\ last \in Prefs
      /\ timer \in [on : BOOLEAN, applied : Prefs] /\ local.window \in DataWindows
  BY TypeParts DEF SyncTypeOK, Saves, Local
<1>2. PICK v : v = [view EXCEPT !.pref = c.was.pref, !.n = c.at]
  OBVIOUS
<1>3. v \in Server /\ v.pref = c.was.pref /\ v.n = c.at /\ v.rev = view.rev
      /\ v.data = view.data
  BY <1>1, <1>2 DEF Server
<1>4. view' = v /\ seen' = (IF c.at > seen THEN c.at ELSE seen)
  BY <1>2 DEF Saved
<1>5. CASE v.pref # last
  <2>1. local' = [local EXCEPT !.pref = v.pref] /\ last' = v.pref
        /\ timer' = NotDue(v)
    BY <1>2, <1>5 DEF Saved
  <2>2. local'.pref = v.pref
    BY <1>1, <2>1 DEF Local
  <2>3. local' \in Local /\ local'.mode = local.mode /\ Sel(local') = Sel(local)
        /\ local'.rev = local.rev
    BY <1>1, <1>3, <2>1, DraftFacts
  <2>4. ~timer'.on /\ timer' \in [on : BOOLEAN, applied : Prefs]
    BY <1>1, <1>3, <2>1, DueFacts
  <2>5. QED
    BY <1>1, <1>3, <1>4, <2>1, <2>2, <2>3, <2>4
<1>6. CASE v.pref = last
  <2>1. UNCHANGED <<local, last, timer>>
    BY <1>2, <1>6 DEF Saved
  <2>2. QED
    BY <1>1, <1>3, <1>4, <1>6, <2>1
<1>7. QED
  BY <1>5, <1>6

(* A failed save restores the state of the time of sending.  When that is    *)
(* the state of now, the preferences alone change.                           *)
LEMMA SaveFailsFacts ==
    ASSUME SyncTypeOK, NEW c \in saves, SaveFails(c)
    PROVE  /\ local' \in Local /\ local'.pref = c.applied
           /\ last' = c.applied /\ last' \in Prefs
           /\ ~timer'.on /\ timer' \in [on : BOOLEAN, applied : Prefs]
           /\ local = c.was => /\ local'.mode = local.mode
                               /\ Sel(local') = Sel(local)
                               /\ local'.rev = local.rev
<1>1. c.was \in Local /\ c.applied \in Prefs /\ local \in Local /\ view \in Server
      /\ last \in Prefs
  BY TypeParts DEF SyncTypeOK, Saves
<1>2. c.was.mode \in Modes /\ Sel(c.was) \in Selections /\ c.was.rev \in Nat
      /\ c.was.window \in DataWindows
  BY <1>1 DEF Local, Sel
<1>3. PICK f : f = Focused(local, c.was.mode, Sel(c.was))
  OBVIOUS
<1>4. f \in Local /\ f.mode = c.was.mode /\ Sel(f) = Sel(c.was)
  BY <1>1, <1>2, <1>3, FocusedFacts
<1>5. PICK l : l = [f EXCEPT !.rev = c.was.rev, !.window = c.was.window,
                             !.pref = c.applied]
  OBVIOUS
<1>6. l = [mode |-> f.mode, rev |-> c.was.rev, mem |-> f.mem,
           pref |-> c.applied, window |-> c.was.window]
  BY <1>4, <1>5 DEF Local
<1>7. l \in Local /\ l.mode = c.was.mode /\ Sel(l) = Sel(c.was)
      /\ l.rev = c.was.rev /\ l.pref = c.applied
  BY <1>1, <1>2, <1>4, <1>6 DEF Local, Sel
<1>8. local' = l /\ last' = c.applied /\ timer' = NotDue(view)
  BY <1>3, <1>5 DEF SaveFails
<1>9. ~timer'.on /\ timer' \in [on : BOOLEAN, applied : Prefs]
  BY <1>1, <1>8, DueFacts
<1>10. QED
  BY <1>1, <1>7, <1>8, <1>9

(* A failed load adopts the view: with the mode revision the browser has,    *)
(* tab and selection stay (GraphExplorerApp.tsx:157-162).                    *)
LEMMA RejectedFacts ==
    ASSUME SyncTypeOK, LoadRejected
    PROVE  /\ local' \in Local /\ local'.rev = view.rev
           /\ local'.mode = (IF view.rev > local.rev THEN view.mode ELSE local.mode)
           /\ Sel(local') = (IF view.rev > local.rev THEN view.sel ELSE Sel(local))
           /\ load' \in Channel(Loads)
           /\ load'.active = load.waiting /\ load'.waiting = Nothing
<1>1. local \in Local /\ view \in Server /\ load \in Channel(Loads)
  BY TypeParts
<1>2. local' = AdoptServer(local, view) /\ load' = Finished(load)
  BY DEF LoadRejected
<1>3. QED
  BY <1>1, <1>2, AdoptFacts, FinishedFacts, 0 \in Nat

---------------------------------------------------------------------------
(* The base invariant *)

(* After a change of the local state the timer says what DueOK says. *)
LEMMA DueStep ==
    ASSUME SyncTypeOK, local' \in Local, timer' = Due(local', view, last)
    PROVE  /\ timer' \in [on : BOOLEAN, applied : Prefs]
           /\ timer'.on <=> local'.pref # last
           /\ timer'.applied = view.pref
  BY TypeParts, DueFacts

(* A channel of loads whose answer, if any, was there before. *)
LEMMA BaseUser ==
    ASSUME Base, UserStep
    PROVE  Base'
<1>1. SyncTypeOK /\ ChannelsOK
  BY DEF Base
<1>2. SyncTypeOK'
  BY <1>1, UserTypes
<1>3. ASSUME NEW m \in Modes \cup {Nothing}, NEW s \in Selections,
             focus' = Enqueue(focus, FocusCall(m, s)),
             UNCHANGED <<srv, load>>
      PROVE  ChannelsOK'
  <2>1. PICK q \in Calls :
              /\ q.st = "sent" /\ q.mode = m /\ q.sel = s /\ q.reply = Nothing
              /\ focus'.active = IF focus.active = Nothing THEN q
                                 ELSE focus.active
              /\ focus'.waiting = IF focus.active = Nothing THEN focus.waiting
                                  ELSE q
    BY <1>1, <1>3, IssueFacts
  <2>2. q # Nothing
    BY NothingFacts
  <2>3. CASE focus.active = Nothing
    <3>1. focus'.active = q /\ focus'.waiting = Nothing
      BY <1>1, <2>1, <2>3 DEF ChannelsOK
    <3>2. QED
      BY <1>1, <1>3, <2>1, <2>2, <3>1 DEF ChannelsOK, FocusReplied, LoadReplied
  <2>4. CASE focus.active # Nothing
    <3>1. focus'.active = focus.active /\ focus'.waiting = q
      BY <2>1, <2>4
    <3>2. QED
      BY <1>1, <1>3, <2>1, <2>4, <3>1 DEF ChannelsOK, FocusReplied, LoadReplied
  <2>5. QED
    BY <2>3, <2>4
<1>4. ASSUME UNCHANGED <<srv, focus, load>>
      PROVE  ChannelsOK'
  BY <1>1, <1>4 DEF ChannelsOK, FocusReplied, LoadReplied
<1>5. ASSUME local' \in Local, timer' = Due(local', view, last), last' = last
      PROVE  DueOK'
  BY <1>1, <1>5, DueStep DEF DueOK
<1>6. ASSUME NEW s \in Selections, SelectNode(s)
      PROVE  ChannelsOK' /\ DueOK'
  BY <1>1, <1>3, <1>5, <1>6, SelectFacts DEF SelectNode
<1>7. ASSUME NEW m \in Modes, ChangeMode(m)
      PROVE  ChannelsOK' /\ DueOK'
  BY <1>1, <1>3, <1>5, <1>7, ChangeFacts DEF ChangeMode
<1>8. ASSUME NEW w \in DataWindows, AskLoad(w)
      PROVE  ChannelsOK' /\ DueOK'
  <2>1. local' \in Local
    BY <1>1, <1>8, AskFacts
  <2>2. DueOK'
    BY <1>5, <1>8, <2>1 DEF AskLoad
  <2>3. PICK q \in Loads :
              /\ q.st = "sent" /\ q.reply = Nothing
              /\ load'.active = IF load.active = Nothing THEN q ELSE load.active
              /\ load'.waiting = IF load.active = Nothing THEN load.waiting ELSE q
    BY <1>1, <1>8, AskFacts
  <2>4. UNCHANGED <<srv, focus>>
    BY <1>8 DEF AskLoad
  <2>5. ChannelsOK'
    BY <1>1, <2>3, <2>4, NothingFacts DEF ChannelsOK, FocusReplied, LoadReplied
  <2>6. QED
    BY <2>2, <2>5
<1>9. ASSUME NEW p \in Prefs, EditPref(p)
      PROVE  ChannelsOK' /\ DueOK'
  BY <1>1, <1>4, <1>5, <1>9, EditFacts DEF EditPref
<1>10. ASSUME Retry
       PROVE  ChannelsOK' /\ DueOK'
  BY <1>1, <1>4, <1>5, <1>10, RetryFacts DEF Retry
<1>11. QED
  BY <1>2, <1>6, <1>7, <1>8, <1>9, <1>10 DEF UserStep, Base

(* Steps of a save. *)
LEMMA BaseSave ==
    ASSUME Base, SaveStep
    PROVE  Base'
<1>1. SyncTypeOK /\ ChannelsOK /\ DueOK
  BY DEF Base
<1>2. SyncTypeOK'
  BY <1>1, SaveTypes
<1>3. ASSUME UNCHANGED <<focus, load>>, srv'.n >= srv.n
      PROVE  ChannelsOK'
  <2>1. LoadReplied => load.active.reply.n \in Nat
    BY <1>1, TypeParts, NothingFacts DEF LoadReplied, Loads, Server
  <2>2. srv.n \in Nat /\ srv'.n \in Nat
    BY <1>1, <1>2 DEF SyncTypeOK, Server
  <2>3. QED
    BY <1>1, <1>3, <2>1, <2>2 DEF ChannelsOK, FocusReplied, LoadReplied
<1>4. srv.n \in Nat
  BY <1>1, TypeParts DEF Server
<1>5. ASSUME Send
      PROVE  ChannelsOK' /\ DueOK'
  <2>1. view \in Server /\ ~NotDue(view).on
    BY <1>1, TypeParts DEF NotDue
  <2>2. QED
    BY <1>3, <1>4, <1>5, <2>1 DEF Send, DueOK
<1>6. ASSUME NEW c \in saves, ServerSaves(c)
      PROVE  ChannelsOK' /\ DueOK'
  <2>1. srv'.n = srv.n + 1
    BY <1>1, <1>6, TypeParts DEF ServerSaves, Server
  <2>2. QED
    BY <1>1, <1>3, <1>4, <1>6, <2>1 DEF ServerSaves, DueOK
<1>7. ASSUME NEW c \in saves, Saved(c)
      PROVE  ChannelsOK' /\ DueOK'
  <2>1. \/ ~timer'.on /\ local'.pref = last'
        \/ timer' = timer /\ local'.pref = local.pref /\ last' = last
    BY <1>1, <1>7, SavedFacts
  <2>2. UNCHANGED <<srv, focus, load>>
    BY <1>7 DEF Saved
  <2>3. QED
    BY <1>1, <1>3, <1>4, <2>1, <2>2 DEF DueOK
<1>8. ASSUME NEW c \in saves, SaveFails(c)
      PROVE  ChannelsOK' /\ DueOK'
  <2>1. ~timer'.on /\ local'.pref = last'
    BY <1>1, <1>8, SaveFailsFacts
  <2>2. UNCHANGED <<srv, focus, load>>
    BY <1>8 DEF SaveFails
  <2>3. QED
    BY <1>3, <1>4, <2>1, <2>2 DEF DueOK
<1>9. QED
  BY <1>2, <1>5, <1>6, <1>7, <1>8 DEF SaveStep, Base

(* What a received view leaves well-typed. *)
LEMMA ReceiveTypes ==
    ASSUME Base, NEW v \in Server, Receive(v)
    PROVE  /\ local' \in Local /\ view' \in Server /\ seen' \in Nat
           /\ last' \in Prefs /\ err' \in BOOLEAN
           /\ timer' \in [on : BOOLEAN, applied : Prefs]
           /\ DueOK'
<1>1. SyncTypeOK /\ DueOK
  BY DEF Base
<1>2. v.pref \in Prefs
  BY DEF Server
<1>3. QED
  BY <1>1, <1>2, ReceiveFacts DEF DueOK

(* Steps of a focus command. *)
LEMMA BaseFocus ==
    ASSUME Base, FocusStep
    PROVE  Base'
<1>1. SyncTypeOK /\ ChannelsOK /\ DueOK
  BY DEF Base
<1>2. srv.n \in Nat /\ (LoadReplied => load.active.reply.n \in Nat)
  BY <1>1, TypeParts, NothingFacts DEF LoadReplied, Loads, Server
<1>3. ASSUME UNCHANGED <<local, view, load, timer, saves, last, err, failed,
                         notes, seen, userActs, faults>>,
             odd' \subseteq odd \cup Oddities,
             srv' \in Server, srv.n <= srv'.n, focus' \in Channel(Calls),
             focus'.waiting = focus.waiting, focus'.active # Nothing,
             focus.active # Nothing,
             focus'.active.reply # Nothing =>
                focus'.active.st \in {"replied", "failed"},
             focus'.active.st = "replied" => focus'.active.reply # Nothing
      PROVE  Base'
  <2>1. srv'.n \in Nat
    BY <1>3 DEF Server
  <2>2. SyncTypeOK'
    BY <1>1, <1>3 DEF SyncTypeOK, Oddities
  <2>3. ChannelsOK'
    BY <1>1, <1>2, <1>3, <2>1 DEF ChannelsOK, FocusReplied, LoadReplied
  <2>4. DueOK'
    BY <1>1, <1>3 DEF DueOK
  <2>5. QED
    BY <2>2, <2>3, <2>4 DEF Base
<1>4. CASE Reserve
  <2>1. focus.active.st = "sent" /\ focus.active # Nothing
    BY <1>4 DEF Reserve
  <2>2. focus.active.reply = Nothing
    BY <1>1, <2>1 DEF ChannelsOK, FocusReplied
  <2>3. UNCHANGED <<local, view, load, timer, saves, last, err, failed,
                    notes, seen, odd, userActs, faults>>
    BY <1>4 DEF Reserve
  <2>4. QED
    BY <1>1, <1>2, <1>3, <1>4, <2>1, <2>2, <2>3, ReserveFacts, NothingFacts
<1>5. CASE Refuse
  <2>1. focus.active # Nothing /\ Failing(focus, focus')
    BY <1>5 DEF Refuse, Failing
  <2>2. UNCHANGED <<local, view, srv, load, timer, saves, last, err, failed,
                    notes, seen, odd, userActs, faults>>
    BY <1>5 DEF Refuse
  <2>3. focus \in Channel(Calls) /\ srv \in Server
    BY <1>1, TypeParts
  <2>4. /\ focus' \in Channel(Calls) /\ focus'.waiting = focus.waiting
        /\ focus'.active \in Calls /\ focus'.active.st = "failed"
    BY <2>1, <2>3, FailedFacts
  <2>5. QED
    BY <1>2, <1>3, <2>1, <2>2, <2>3, <2>4, NothingFacts
<1>6. CASE FocusCommit
  <2>1. UNCHANGED <<local, view, load, timer, saves, last, err, failed,
                    notes, seen, odd, userActs, faults>>
        /\ focus.active # Nothing
    BY <1>6 DEF FocusCommit
  <2>2. QED
    BY <1>1, <1>3, <1>6, <2>1, CommitFacts, NothingFacts
<1>7. CASE FocusReturns
  <2>1. PICK v \in Server : v = FocusReply(focus.active) /\ Receive(v)
    BY <1>1, <1>7, FocusReturnsFacts
  <2>2. focus' \in Channel(Calls) /\ focus'.active = focus.waiting
        /\ focus'.waiting = Nothing
    BY <1>1, <1>7, FocusReturnsFacts
  <2>3. /\ UNCHANGED <<srv, load, saves, failed, notes, userActs, faults>>
        /\ odd' = odd \cup Disordered(v)
    BY <1>7, <2>1 DEF FocusReturns
  <2>4. SyncTypeOK' /\ DueOK'
    BY <1>1, <2>1, <2>2, <2>3, ReceiveTypes, OddFacts
       DEF Base, SyncTypeOK, Oddities
  <2>5. ChannelsOK'
    BY <1>1, <2>2, <2>3 DEF ChannelsOK, FocusReplied, LoadReplied
  <2>6. QED
    BY <2>4, <2>5 DEF Base
<1>8. CASE FocusFails
  <2>1. UNCHANGED <<local, view, srv, load, timer, saves, last, err, failed,
                    notes, seen, userActs, faults>>
        /\ odd' = odd \cup {"unheard"} /\ focus' = Finished(focus)
    BY <1>8 DEF FocusFails
  <2>2. focus \in Channel(Calls)
    BY <1>1, TypeParts
  <2>3. focus' \in Channel(Calls) /\ focus'.active = focus.waiting
        /\ focus'.waiting = Nothing
    BY <2>1, <2>2, FinishedFacts, 0 \in Nat
  <2>4. SyncTypeOK'
    BY <1>1, <2>1, <2>3 DEF SyncTypeOK
  <2>5. ChannelsOK' /\ DueOK'
    BY <1>1, <2>1, <2>3 DEF ChannelsOK, FocusReplied, LoadReplied, DueOK
  <2>6. QED
    BY <2>4, <2>5 DEF Base
<1>9. QED
  BY <1>4, <1>5, <1>6, <1>7, <1>8 DEF FocusStep

(* Steps of a load. *)
LEMMA BaseLoad ==
    ASSUME Base, LoadStep
    PROVE  Base'
<1>1. SyncTypeOK /\ ChannelsOK /\ DueOK
  BY DEF Base
<1>2. srv.n \in Nat /\ (LoadReplied => load.active.reply.n \in Nat)
      /\ load \in Channel(Loads) /\ view \in Server /\ srv \in Server
  BY <1>1, TypeParts, NothingFacts DEF LoadReplied, Loads, Server
<1>3. CASE LoadCommit
  <2>1. UNCHANGED <<local, view, focus, timer, saves, last, err, failed, notes,
                    seen, odd, userActs, faults>>
        /\ load.active # Nothing /\ load.active.st = "sent"
    BY <1>3 DEF LoadCommit
  <2>2. /\ srv' \in Server /\ srv'.n = srv.n + 1
        /\ load' \in Channel(Loads) /\ load'.active \in Loads
        /\ load'.active.st = "committed"
        /\ load'.active.reply = load.active.reply
        /\ load'.waiting = load.waiting
    BY <1>1, <1>3, LoadCommitFacts
  <2>3. SyncTypeOK' /\ DueOK'
    BY <1>1, <2>1, <2>2 DEF SyncTypeOK, DueOK
  <2>4. ChannelsOK'
    BY <1>1, <1>2, <2>1, <2>2, NothingFacts
       DEF ChannelsOK, FocusReplied, LoadReplied
  <2>5. QED
    BY <2>3, <2>4 DEF Base
<1>4. CASE LoadAnswer
  <2>1. UNCHANGED <<local, view, srv, focus, timer, saves, last, err, failed,
                    notes, seen, odd, userActs, faults>>
    BY <1>4 DEF LoadAnswer
  <2>2. /\ load' \in Channel(Loads) /\ load'.active \in Loads
        /\ load'.active.st = "replied" /\ load'.active.reply = srv
        /\ load'.waiting = load.waiting
    BY <1>1, <1>4, LoadAnswerFacts
  <2>3. SyncTypeOK' /\ DueOK'
    BY <1>1, <2>1, <2>2 DEF SyncTypeOK, DueOK
  <2>4. ChannelsOK'
    BY <1>1, <1>2, <2>1, <2>2, NothingFacts
       DEF ChannelsOK, FocusReplied, LoadReplied
  <2>5. QED
    BY <2>3, <2>4 DEF Base
<1>5. CASE LoadReturns
  <2>1. PICK r \in Server : r = load.active.reply /\ Receive(r)
    BY <1>1, <1>5, LoadReturnsFacts
  <2>2. /\ load' \in Channel(Loads)
        /\ load'.active = load.waiting /\ load'.waiting = Nothing
        /\ focus' \in Channel(Calls)
        /\ focus'.active = focus.active /\ focus'.waiting = focus.waiting
    BY <1>1, <1>5, LoadReturnsFacts
  <2>3. /\ UNCHANGED <<srv, saves, failed, notes, userActs, faults>>
        /\ odd' = odd \cup Disordered(r)
    BY <1>5, <2>1 DEF LoadReturns
  <2>4. SyncTypeOK' /\ DueOK'
    BY <1>1, <2>1, <2>2, <2>3, ReceiveTypes, OddFacts
       DEF Base, SyncTypeOK, Oddities
  <2>5. ChannelsOK'
    BY <1>1, <2>2, <2>3 DEF ChannelsOK, FocusReplied, LoadReplied
  <2>6. QED
    BY <2>4, <2>5 DEF Base
<1>6. CASE LoadRejected
  <2>1. /\ UNCHANGED <<view, srv, focus, saves, last, err, failed, notes, seen,
                       userActs, faults>>
        /\ timer' = Due(local', view, last) /\ odd' = odd \cup Resave(timer')
    BY <1>6 DEF LoadRejected
  <2>2. /\ local' \in Local /\ load' \in Channel(Loads)
        /\ load'.active = load.waiting /\ load'.waiting = Nothing
    BY <1>1, <1>6, RejectedFacts
  <2>3. timer' \in [on : BOOLEAN, applied : Prefs]
        /\ (timer'.on <=> local'.pref # last)
    BY <1>1, <2>1, <2>2, DueStep
  <2>4. Resave(timer') \subseteq Oddities
    BY OddFacts
  <2>5. SyncTypeOK'
    BY <1>1, <2>1, <2>2, <2>3, <2>4 DEF SyncTypeOK, Oddities
  <2>6. DueOK' /\ ChannelsOK'
    BY <1>1, <2>1, <2>2, <2>3 DEF ChannelsOK, FocusReplied, LoadReplied, DueOK
  <2>7. QED
    BY <2>5, <2>6 DEF Base
<1>7. QED
  BY <1>3, <1>4, <1>5, <1>6 DEF LoadStep

(* The three ways a call can fail. *)
FocusCallFails ==
    /\ focus.active # Nothing /\ Failing(focus, focus')
    /\ UNCHANGED <<load, saves, odd>>
LoadCallFails ==
    /\ load.active # Nothing /\ Failing(load, load')
    /\ UNCHANGED <<focus, saves, odd>>
SaveCallFails(c) ==
    /\ c.st # "failed"
    /\ saves' = (saves \ {c}) \cup {[c EXCEPT !.st = "failed"]}
    /\ odd' = IF c.st = "saved" THEN odd \cup {"lost"} ELSE odd
    /\ UNCHANGED <<focus, load>>

(* They are all, and touch nothing else. *)
LEMMA CallFailsCases ==
    ASSUME CallFails
    PROVE  /\ FocusCallFails \/ LoadCallFails \/ \E c \in saves : SaveCallFails(c)
           /\ faults' = faults + 1
           /\ UNCHANGED <<local, view, srv, timer, last, err, failed, notes, seen,
                          userActs>>
  BY DEF CallFails, FocusCallFails, LoadCallFails, SaveCallFails, Failing

(* A call that fails. *)
LEMMA BaseFails ==
    ASSUME Base, CallFails
    PROVE  Base'
<1>1. SyncTypeOK /\ ChannelsOK /\ DueOK
  BY DEF Base
<1>2. UNCHANGED <<local, view, srv, timer, last, err, failed, notes, seen,
                  userActs>> /\ faults' \in Nat
  BY <1>1, CallFailsCases DEF SyncTypeOK
<1>3. CASE FocusCallFails
  <2>1. /\ focus' \in Channel(Calls) /\ focus'.waiting = focus.waiting
        /\ focus'.active \in Calls /\ focus'.active.st = "failed"
        /\ focus'.active.reply = focus.active.reply
    BY <1>1, <1>3, TypeParts, FailedFacts DEF FocusCallFails
  <2>2. UNCHANGED <<load, saves, odd>> /\ focus.active # Nothing
    BY <1>3 DEF FocusCallFails
  <2>3. SyncTypeOK' /\ DueOK'
    BY <1>1, <1>2, <2>1, <2>2 DEF SyncTypeOK, DueOK
  <2>4. ChannelsOK'
    BY <1>1, <1>2, <2>1, <2>2, NothingFacts
       DEF ChannelsOK, FocusReplied, LoadReplied
  <2>5. QED
    BY <2>3, <2>4 DEF Base
<1>4. CASE LoadCallFails
  <2>1. /\ load' \in Channel(Loads) /\ load'.active \in Loads
        /\ load'.active.st = "failed"
        /\ load'.active.reply = load.active.reply
        /\ load'.waiting = load.waiting
    BY <1>1, <1>4, LoadFailedFacts DEF LoadCallFails
  <2>2. UNCHANGED <<focus, saves, odd>> /\ load.active # Nothing
    BY <1>4 DEF LoadCallFails
  <2>3. SyncTypeOK' /\ DueOK'
    BY <1>1, <1>2, <2>1, <2>2 DEF SyncTypeOK, DueOK
  <2>4. ChannelsOK'
    BY <1>1, <1>2, <2>1, <2>2, NothingFacts
       DEF ChannelsOK, FocusReplied, LoadReplied
  <2>5. QED
    BY <2>3, <2>4 DEF Base
<1>5. ASSUME NEW c \in saves, SaveCallFails(c)
      PROVE  Base'
  <2>1. [c EXCEPT !.st = "failed"] \in Saves
    BY <1>1 DEF SyncTypeOK, Saves
  <2>2. saves' \subseteq Saves
    BY <1>1, <1>5, <2>1 DEF SaveCallFails, SyncTypeOK
  <2>3. UNCHANGED <<focus, load>> /\ odd' \subseteq odd \cup {"lost"}
    BY <1>5 DEF SaveCallFails
  <2>4. SyncTypeOK' /\ DueOK'
    BY <1>1, <1>2, <2>2, <2>3 DEF SyncTypeOK, DueOK
  <2>5. ChannelsOK'
    BY <1>1, <1>2, <2>3 DEF ChannelsOK, FocusReplied, LoadReplied
  <2>6. QED
    BY <2>4, <2>5 DEF Base
<1>6. QED
  BY <1>3, <1>4, <1>5, CallFailsCases

(* A mode command of the agent, and its answer. *)
LEMMA BaseAgent ==
    ASSUME Base, AgentStep
    PROVE  Base'
<1>1. SyncTypeOK /\ ChannelsOK /\ DueOK
  BY DEF Base
<1>2. srv.n \in Nat /\ (LoadReplied => load.active.reply.n \in Nat)
  BY <1>1, TypeParts, NothingFacts DEF LoadReplied, Loads, Server
<1>3. ASSUME NEW m \in Modes, AgentCommands(m)
      PROVE  Base'
  <2>1. /\ UNCHANGED <<local, view, focus, load, timer, saves, last, err, failed,
                       seen, faults>>
        /\ odd' = odd \cup {"agent"} /\ userActs' = userActs + 1
    BY <1>3 DEF AgentCommands, UserAct
  <2>2. /\ srv' \in Server /\ srv.n <= srv'.n
        /\ notes' \subseteq [mode : Modes, rev : Nat, sel : {Nothing},
                             id : Nat, reply : Server]
    BY <1>1, <1>3, AgentFacts
  <2>3. srv'.n \in Nat
    BY <2>2 DEF Server
  <2>4. SyncTypeOK' /\ DueOK'
    BY <1>1, <2>1, <2>2 DEF SyncTypeOK, DueOK
  <2>5. ChannelsOK'
    BY <1>1, <1>2, <2>1, <2>2, <2>3 DEF ChannelsOK, FocusReplied, LoadReplied
  <2>6. QED
    BY <2>4, <2>5 DEF Base
<1>4. ASSUME NEW m \in notes, Notified(m)
      PROVE  Base'
  <2>1. PICK v \in Server : v = FocusReply(m) /\ Receive(v)
    BY <1>1, <1>4, NotifiedFacts
  <2>2. /\ focus' \in Channel(Calls)
        /\ focus'.active = focus.active /\ focus'.waiting = focus.waiting
    BY <1>1, <1>4, NotifiedFacts
  <2>3. /\ UNCHANGED <<srv, load, saves, failed, userActs, faults>>
        /\ odd' = odd \cup Disordered(m.reply) /\ notes' \subseteq notes
    BY <1>4 DEF Notified
  <2>4. SyncTypeOK' /\ DueOK'
    BY <1>1, <2>1, <2>2, <2>3, ReceiveTypes, OddFacts
       DEF Base, SyncTypeOK, Oddities
  <2>5. ChannelsOK'
    BY <1>1, <2>2, <2>3 DEF ChannelsOK, FocusReplied, LoadReplied
  <2>6. QED
    BY <2>4, <2>5 DEF Base
<1>5. QED
  BY <1>3, <1>4 DEF AgentStep

(* A session just opened. *)
LEMMA BaseInit == SyncInit => Base
<1> SUFFICES ASSUME SyncInit PROVE Base
  OBVIOUS
<1>1. SyncTypeOK
  BY InitTypes
<1>2. ChannelsOK
  BY DEF SyncInit, Idle, ChannelsOK, FocusReplied, LoadReplied
<1>3. DueOK
  BY DEF SyncInit, DueOK, NotDue
<1>4. QED
  BY <1>1, <1>2, <1>3 DEF Base

(* Base is inductive. *)
LEMMA BaseNext == Base /\ [SyncNext]_syncVars => Base'
<1> SUFFICES ASSUME Base, [SyncNext]_syncVars PROVE Base'
  OBVIOUS
<1>1. CASE UNCHANGED syncVars
  BY <1>1
     DEF syncVars, Base, SyncTypeOK, ChannelsOK, DueOK, FocusReplied,
         LoadReplied
<1>2. CASE SyncNext
  BY <1>2, BaseUser, BaseSave, BaseFocus, BaseLoad, BaseFails, BaseAgent
     DEF SyncNext
<1>3. QED
  BY <1>1, <1>2

(* Types of the two copies of the state and of the three channels, whatever  *)
(* user, agent and failing calls do (useGraphSync.ts,                        *)
(* useSerializedLoader.ts).                                                  *)
THEOREM SyncTypeCorrect == SyncSpec => []SyncTypeOK
<1>1. Base => SyncTypeOK
  BY DEF Base
<1>2. QED
  BY <1>1, BaseInit, BaseNext, PTL DEF SyncSpec

---------------------------------------------------------------------------
(* Preferences *)

(* Saves the server has made and the browser has not heard of. *)
Written == {c \in saves : c.st = "saved"}

(* At most one save is due or under way; it carries the preferences the      *)
(* server has or, before the server made it, those to go back to; the view   *)
(* and a snapshot newer than every write heard of have the server's.         *)
SavesAgree ==
    /\ \A c, d \in saves : c = d
    /\ timer.on => saves = {} /\ timer.applied = srv.pref
    /\ \A c \in saves : IF c.st = "saved" THEN c.was.pref = srv.pref
                        ELSE c.applied = srv.pref
    /\ Written = {} => view.pref = srv.pref
    /\ saves = {} => last = srv.pref
    /\ LoadReplied /\ load.active.reply.n >= seen
         /\ (\A c \in Written : load.active.reply.n >= c.at)
         => load.active.reply.pref = srv.pref

SaveInv == SavesOrdered => SavesAgree

(* A step brings no load to an answer and changes none. *)
SameReply == LoadReplied' => LoadReplied /\ load'.active.reply = load.active.reply

(* An answer is a state of the server. *)
LEMMA ReplyTypes ==
    ASSUME SyncTypeOK
    PROVE  /\ LoadReplied => load.active.reply \in Server
           /\ LoadReplied => load.active.reply.n \in Nat
           /\ FocusReplied => focus.active.reply \in Server
           /\ seen \in Nat /\ srv.n \in Nat
  BY TypeParts, NothingFacts
     DEF SyncTypeOK, LoadReplied, FocusReplied, Loads, Calls, Server

(* Steps that move no preferences.  *)
LEMMA SaveFrame ==
    ASSUME Base, Base', SavesAgree, saves' = saves, srv'.pref = srv.pref,
           view'.pref = view.pref, last' = last, seen' >= seen, SameReply,
           timer'.on => saves = {} /\ timer'.applied \in {view.pref, srv.pref}
    PROVE  SavesAgree'
<1>1. Written' = Written
  BY DEF Written
<1>2. saves = {} => Written = {}
  BY DEF Written
<1>3. seen \in Nat /\ seen' \in Nat
  BY DEF Base, SyncTypeOK
<1>4. LoadReplied => load.active.reply.n \in Nat
  BY ReplyTypes DEF Base
<1>5. timer'.on => saves' = {} /\ timer'.applied = srv'.pref
  BY <1>2 DEF SavesAgree
<1>6. (LoadReplied /\ load.active.reply.n >= seen
         /\ (\A c \in Written : load.active.reply.n >= c.at)
         => load.active.reply.pref = srv.pref)'
  <2> SUFFICES ASSUME LoadReplied', load'.active.reply.n >= seen',
                      \A c \in Written' : load'.active.reply.n >= c.at
               PROVE  load'.active.reply.pref = srv'.pref
    OBVIOUS
  <2>1. LoadReplied /\ load'.active.reply = load.active.reply
    BY DEF SameReply
  <2>2. load.active.reply.n >= seen
    BY <1>3, <1>4, <2>1
  <2>3. \A c \in Written : load.active.reply.n >= c.at
    BY <1>1, <2>1
  <2>4. QED
    BY <2>1, <2>2, <2>3 DEF SavesAgree
<1>7. QED
  BY <1>1, <1>5, <1>6 DEF SavesAgree

(* A view is received whose preferences are the server's unless a save       *)
(* answered by the server has not come back.                                 *)
LEMMA SaveReceive ==
    ASSUME Base, Base', SavesAgree, NEW v \in Server, Receive(v),
           Written = {} => v.pref = srv.pref,
           saves' = saves, srv' = srv, SameReply
    PROVE  SavesAgree'
<1>1. SyncTypeOK
  BY DEF Base
<1>2. /\ view' = v /\ seen' \in Nat /\ seen' >= seen /\ last' = v.pref
      /\ timer'.on => timer' = timer
  BY <1>1, ReceiveFacts
<1>3. Written' = Written /\ (saves = {} => Written = {})
  BY DEF Written
<1>4. seen \in Nat /\ (LoadReplied => load.active.reply.n \in Nat)
  BY <1>1, ReplyTypes
<1>5. timer'.on => saves' = {} /\ timer'.applied = srv'.pref
  BY <1>2 DEF SavesAgree
<1>6. (LoadReplied /\ load.active.reply.n >= seen
         /\ (\A c \in Written : load.active.reply.n >= c.at)
         => load.active.reply.pref = srv.pref)'
  <2> SUFFICES ASSUME LoadReplied', load'.active.reply.n >= seen',
                      \A c \in Written' : load'.active.reply.n >= c.at
               PROVE  load'.active.reply.pref = srv'.pref
    OBVIOUS
  <2>1. LoadReplied /\ load'.active.reply = load.active.reply
    BY DEF SameReply
  <2>2. load.active.reply.n >= seen
    BY <1>2, <1>4, <2>1
  <2>3. \A c \in Written : load.active.reply.n >= c.at
    BY <1>3, <2>1
  <2>4. QED
    BY <2>1, <2>2, <2>3 DEF SavesAgree
<1>7. QED
  BY <1>2, <1>3, <1>5, <1>6 DEF SavesAgree

(* What was recorded stays recorded, so saves ordered after a step were      *)
(* ordered before it.                                                        *)
LEMMA SavesOrderedBefore ==
    ASSUME odd \subseteq odd', SavesOrdered'
    PROVE  SavesOrdered
  BY DEF SavesOrdered

(* The user: an edit, a retry or a rollback that makes a save due while      *)
(* another one is under way is recorded.                                     *)
LEMMA SaveUser ==
    ASSUME Base, Base', SavesAgree, UserStep, SavesOrdered'
    PROVE  SavesAgree'
<1>1. SyncTypeOK /\ DueOK /\ DueOK'
  BY DEF Base
<1>2. view \in Server /\ seen \in Nat
  BY <1>1, TypeParts DEF SyncTypeOK
<1>3. ASSUME UNCHANGED load
      PROVE  SameReply
  BY <1>3 DEF SameReply, LoadReplied
<1>4. ASSUME UNCHANGED <<view, srv, saves, last, seen>>, local' \in Local,
             timer' = Due(local', view, last), SameReply,
             local'.pref = local.pref \/ odd' = odd \cup Resave(timer')
      PROVE  SavesAgree'
  <2>1. timer'.applied = view.pref /\ (timer'.on <=> local'.pref # last)
    BY <1>1, <1>4, DueStep
  <2>2. timer'.on => saves = {}
    <3>1. CASE local'.pref = local.pref
      BY <1>1, <2>1, <3>1 DEF DueOK, SavesAgree
    <3>2. CASE odd' = odd \cup Resave(timer')
      BY <3>2 DEF Resave, SavesOrdered
    <3>3. QED
      BY <1>4, <3>1, <3>2
  <2>3. QED
    BY <1>2, <1>4, <2>1, <2>2, SaveFrame
<1>5. ASSUME NEW s \in Selections, SelectNode(s)
      PROVE  SavesAgree'
  BY <1>1, <1>3, <1>4, <1>5, SelectFacts DEF SelectNode
<1>6. ASSUME NEW m \in Modes, ChangeMode(m)
      PROVE  SavesAgree'
  BY <1>1, <1>3, <1>4, <1>6, ChangeFacts DEF ChangeMode
<1>7. ASSUME NEW w \in DataWindows, AskLoad(w)
      PROVE  SavesAgree'
  <2>1. local' \in Local /\ local'.pref = local.pref
    BY <1>1, <1>7, AskFacts
  <2>2. PICK q \in Loads :
              /\ q.st = "sent" /\ q.reply = Nothing
              /\ load'.active = IF load.active = Nothing THEN q ELSE load.active
    BY <1>1, <1>7, AskFacts
  <2>3. SameReply
    BY <2>2 DEF SameReply, LoadReplied
  <2>4. QED
    BY <1>4, <1>7, <2>1, <2>3 DEF AskLoad
<1>8. ASSUME NEW p \in Prefs, EditPref(p)
      PROVE  SavesAgree'
  BY <1>1, <1>3, <1>4, <1>8, EditFacts DEF EditPref
<1>9. ASSUME Retry
      PROVE  SavesAgree'
  BY <1>1, <1>3, <1>4, <1>9, RetryFacts DEF Retry
<1>10. QED
  BY <1>5, <1>6, <1>7, <1>8, <1>9 DEF UserStep

(* A save is sent, made, answered, or fails and is rolled back               *)
(* (useGraphSync.ts:128-158).                                                *)
LEMMA SaveSave ==
    ASSUME Base, Base', SavesAgree, SaveStep, SavesOrdered'
    PROVE  SavesAgree'
<1>1. SyncTypeOK /\ ChannelsOK /\ DueOK
  BY DEF Base
<1>2. /\ view \in Server /\ srv \in Server /\ seen \in Nat /\ srv.n \in Nat
      /\ LoadReplied => load.active.reply.n \in Nat /\ load.active.reply.n <= srv.n
  BY <1>1, TypeParts, ReplyTypes DEF ChannelsOK
<1>3. saves \subseteq Saves
  BY <1>1 DEF SyncTypeOK
<1>4. ASSUME Send
      PROVE  SavesAgree'
  <2>1. /\ timer.on /\ timer' = NotDue(view) /\ last' = local.pref
        /\ UNCHANGED <<view, srv, load, seen>>
    BY <1>4 DEF Send
  <2>2. PICK c : /\ c.was = local /\ c.applied = timer.applied /\ c.st = "sent"
                 /\ saves' = saves \cup {c}
    <3>1. PICK c : c = [id |-> userActs, was |-> local,
                        applied |-> timer.applied, st |-> "sent", at |-> 0]
      OBVIOUS
    <3>2. c.was = local /\ c.applied = timer.applied /\ c.st = "sent"
      BY <3>1
    <3>3. QED
      BY <1>4, <3>1, <3>2 DEF Send
  <2>3. saves = {} /\ timer.applied = srv.pref
    BY <2>1 DEF SavesAgree
  <2>4. saves' = {c} /\ Written = {} /\ Written' = {}
    BY <2>2, <2>3 DEF Written
  <2>5. ~timer'.on
    BY <2>1 DEF NotDue
  <2>6. LoadReplied' => LoadReplied
    BY <2>1 DEF LoadReplied
  <2>7. QED
    BY <2>1, <2>2, <2>3, <2>4, <2>5, <2>6 DEF SavesAgree
<1>5. ASSUME NEW c \in saves, ServerSaves(c)
      PROVE  SavesAgree'
  <2>1. /\ c.st = "sent" /\ UNCHANGED <<view, load, timer, last, seen>>
        /\ srv' = [srv EXCEPT !.pref = c.was.pref, !.n = srv.n + 1]
    BY <1>5 DEF ServerSaves
  <2>2. saves = {c}
    BY DEF SavesAgree
  <2>3. PICK d : d = [c EXCEPT !.st = "saved", !.at = srv.n + 1]
    OBVIOUS
  <2>4. d.st = "saved" /\ d.at = srv.n + 1 /\ d.was = c.was
    BY <1>3, <2>3 DEF Saves
  <2>5. saves' = {d}
    BY <1>5, <2>2, <2>3 DEF ServerSaves
  <2>6. Written' = {d}
    BY <2>4, <2>5 DEF Written
  <2>7. srv'.pref = d.was.pref
    BY <1>2, <2>1, <2>4 DEF Server
  <2>8. ~timer.on
    BY <2>2 DEF SavesAgree
  <2>9. LoadReplied' => LoadReplied /\ load'.active.reply.n < d.at
    BY <1>2, <2>1, <2>4 DEF LoadReplied
  <2>10. LoadReplied' => ~(load'.active.reply.n >= d.at)
    BY <1>2, <2>1, <2>4, <2>9
  <2>11. QED
    BY <2>1, <2>4, <2>5, <2>6, <2>7, <2>8, <2>10 DEF SavesAgree
<1>6. ASSUME NEW c \in saves, Saved(c)
      PROVE  SavesAgree'
  <2>1. /\ c.st = "saved" /\ UNCHANGED <<srv, load>> /\ saves' = saves \ {c}
    BY <1>6 DEF Saved
  <2>2. saves = {c} /\ c.was.pref = srv.pref /\ ~timer.on
    BY <2>1 DEF SavesAgree
  <2>3. /\ view'.pref = c.was.pref /\ last' = c.was.pref
        /\ ~timer'.on \/ timer' = timer
        /\ seen' \in Nat /\ seen' >= seen /\ seen' >= c.at
    BY <1>1, <1>6, SavedFacts
  <2>4. saves' = {} /\ Written' = {} /\ Written = {c}
    BY <2>1, <2>2 DEF Written
  <2>5. c.at \in Nat
    BY <1>3 DEF Saves
  <2>6. LoadReplied' /\ load'.active.reply.n >= seen'
          => LoadReplied /\ load.active.reply.n >= seen
             /\ load.active.reply.n >= c.at
    BY <1>2, <2>1, <2>3, <2>5 DEF LoadReplied
  <2>7. LoadReplied' /\ load'.active.reply.n >= seen'
          => load'.active.reply.pref = srv'.pref
    BY <2>1, <2>4, <2>6 DEF SavesAgree
  <2>8. QED
    BY <2>1, <2>2, <2>3, <2>4, <2>7 DEF SavesAgree
<1>7. ASSUME NEW c \in saves, SaveFails(c)
      PROVE  SavesAgree'
  <2>1. /\ c.st = "failed" /\ UNCHANGED <<srv, view, load, seen>>
        /\ saves' = saves \ {c} /\ last' = c.applied
    BY <1>7 DEF SaveFails
  <2>2. saves = {c} /\ c.applied = srv.pref
    BY <2>1 DEF SavesAgree
  <2>3. ~timer'.on
    BY <1>1, <1>7, SaveFailsFacts
  <2>4. saves' = {} /\ Written' = {} /\ Written = {}
    BY <2>1, <2>2 DEF Written
  <2>5. LoadReplied' => LoadReplied
    BY <2>1 DEF LoadReplied
  <2>6. QED
    BY <2>1, <2>2, <2>3, <2>4, <2>5 DEF SavesAgree
<1>8. QED
  BY <1>4, <1>5, <1>6, <1>7 DEF SaveStep

(* Focus commands carry no preferences; their answers patch the view. *)
LEMMA SaveFocus ==
    ASSUME Base, Base', SavesAgree, FocusStep \/ AgentStep, SavesOrdered'
    PROVE  SavesAgree'
<1>1. SyncTypeOK /\ ChannelsOK /\ DueOK
  BY DEF Base
<1>2. /\ view \in Server /\ srv \in Server /\ seen \in Nat
  BY <1>1, TypeParts, ReplyTypes
<1>3. ASSUME UNCHANGED load
      PROVE  SameReply
  BY <1>3 DEF SameReply, LoadReplied
<1>4. ASSUME UNCHANGED <<view, load, timer, saves, last, seen>>,
             srv'.pref = srv.pref
      PROVE  SavesAgree'
  <2>1. timer'.on => saves = {} /\ timer'.applied = srv.pref
    BY <1>4 DEF SavesAgree
  <2>2. QED
    BY <1>2, <1>3, <1>4, <2>1, SaveFrame
<1>5. ASSUME NEW v \in Server, Receive(v), v.pref = view.pref,
             UNCHANGED <<srv, load, saves>>
      PROVE  SavesAgree'
  <2>1. Written = {} => v.pref = srv.pref
    BY <1>5 DEF SavesAgree
  <2>2. QED
    BY <1>3, <1>5, <2>1, SaveReceive
<1>6. CASE Reserve
  <2>1. srv'.pref = srv.pref
    BY <1>1, <1>6, ReserveFacts
  <2>2. QED
    BY <1>4, <1>6, <2>1 DEF Reserve
<1>7. CASE Refuse
  BY <1>4, <1>7 DEF Refuse
<1>8. CASE FocusCommit
  <2>1. srv'.pref = srv.pref
    BY <1>1, <1>8, CommitFacts
  <2>2. QED
    BY <1>4, <1>8, <2>1 DEF FocusCommit
<1>9. CASE FocusReturns
  <2>1. PICK c : c = focus.active
    OBVIOUS
  <2>2. /\ c.mode \in Modes \cup {Nothing} /\ c.rev \in Nat
        /\ c.sel \in Selections /\ c.id \in Nat /\ c.reply \in Server
        /\ FocusReply(c) \in Server /\ Receive(FocusReply(c))
    BY <1>1, <1>9, <2>1, FocusReturnsFacts
  <2>3. FocusReply(c).pref = view.pref
    BY <1>1, <2>2, FocusReplyTypes
  <2>4. QED
    BY <1>5, <1>9, <2>2, <2>3 DEF FocusReturns
<1>10. CASE FocusFails
  BY <1>4, <1>10 DEF FocusFails
<1>11. ASSUME NEW m \in Modes, AgentCommands(m)
       PROVE  SavesAgree'
  <2>1. srv'.pref = srv.pref
    BY <1>1, <1>11, AgentFacts
  <2>2. QED
    BY <1>4, <1>11, <2>1 DEF AgentCommands
<1>12. ASSUME NEW m \in notes, Notified(m)
       PROVE  SavesAgree'
  <2>1. /\ FocusReply(m) \in Server /\ Receive(FocusReply(m))
        /\ FocusReply(m).pref = view.pref
    BY <1>1, <1>12, NotifiedFacts
  <2>2. QED
    BY <1>5, <1>12, <2>1 DEF Notified
<1>13. QED
  BY <1>6, <1>7, <1>8, <1>9, <1>10, <1>11, <1>12 DEF FocusStep, AgentStep

(* Loads: the snapshot has the server's preferences at the time of the       *)
(* answer, and one that comes in the order of the writes has them still.     *)
LEMMA SaveLoad ==
    ASSUME Base, Base', SavesAgree, LoadStep, SavesOrdered'
    PROVE  SavesAgree'
<1>1. SyncTypeOK /\ ChannelsOK /\ DueOK
  BY DEF Base
<1>2. /\ view \in Server /\ srv \in Server /\ seen \in Nat
      /\ LoadReplied => load.active.reply.n \in Nat
  BY <1>1, TypeParts, ReplyTypes
<1>3. timer.on => saves = {} /\ timer.applied = srv.pref
  BY DEF SavesAgree
<1>4. CASE LoadCommit
  <2>1. /\ srv'.pref = srv.pref /\ load'.active.reply = load.active.reply
        /\ UNCHANGED <<view, timer, saves, last, seen>>
        /\ load.active # Nothing
    BY <1>1, <1>4, LoadCommitFacts DEF LoadCommit
  <2>2. SameReply
    BY <2>1 DEF SameReply, LoadReplied
  <2>3. QED
    BY <1>2, <1>3, <2>1, <2>2, SaveFrame
<1>5. CASE LoadAnswer
  <2>1. /\ load'.active.reply = srv
        /\ UNCHANGED <<view, srv, timer, saves, last, seen>>
    BY <1>1, <1>5, LoadAnswerFacts DEF LoadAnswer
  <2>2. Written' = Written
    BY <2>1 DEF Written
  <2>3. QED
    BY <2>1, <2>2 DEF SavesAgree
<1>6. CASE LoadReturns
  <2>1. PICK r \in Server : r = load.active.reply /\ Receive(r) /\ LoadReplied
    BY <1>1, <1>6, LoadReturnsFacts
  <2>2. load'.active = load.waiting
    BY <1>1, <1>6, LoadReturnsFacts
  <2>3. SameReply
    BY <1>1, <2>2 DEF SameReply, LoadReplied, ChannelsOK
  <2>4. UNCHANGED <<srv, saves>> /\ odd' = odd \cup Disordered(r)
    BY <1>6, <2>1 DEF LoadReturns
  <2>5. r.n >= seen
    BY <1>2, <2>1, <2>4 DEF Disordered, SavesOrdered
  <2>6. Written = {} => r.pref = srv.pref
    BY <2>1, <2>5 DEF SavesAgree
  <2>7. QED
    BY <2>1, <2>3, <2>4, <2>6, SaveReceive
<1>7. CASE LoadRejected
  <2>1. /\ UNCHANGED <<view, srv, saves, last, seen>>
        /\ timer' = Due(local', view, last) /\ odd' = odd \cup Resave(timer')
    BY <1>7 DEF LoadRejected
  <2>2. local' \in Local /\ load'.active = load.waiting
    BY <1>1, <1>7, RejectedFacts
  <2>3. SameReply
    BY <1>1, <2>2 DEF SameReply, LoadReplied, ChannelsOK
  <2>4. timer'.applied = view.pref
    BY <1>1, <2>1, <2>2, DueStep
  <2>5. timer'.on => saves = {}
    BY <2>1 DEF Resave, SavesOrdered
  <2>6. QED
    BY <1>2, <2>1, <2>3, <2>4, <2>5, SaveFrame
<1>8. QED
  BY <1>4, <1>5, <1>6, <1>7 DEF LoadStep

(* A call fails: a save that the server made and whose answer is lost is     *)
(* recorded.                                                                 *)
LEMMA SaveCall ==
    ASSUME Base, Base', SavesAgree, CallFails, SavesOrdered'
    PROVE  SavesAgree'
<1>1. SyncTypeOK /\ ChannelsOK /\ DueOK
  BY DEF Base
<1>2. UNCHANGED <<view, srv, timer, last, seen>> /\ seen \in Nat
  BY <1>1, CallFailsCases, ReplyTypes
<1>3. timer.on => saves = {} /\ timer.applied = srv.pref
  BY DEF SavesAgree
<1>4. CASE FocusCallFails
  <2>1. SameReply /\ UNCHANGED saves
    BY <1>4 DEF FocusCallFails, SameReply, LoadReplied
  <2>2. QED
    BY <1>2, <1>3, <2>1, SaveFrame
<1>5. CASE LoadCallFails
  <2>1. load'.active.reply = load.active.reply /\ load.active # Nothing
    BY <1>1, <1>5, LoadFailedFacts DEF LoadCallFails
  <2>2. SameReply /\ UNCHANGED saves
    BY <1>5, <2>1 DEF LoadCallFails, SameReply, LoadReplied
  <2>3. QED
    BY <1>2, <1>3, <2>2, SaveFrame
<1>6. ASSUME NEW c \in saves, SaveCallFails(c)
      PROVE  SavesAgree'
  <2>1. UNCHANGED load /\ c.st # "failed" /\ c.st # "saved"
    BY <1>6 DEF SaveCallFails, SavesOrdered
  <2>2. PICK d : d = [c EXCEPT !.st = "failed"]
    OBVIOUS
  <2>3. d.st = "failed" /\ d.applied = c.applied
    BY <1>1, <2>2 DEF SyncTypeOK, Saves
  <2>4. saves = {c} /\ c.applied = srv.pref
    BY <2>1 DEF SavesAgree
  <2>5. saves' = {d}
    BY <1>6, <2>2, <2>4 DEF SaveCallFails
  <2>6. Written = {} /\ Written' = {}
    BY <2>1, <2>3, <2>4, <2>5 DEF Written
  <2>7. ~timer'.on
    BY <1>2, <1>3, <2>4
  <2>8. LoadReplied' => LoadReplied
    BY <2>1 DEF LoadReplied
  <2>9. QED
    BY <1>2, <2>1, <2>3, <2>4, <2>5, <2>6, <2>7, <2>8 DEF SavesAgree
<1>7. QED
  BY <1>4, <1>5, <1>6, CallFailsCases

(* What the protocol does not order stays recorded. *)
LEMMA OddGrows ==
    ASSUME [SyncNext]_syncVars
    PROVE  odd \subseteq odd'
<1>1. ASSUME UserStep \/ SaveStep
      PROVE  odd \subseteq odd'
  BY <1>1 DEF UserStep, SaveStep, SelectNode, ChangeMode, AskLoad, EditPref,
       Retry, Send, ServerSaves, Saved, SaveFails
<1>2. ASSUME FocusStep \/ LoadStep
      PROVE  odd \subseteq odd'
  BY <1>2 DEF FocusStep, LoadStep, Reserve, Refuse, FocusCommit, FocusReturns,
       FocusFails, LoadCommit, LoadAnswer, LoadReturns, LoadRejected
<1>3. ASSUME CallFails \/ AgentStep
      PROVE  odd \subseteq odd'
  BY <1>3, CallFailsCases DEF AgentStep, AgentCommands, Notified,
       FocusCallFails, LoadCallFails, SaveCallFails
<1>4. QED
  BY <1>1, <1>2, <1>3 DEF SyncNext, syncVars

(* At the start all have the stored preferences. *)
LEMMA SaveInit == SyncInit => SaveInv
<1> SUFFICES ASSUME SyncInit PROVE SavesAgree
  BY DEF SaveInv
<1>1. saves = {} /\ ~timer.on /\ last = InitPref /\ ~LoadReplied
  BY DEF SyncInit, NotDue, Idle, LoadReplied
<1>2. view.pref = InitPref /\ srv.pref = InitPref
  BY DEF SyncInit
<1>3. QED
  BY <1>1, <1>2 DEF SavesAgree, Written

(* SaveInv is inductive, relative to Base. *)
LEMMA SaveNext ==
    ASSUME Base, SaveInv, [SyncNext]_syncVars
    PROVE  SaveInv'
<1> SUFFICES ASSUME SavesOrdered' PROVE SavesAgree'
  BY DEF SaveInv
<1>1. SavesOrdered /\ SavesAgree /\ Base'
  BY OddGrows, SavesOrderedBefore, BaseNext DEF SaveInv
<1>2. CASE UNCHANGED syncVars
  <2>1. Written' = Written /\ LoadReplied' = LoadReplied
    BY <1>2 DEF syncVars, Written, LoadReplied
  <2>2. QED
    BY <1>1, <1>2, <2>1 DEF syncVars, SavesAgree
<1>3. CASE SyncNext
  BY <1>1, <1>3, SaveUser, SaveSave, SaveFocus, SaveLoad, SaveCall DEF SyncNext
<1>4. QED
  BY <1>2, <1>3

(* With no save due or under way the screen has the server's preferences: an *)
(* edit was saved or rolled back in sight, for any number of edits, saves,   *)
(* retries and failures that the protocol orders (useGraphSync.ts:128-158).  *)
THEOREM PrefsConvergeCorrect == SyncSpec => []PrefsConverge
<1>1. SyncInit => Base /\ SaveInv
  BY BaseInit, SaveInit
<1>2. (Base /\ SaveInv) /\ [SyncNext]_syncVars => (Base /\ SaveInv)'
  BY BaseNext, SaveNext
<1>3. Base /\ SaveInv => PrefsConverge
  BY DEF Base, DueOK, SaveInv, SavesAgree, PrefsConverge
<1>4. QED
  BY <1>1, <1>2, <1>3, PTL DEF SyncSpec

---------------------------------------------------------------------------
(* Tab and selection *)

(* The newest focus command that has no answer. *)
Newest == IF focus.waiting = Nothing THEN focus.active ELSE focus.waiting

(* The browser shows what the newest command asks for, and without one what  *)
(* the server has.                                                           *)
NewestShown ==
    IF Newest = Nothing THEN local.mode = srv.mode /\ Sel(local) = srv.sel
    ELSE /\ local.mode = (IF Newest.mode = Nothing THEN srv.mode ELSE Newest.mode)
         /\ Sel(local) = Newest.sel

(* A mode command is never followed before its answer. *)
OneMode == focus.waiting # Nothing => focus.active.mode = Nothing

(* A reserved command has the server's newest request id, and a mode command *)
(* the next mode revision: it will not be refused.                           *)
ReservedOK ==
    focus.active # Nothing /\ focus.active.st = "reserved" =>
        /\ focus.active.id = srv.req
        /\ focus.active.mode # Nothing => focus.active.rev = srv.rev + 1

(* The server has what an answered command wrote. *)
RepliedOK ==
    FocusReplied =>
        /\ srv.sel = focus.active.sel
        /\ focus.active.mode # Nothing =>
              srv.mode = focus.active.mode /\ focus.active.rev = srv.rev
        /\ focus.active.reply.data <= srv.data
        /\ focus.active.reply.n <= srv.n

(* The browser's mode revision is the server's or the one before, and the    *)
(* latter only while the answer of the mode command is under way.            *)
ViewOK ==
    /\ view.rev = local.rev
    /\ view.rev <= srv.rev /\ srv.rev <= view.rev + 1
    /\ view.rev < srv.rev => FocusReplied /\ focus.active.mode # Nothing
    /\ view.data <= srv.data
    /\ FocusReplied /\ view.data >= focus.active.reply.data => view.rev = srv.rev

(* What a load's snapshot may be: of a mode revision the browser has if it   *)
(* is of the browser's data, of the server's if it was taken after the       *)
(* commit of the command under way, and then with what that command wrote.   *)
SnapshotOK(r) ==
    /\ r.rev <= srv.rev /\ r.data <= srv.data
    /\ r.data >= view.data => r.rev >= view.rev
    /\ r.data <= view.data => r.rev <= view.rev
    /\ r.n >= seen => r.rev >= view.rev
    /\ FocusReplied =>
          /\ r.data >= focus.active.reply.data => r.rev = srv.rev
          /\ r.n >= focus.active.reply.n => r.rev = srv.rev
          /\ focus.active.mode # Nothing /\ r.rev = srv.rev =>
                r.mode = focus.active.mode /\ r.sel = focus.active.sel

FocusAgree ==
    /\ notes = {}
    /\ NewestShown /\ OneMode /\ ReservedOK /\ RepliedOK /\ ViewOK
    /\ LoadReplied => SnapshotOK(load.active.reply)

FocusInv == FocusOrdered => FocusAgree

(* Revisions and counters are numbers. *)
LEMMA Numbers ==
    ASSUME SyncTypeOK
    PROVE  /\ srv.rev \in Nat /\ srv.data \in Nat /\ srv.n \in Nat /\ srv.req \in Nat
           /\ view.rev \in Nat /\ view.data \in Nat /\ local.rev \in Nat
           /\ seen \in Nat
           /\ FocusReplied => focus.active.reply.data \in Nat
                              /\ focus.active.reply.n \in Nat
           /\ LoadReplied => load.active.reply.data \in Nat
                             /\ load.active.reply.n \in Nat
                             /\ load.active.reply.rev \in Nat
  BY TypeParts, ReplyTypes DEF Server, Local

(* Steps that move no focus: the data revision, the count of writes and the  *)
(* newest write heard of may grow.                                           *)
LEMMA FocusFrame ==
    ASSUME Base, Base', FocusAgree, notes' = notes,
           focus'.active = focus.active, focus'.waiting = focus.waiting,
           srv'.mode = srv.mode, srv'.rev = srv.rev, srv'.sel = srv.sel,
           srv'.req = srv.req, srv'.data >= srv.data, srv'.n >= srv.n,
           view'.rev = view.rev, view'.data = view.data, seen' >= seen,
           local'.rev = local.rev, local'.mode = local.mode,
           Sel(local') = Sel(local), SameReply
    PROVE  FocusAgree'
<1>1. SyncTypeOK /\ SyncTypeOK'
  BY DEF Base
<1>2. /\ srv.data \in Nat /\ srv.n \in Nat /\ view.data \in Nat /\ seen \in Nat
      /\ FocusReplied => focus.active.reply.data \in Nat
                         /\ focus.active.reply.n \in Nat
      /\ LoadReplied => load.active.reply.data \in Nat
                        /\ load.active.reply.n \in Nat
  BY <1>1, Numbers
<1>3. srv'.data \in Nat /\ srv'.n \in Nat /\ seen' \in Nat
  BY <1>1 DEF SyncTypeOK, Server
<1>4. FocusReplied' = FocusReplied /\ Newest' = Newest
  BY DEF FocusReplied, Newest
<1>5. NewestShown' /\ OneMode' /\ ReservedOK'
  BY <1>4 DEF FocusAgree, NewestShown, OneMode, ReservedOK
<1>6. RepliedOK'
  BY <1>2, <1>3, <1>4 DEF FocusAgree, RepliedOK
<1>7. ViewOK'
  BY <1>2, <1>3, <1>4 DEF FocusAgree, ViewOK
<1>8. (LoadReplied => SnapshotOK(load.active.reply))'
  BY <1>2, <1>3, <1>4 DEF FocusAgree, SnapshotOK, SameReply
<1>9. QED
  BY <1>5, <1>6, <1>7, <1>8 DEF FocusAgree

(* A command is given while no mode command is under way                     *)
(* (GraphExplorerApp.tsx:181-279).                                           *)
LEMMA FocusIssue ==
    ASSUME Base, Base', FocusAgree, NEW m \in Modes \cup {Nothing},
           NEW s \in Selections,
           focus' = Enqueue(focus, FocusCall(m, s)), Overlap = {},
           UNCHANGED <<view, srv, load, notes, seen>>,
           local'.mode = IF m = Nothing THEN local.mode ELSE m,
           Sel(local') = s, local'.rev = local.rev
    PROVE  FocusAgree'
<1>1. SyncTypeOK /\ ChannelsOK
  BY DEF Base
<1>2. PICK q \in Calls :
         /\ q.st = "sent" /\ q.mode = m /\ q.sel = s /\ q.reply = Nothing
         /\ focus'.active = IF focus.active = Nothing THEN q ELSE focus.active
         /\ focus'.waiting = IF focus.active = Nothing THEN focus.waiting ELSE q
  BY <1>1, IssueFacts
<1>3. q # Nothing
  BY NothingFacts
<1>4. /\ focus.active # Nothing => focus.active.mode = Nothing
      /\ focus.waiting # Nothing => focus.waiting.mode = Nothing
  BY DEF Overlap
<1>5. local.mode = srv.mode
  BY <1>4 DEF FocusAgree, NewestShown, Newest
<1>6. focus.active = Nothing => focus.waiting = Nothing
  BY <1>1 DEF ChannelsOK
<1>7. Newest' = q
  BY <1>2, <1>3, <1>6 DEF Newest
<1>8. NewestShown'
  BY <1>2, <1>3, <1>5, <1>7 DEF NewestShown
<1>9. OneMode'
  BY <1>2, <1>3, <1>4, <1>6 DEF OneMode
<1>10. /\ FocusReplied' = FocusReplied
       /\ FocusReplied => focus'.active = focus.active
  BY <1>2, <1>3 DEF FocusReplied
<1>11. ReservedOK'
  BY <1>2, <1>4 DEF FocusAgree, ReservedOK
<1>12. RepliedOK' /\ ViewOK'
  BY <1>10 DEF FocusAgree, RepliedOK, ViewOK
<1>13. (LoadReplied => SnapshotOK(load.active.reply))'
  BY <1>10 DEF FocusAgree, SnapshotOK, LoadReplied
<1>14. QED
  BY <1>8, <1>9, <1>11, <1>12, <1>13 DEF FocusAgree

(* The user: a command that overtakes a mode command is recorded. *)
LEMMA FocusUser ==
    ASSUME Base, Base', FocusAgree, UserStep, FocusOrdered'
    PROVE  FocusAgree'
<1>1. SyncTypeOK /\ ChannelsOK
  BY DEF Base
<1>2. /\ srv.data \in Nat /\ srv.n \in Nat /\ seen \in Nat
  BY <1>1, Numbers
<1>3. ASSUME UNCHANGED <<view, srv, focus, notes, seen>>, SameReply,
             local'.rev = local.rev, local'.mode = local.mode,
             Sel(local') = Sel(local)
      PROVE  FocusAgree'
  BY <1>2, <1>3, FocusFrame
<1>4. ASSUME UNCHANGED load
      PROVE  SameReply
  BY <1>4 DEF SameReply, LoadReplied
<1>5. ASSUME odd' = odd \cup Overlap
      PROVE  Overlap = {}
  BY <1>5 DEF Overlap, FocusOrdered
<1>6. ASSUME NEW s \in Selections, SelectNode(s)
      PROVE  FocusAgree'
  <2>1. local'.mode = local.mode /\ Sel(local') = s /\ local'.rev = local.rev
    BY <1>1, <1>6, SelectFacts
  <2>2. /\ focus' = Enqueue(focus, FocusCall(Nothing, s)) /\ Overlap = {}
        /\ UNCHANGED <<view, srv, load, notes, seen>>
    BY <1>5, <1>6 DEF SelectNode
  <2>3. Nothing \in Modes \cup {Nothing}
    OBVIOUS
  <2>4. QED
    BY <2>1, <2>2, <2>3, FocusIssue
<1>7. ASSUME NEW m \in Modes, ChangeMode(m)
      PROVE  FocusAgree'
  <2>1. local'.mode = m /\ Sel(local') = local.mem[m] /\ local'.rev = local.rev
        /\ local.mem[m] \in Selections
    BY <1>1, <1>7, ChangeFacts
  <2>2. /\ focus' = Enqueue(focus, FocusCall(m, local.mem[m])) /\ Overlap = {}
        /\ UNCHANGED <<view, srv, load, notes, seen>>
    BY <1>5, <1>7 DEF ChangeMode
  <2>3. m # Nothing
    BY NothingFacts
  <2>4. QED
    BY <2>1, <2>2, <2>3, FocusIssue
<1>8. ASSUME NEW w \in DataWindows, AskLoad(w)
      PROVE  FocusAgree'
  <2>1. local'.mode = local.mode /\ Sel(local') = Sel(local)
        /\ local'.rev = local.rev
    BY <1>1, <1>8, AskFacts
  <2>2. PICK q \in Loads :
              /\ q.st = "sent" /\ q.reply = Nothing
              /\ load'.active = IF load.active = Nothing THEN q ELSE load.active
    BY <1>1, <1>8, AskFacts
  <2>3. SameReply
    BY <2>2 DEF SameReply, LoadReplied
  <2>4. QED
    BY <1>3, <1>8, <2>1, <2>3 DEF AskLoad
<1>9. ASSUME NEW p \in Prefs, EditPref(p)
      PROVE  FocusAgree'
  BY <1>1, <1>3, <1>4, <1>9, EditFacts DEF EditPref
<1>10. ASSUME Retry
       PROVE  FocusAgree'
  BY <1>1, <1>3, <1>4, <1>10, RetryFacts DEF Retry
<1>11. QED
  BY <1>6, <1>7, <1>8, <1>9, <1>10 DEF UserStep

(* Saves: a failed one restores the focus it was sent with, which is the     *)
(* focus of now or is recorded.                                              *)
LEMMA FocusSave ==
    ASSUME Base, Base', FocusAgree, SaveStep, FocusOrdered'
    PROVE  FocusAgree'
<1>1. SyncTypeOK /\ ChannelsOK
  BY DEF Base
<1>2. /\ srv.data \in Nat /\ srv.n \in Nat /\ seen \in Nat /\ srv \in Server
  BY <1>1, Numbers, TypeParts
<1>3. ASSUME UNCHANGED load
      PROVE  SameReply
  BY <1>3 DEF SameReply, LoadReplied
<1>4. ASSUME Send
      PROVE  FocusAgree'
  BY <1>2, <1>3, <1>4, FocusFrame DEF Send
<1>5. ASSUME NEW c \in saves, ServerSaves(c)
      PROVE  FocusAgree'
  <2>1. srv' = [srv EXCEPT !.pref = c.was.pref, !.n = srv.n + 1]
    BY <1>5 DEF ServerSaves
  <2>2. /\ srv'.mode = srv.mode /\ srv'.rev = srv.rev /\ srv'.sel = srv.sel
        /\ srv'.req = srv.req /\ srv'.data = srv.data /\ srv'.n = srv.n + 1
    BY <1>2, <2>1 DEF Server
  <2>3. UNCHANGED <<local, view, focus, load, notes, seen>>
    BY <1>5 DEF ServerSaves
  <2>4. QED
    BY <1>2, <1>3, <2>2, <2>3, FocusFrame
<1>6. ASSUME NEW c \in saves, Saved(c)
      PROVE  FocusAgree'
  <2>1. UNCHANGED <<srv, focus, load, notes>>
    BY <1>6 DEF Saved
  <2>2. /\ view'.rev = view.rev /\ view'.data = view.data /\ seen' >= seen
        /\ local'.mode = local.mode /\ Sel(local') = Sel(local)
        /\ local'.rev = local.rev
    BY <1>1, <1>6, SavedFacts
  <2>3. QED
    BY <1>2, <1>3, <2>1, <2>2, FocusFrame
<1>7. ASSUME NEW c \in saves, SaveFails(c)
      PROVE  FocusAgree'
  <2>1. /\ UNCHANGED <<srv, view, focus, load, notes, seen>>
        /\ odd' = IF local = c.was THEN odd ELSE odd \cup {"restore"}
    BY <1>7 DEF SaveFails
  <2>2. local = c.was
    BY <2>1 DEF FocusOrdered
  <2>3. local'.mode = local.mode /\ Sel(local') = Sel(local)
        /\ local'.rev = local.rev
    BY <1>1, <1>7, <2>2, SaveFailsFacts
  <2>4. QED
    BY <1>2, <1>3, <2>1, <2>3, FocusFrame
<1>8. QED
  BY <1>4, <1>5, <1>6, <1>7 DEF SaveStep

(* A focus call fails, or is refused, and keeps what it commands. *)
LEMMA FocusFailing ==
    ASSUME Base, Base', FocusAgree, focus.active # Nothing,
           Failing(focus, focus'),
           UNCHANGED <<local, view, srv, load, notes, seen>>
    PROVE  FocusAgree'
<1>1. focus \in Channel(Calls)
  BY TypeParts DEF Base
<1>2. /\ focus'.waiting = focus.waiting
      /\ focus'.active \in Calls /\ focus'.active.st = "failed"
      /\ focus'.active.mode = focus.active.mode
      /\ focus'.active.sel = focus.active.sel
      /\ focus'.active.rev = focus.active.rev
      /\ focus'.active.reply = focus.active.reply
  BY <1>1, FailedFacts
<1>3. focus'.active # Nothing
  BY <1>2, NothingFacts
<1>4. FocusReplied' = FocusReplied
  BY <1>2, <1>3 DEF FocusReplied
<1>5. NewestShown'
  BY <1>2, <1>3 DEF FocusAgree, NewestShown, Newest
<1>6. OneMode' /\ ReservedOK'
  BY <1>2 DEF FocusAgree, OneMode, ReservedOK
<1>7. RepliedOK' /\ ViewOK'
  BY <1>2, <1>4 DEF FocusAgree, RepliedOK, ViewOK
<1>8. (LoadReplied => SnapshotOK(load.active.reply))'
  BY <1>2, <1>4 DEF FocusAgree, SnapshotOK, LoadReplied
<1>9. QED
  BY <1>5, <1>6, <1>7, <1>8 DEF FocusAgree

(* The server reserves the channel and reads the mode revision. *)
LEMMA FocusReserve ==
    ASSUME Base, Base', FocusAgree, Reserve
    PROVE  FocusAgree'
<1>1. SyncTypeOK /\ ChannelsOK
  BY DEF Base
<1>2. /\ UNCHANGED <<local, view, load, notes, seen>>
      /\ focus.active # Nothing /\ focus.active.st = "sent"
  BY DEF Reserve
<1>3. ~FocusReplied
  BY <1>1, <1>2 DEF ChannelsOK
<1>4. /\ focus'.active \in Calls /\ focus'.waiting = focus.waiting
      /\ focus'.active.st = "reserved"
      /\ focus'.active.mode = focus.active.mode
      /\ focus'.active.sel = focus.active.sel
      /\ focus'.active.reply = focus.active.reply
      /\ focus'.active.rev = srv.rev + 1
      /\ focus'.active.id = srv'.req
      /\ srv'.mode = srv.mode /\ srv'.rev = srv.rev /\ srv'.sel = srv.sel
      /\ srv'.data = srv.data /\ srv'.n = srv.n
  BY <1>1, ReserveFacts
<1>5. focus'.active # Nothing
  BY <1>4, NothingFacts
<1>6. ~FocusReplied'
  BY <1>2, <1>3, <1>4 DEF FocusReplied
<1>7. NewestShown'
  BY <1>2, <1>4, <1>5 DEF FocusAgree, NewestShown, Newest
<1>8. OneMode' /\ ReservedOK'
  BY <1>4 DEF FocusAgree, OneMode, ReservedOK
<1>9. RepliedOK' /\ ViewOK'
  BY <1>2, <1>3, <1>4, <1>6 DEF FocusAgree, RepliedOK, ViewOK
<1>10. (LoadReplied => SnapshotOK(load.active.reply))'
  BY <1>2, <1>3, <1>4, <1>6 DEF FocusAgree, SnapshotOK, LoadReplied
<1>11. QED
  BY <1>2, <1>7, <1>8, <1>9, <1>10 DEF FocusAgree

(* The commit writes what was reserved: nothing overtook it. *)
LEMMA FocusCommits ==
    ASSUME Base, Base', FocusAgree, FocusCommit
    PROVE  FocusAgree'
<1>1. SyncTypeOK /\ ChannelsOK
  BY DEF Base
<1>2. /\ UNCHANGED <<local, view, load, notes, seen>>
      /\ focus.active # Nothing /\ focus.active.st = "reserved"
  BY DEF FocusCommit
<1>3. ~FocusReplied
  BY <1>1, <1>2 DEF ChannelsOK
<1>4. /\ srv.rev \in Nat /\ srv.data \in Nat /\ srv.n \in Nat /\ srv.req \in Nat
      /\ view.rev \in Nat /\ view.data \in Nat /\ seen \in Nat
      /\ LoadReplied => load.active.reply.data \in Nat
                        /\ load.active.reply.n \in Nat
                        /\ load.active.reply.rev \in Nat
  BY <1>1, Numbers
<1>5. /\ focus.active.id = srv.req
      /\ focus.active.mode # Nothing => focus.active.rev = srv.rev + 1
  BY <1>2 DEF FocusAgree, ReservedOK
<1>6. view.rev = srv.rev
  BY <1>3, <1>4 DEF FocusAgree, ViewOK
<1>7. /\ focus'.active \in Calls /\ focus'.waiting = focus.waiting
      /\ focus'.active.st = "replied" /\ focus'.active.rev = focus.active.rev
      /\ focus'.active.reply = srv' /\ focus'.active.sel = srv'.sel
  BY <1>1, CommitFacts
<1>8. /\ focus'.active.mode = focus.active.mode
      /\ srv'.mode = (IF focus.active.mode = Nothing THEN srv.mode
                      ELSE focus.active.mode)
      /\ srv'.rev = (IF focus.active.mode = Nothing THEN srv.rev
                     ELSE focus.active.rev)
      /\ srv'.sel = focus.active.sel
      /\ srv'.data = srv.data + 1 /\ srv'.n = srv.n + 1
  BY <1>1, <1>4, <1>5, CommitFacts
<1>9. focus'.active # Nothing
  BY <1>7, NothingFacts
<1>10. NewestShown'
  BY <1>2, <1>7, <1>8, <1>9 DEF FocusAgree, NewestShown, Newest, OneMode
<1>11. OneMode' /\ ReservedOK'
  BY <1>7, <1>8 DEF FocusAgree, OneMode, ReservedOK
<1>12. RepliedOK'
  BY <1>4, <1>5, <1>7, <1>8 DEF RepliedOK
<1>13. ViewOK'
  <2>1. \/ srv'.rev = srv.rev
        \/ (srv'.rev = srv.rev + 1 /\ focus.active.mode # Nothing)
    BY <1>5, <1>8
  <2>2. view.data < srv'.data /\ view.rev = local.rev
    BY <1>4, <1>8 DEF FocusAgree, ViewOK
  <2>3. FocusReplied' => focus'.active.reply.data = srv'.data
    BY <1>7
  <2>4. srv' \in Server
    BY <1>1, CommitFacts
  <2>5. FocusReplied'
    BY <1>7, <1>9, <2>4, NothingFacts DEF FocusReplied
  <2>6. QED
    BY <1>2, <1>4, <1>6, <1>7, <1>8, <2>1, <2>2, <2>3, <2>5 DEF ViewOK
<1>14. ASSUME LoadReplied
       PROVE  SnapshotOK(load.active.reply)'
  <2>1. PICK r : r = load.active.reply
    OBVIOUS
  <2>2. /\ r.data \in Nat /\ r.n \in Nat /\ r.rev \in Nat
        /\ r.rev <= srv.rev /\ r.data <= srv.data /\ r.n <= srv.n
        /\ r.data >= view.data => r.rev >= view.rev
        /\ r.data <= view.data => r.rev <= view.rev
        /\ r.n >= seen => r.rev >= view.rev
    BY <1>1, <1>4, <1>14, <2>1 DEF FocusAgree, SnapshotOK, ChannelsOK
  <2>3. \/ srv'.rev = srv.rev
        \/ (srv'.rev = srv.rev + 1 /\ focus.active.mode # Nothing)
    BY <1>5, <1>8
  <2>4. /\ ~(r.data >= focus'.active.reply.data)
        /\ ~(r.n >= focus'.active.reply.n)
    BY <1>4, <1>7, <1>8, <2>2
  <2>5. r.rev <= srv'.rev /\ r.data <= srv'.data
    BY <1>4, <1>8, <2>2, <2>3
  <2>6. focus'.active.mode # Nothing => r.rev # srv'.rev
    BY <1>4, <1>5, <1>8, <2>2
  <2>7. load'.active.reply = r
    BY <1>2, <2>1
  <2>8. QED
    BY <1>2, <2>2, <2>4, <2>5, <2>6, <2>7 DEF SnapshotOK
<1>15. LoadReplied' => LoadReplied
  BY <1>2 DEF LoadReplied
<1>16. QED
  BY <1>2, <1>10, <1>11, <1>12, <1>13, <1>14, <1>15 DEF FocusAgree

(* The answer moves nothing on screen: a tab that it brings is shown         *)
(* already.                                                                  *)
LEMMA FocusComesBack ==
    ASSUME Base, Base', FocusAgree, FocusReturns
    PROVE  FocusAgree'
<1>1. SyncTypeOK /\ ChannelsOK
  BY DEF Base
<1>2. PICK c : c = focus.active
  OBVIOUS
<1>3. PICK v : v = FocusReply(c)
  OBVIOUS
<1>4. /\ c \in Calls /\ c.reply \in Server
      /\ c.mode \in Modes \cup {Nothing} /\ c.rev \in Nat /\ c.sel \in Selections
      /\ c.id \in Nat /\ v \in Server /\ Receive(v)
      /\ focus'.active = focus.waiting /\ focus'.waiting = Nothing
  BY <1>1, <1>2, <1>3, FocusReturnsFacts
<1>5. UNCHANGED <<srv, load, notes>>
  BY DEF FocusReturns
<1>6. FocusReplied
  BY <1>1 DEF FocusReturns, ChannelsOK
<1>7. /\ srv.sel = c.sel
      /\ c.mode # Nothing => srv.mode = c.mode /\ c.rev = srv.rev
      /\ c.reply.data <= srv.data /\ c.reply.n <= srv.n
  BY <1>2, <1>6 DEF FocusAgree, RepliedOK
<1>8. /\ srv.rev \in Nat /\ srv.data \in Nat /\ view.rev \in Nat
      /\ view.data \in Nat /\ seen \in Nat /\ local.rev \in Nat
      /\ c.reply.data \in Nat /\ c.reply.n \in Nat
      /\ LoadReplied => load.active.reply.data \in Nat
                        /\ load.active.reply.n \in Nat
                        /\ load.active.reply.rev \in Nat
  BY <1>1, <1>2, <1>6, Numbers
<1>9. /\ v.mode = (IF c.mode = Nothing THEN view.mode ELSE c.mode)
      /\ v.rev = (IF c.mode = Nothing THEN view.rev ELSE c.rev)
      /\ v.sel = c.sel /\ v.data = c.reply.data /\ v.n = c.reply.n
  BY <1>1, <1>3, <1>4, FocusReplyTypes
<1>10. /\ view.rev = local.rev /\ view.rev <= srv.rev
       /\ view.rev < srv.rev => c.mode # Nothing
       /\ view.data >= c.reply.data => view.rev = srv.rev
  BY <1>2, <1>6 DEF FocusAgree, ViewOK
<1>11. v.rev = srv.rev
  BY <1>7, <1>8, <1>9, <1>10
<1>12. /\ view' = v /\ seen' \in Nat /\ seen' >= v.n
       /\ local'.rev = (IF v.data # view.data THEN v.rev ELSE local.rev)
       /\ local'.mode = (IF v.data # view.data /\ v.rev > local.rev
                         THEN v.mode ELSE local.mode)
       /\ Sel(local') = (IF v.data # view.data /\ v.rev > local.rev
                         THEN v.sel ELSE Sel(local))
  BY <1>1, <1>4, ReceiveFacts
<1>13. local'.rev = srv.rev
  BY <1>8, <1>9, <1>10, <1>11, <1>12
<1>14. c.mode # Nothing => focus.waiting = Nothing
  BY <1>2 DEF FocusAgree, OneMode
<1>15. focus.waiting = Nothing =>
          /\ local.mode = (IF c.mode = Nothing THEN srv.mode ELSE c.mode)
          /\ Sel(local) = c.sel
  BY <1>2, <1>6 DEF FocusAgree, NewestShown, Newest, FocusReplied
<1>16. focus.waiting # Nothing =>
          /\ local.mode = (IF focus.waiting.mode = Nothing THEN srv.mode
                           ELSE focus.waiting.mode)
          /\ Sel(local) = focus.waiting.sel
  BY DEF FocusAgree, NewestShown, Newest
<1>17. local'.mode = local.mode /\ Sel(local') = Sel(local)
  <2>1. CASE v.rev > local.rev
    <3>1. c.mode # Nothing
      BY <1>8, <1>10, <1>11, <2>1
    <3>2. v.mode = local.mode /\ v.sel = Sel(local)
      BY <1>9, <1>14, <1>15, <3>1
    <3>3. QED
      BY <1>12, <3>2
  <2>2. CASE ~(v.rev > local.rev)
    BY <1>12, <2>2
  <2>3. QED
    BY <2>1, <2>2
<1>18. NewestShown'
  BY <1>4, <1>5, <1>7, <1>15, <1>16, <1>17 DEF NewestShown, Newest
<1>19. ~FocusReplied'
  BY <1>1, <1>4 DEF FocusReplied, ChannelsOK
<1>20. OneMode' /\ RepliedOK'
  BY <1>4, <1>19 DEF OneMode, RepliedOK
<1>21. ReservedOK'
  BY <1>1, <1>4 DEF ReservedOK, ChannelsOK
<1>22. ViewOK'
  BY <1>5, <1>7, <1>8, <1>9, <1>11, <1>12, <1>13, <1>19 DEF ViewOK
<1>23. ASSUME LoadReplied
       PROVE  SnapshotOK(load.active.reply)'
  <2>1. PICK r : r = load.active.reply
    OBVIOUS
  <2>2. /\ r.data \in Nat /\ r.n \in Nat /\ r.rev \in Nat
        /\ r.rev <= srv.rev /\ r.data <= srv.data
        /\ r.data >= c.reply.data => r.rev = srv.rev
        /\ r.n >= c.reply.n => r.rev = srv.rev
    BY <1>2, <1>6, <1>8, <1>23, <2>1 DEF FocusAgree, SnapshotOK
  <2>3. r.n >= seen' => r.rev = srv.rev
    BY <1>8, <1>9, <1>12, <2>2
  <2>4. view'.rev = srv.rev /\ view'.data = c.reply.data
    BY <1>9, <1>11, <1>12
  <2>5. load'.active.reply = r
    BY <1>5, <2>1
  <2>6. QED
    BY <1>5, <1>8, <1>19, <2>2, <2>3, <2>4, <2>5 DEF SnapshotOK
<1>24. LoadReplied' => LoadReplied
  BY <1>5 DEF LoadReplied
<1>25. QED
  BY <1>5, <1>18, <1>20, <1>21, <1>22, <1>23, <1>24 DEF FocusAgree

(* An answer to a load moves neither tab nor selection: one that carries a    *)
(* newer mode revision carries the mode command whose own answer has not     *)
(* come back, and that is what the browser shows already.                    *)
LEMMA LoadMovesNoFocus ==
    ASSUME Base, FocusAgree, LoadReturns
    PROVE  local'.mode = local.mode /\ Sel(local') = Sel(local)
<1>1. SyncTypeOK /\ ChannelsOK
  BY DEF Base
<1>2. PICK r \in Server : r = load.active.reply /\ Receive(r) /\ LoadReplied
  BY <1>1, LoadReturnsFacts
<1>3. /\ local'.mode = (IF r.data # view.data /\ r.rev > local.rev
                        THEN r.mode ELSE local.mode)
      /\ Sel(local') = (IF r.data # view.data /\ r.rev > local.rev
                        THEN r.sel ELSE Sel(local))
  BY <1>1, <1>2, ReceiveFacts
<1>4. /\ srv.rev \in Nat /\ view.rev \in Nat /\ r.rev \in Nat
  BY <1>1, <1>2, Numbers
<1>5. CASE r.rev > local.rev
  <2>1. r.rev <= srv.rev
    BY <1>2 DEF FocusAgree, SnapshotOK
  <2>2. view.rev = local.rev /\ srv.rev <= view.rev + 1
    BY DEF FocusAgree, ViewOK
  <2>3. r.rev = srv.rev /\ view.rev < srv.rev
    BY <1>4, <1>5, <2>1, <2>2
  <2>4. FocusReplied /\ focus.active.mode # Nothing
    BY <2>3 DEF FocusAgree, ViewOK
  <2>5. r.mode = focus.active.mode /\ r.sel = focus.active.sel
    BY <1>2, <2>3, <2>4 DEF FocusAgree, SnapshotOK
  <2>6. focus.waiting = Nothing /\ focus.active # Nothing
    BY <2>4 DEF FocusAgree, OneMode, FocusReplied
  <2>7. local.mode = focus.active.mode /\ Sel(local) = focus.active.sel
    BY <2>4, <2>6 DEF FocusAgree, NewestShown, Newest
  <2>8. QED
    BY <1>3, <2>5, <2>7
<1>6. QED
  BY <1>3, <1>5

(* Loads: the snapshot is taken, received in the order of the writes, or a   *)
(* failed load is rolled back.                                               *)
LEMMA FocusLoad ==
    ASSUME Base, Base', FocusAgree, LoadStep, FocusOrdered'
    PROVE  FocusAgree'
<1>1. SyncTypeOK /\ ChannelsOK
  BY DEF Base
<1>2. /\ srv.rev \in Nat /\ srv.data \in Nat /\ srv.n \in Nat
      /\ view.rev \in Nat /\ view.data \in Nat /\ seen \in Nat
      /\ local.rev \in Nat
      /\ FocusReplied => focus.active.reply.data \in Nat
                         /\ focus.active.reply.n \in Nat
      /\ LoadReplied => load.active.reply.data \in Nat
                        /\ load.active.reply.n \in Nat
                        /\ load.active.reply.rev \in Nat
  BY <1>1, Numbers
<1>3. CASE LoadCommit
  <2>1. /\ srv'.mode = srv.mode /\ srv'.rev = srv.rev /\ srv'.sel = srv.sel
        /\ srv'.req = srv.req /\ srv'.data = srv.data + 1 /\ srv'.n = srv.n + 1
        /\ load'.active.reply = load.active.reply /\ load.active # Nothing
        /\ UNCHANGED <<local, view, focus, notes, seen>>
    BY <1>1, <1>3, LoadCommitFacts DEF LoadCommit
  <2>2. SameReply
    BY <2>1 DEF SameReply, LoadReplied
  <2>3. srv'.data >= srv.data /\ srv'.n >= srv.n /\ seen' >= seen
    BY <1>2, <2>1
  <2>4. QED
    BY <2>1, <2>2, <2>3, FocusFrame
<1>4. CASE LoadAnswer
  <2>1. /\ load'.active.reply = srv
        /\ UNCHANGED <<local, view, srv, focus, notes, seen>>
    BY <1>1, <1>4, LoadAnswerFacts DEF LoadAnswer
  <2>2. FocusReplied' = FocusReplied
    BY <2>1 DEF FocusReplied
  <2>3. NewestShown' /\ OneMode' /\ ReservedOK' /\ RepliedOK' /\ ViewOK'
    BY <2>1, <2>2 DEF FocusAgree, NewestShown, Newest, OneMode, ReservedOK,
       RepliedOK, ViewOK
  <2>4. srv.data <= view.data => srv.rev <= view.rev
    <3>1. CASE view.rev < srv.rev
      <4>1. FocusReplied /\ focus.active.reply.data <= srv.data
            /\ ~(view.data >= focus.active.reply.data)
        BY <1>2, <3>1 DEF FocusAgree, ViewOK, RepliedOK
      <4>2. QED
        BY <1>2, <4>1
    <3>2. QED
      BY <1>2, <3>1
  <2>5. SnapshotOK(srv)
    BY <1>2, <2>4 DEF FocusAgree, ViewOK, RepliedOK, SnapshotOK
  <2>6. SnapshotOK(load.active.reply)'
    BY <2>1, <2>2, <2>5 DEF SnapshotOK
  <2>7. QED
    BY <2>1, <2>3, <2>6 DEF FocusAgree
<1>5. CASE LoadReturns
  <2>1. PICK r \in Server : r = load.active.reply /\ Receive(r) /\ LoadReplied
    BY <1>1, <1>5, LoadReturnsFacts
  <2>2. /\ load'.active = load.waiting
        /\ focus'.active = focus.active /\ focus'.waiting = focus.waiting
    BY <1>1, <1>5, LoadReturnsFacts
  <2>3. ~LoadReplied'
    BY <1>1, <2>2 DEF LoadReplied, ChannelsOK
  <2>4. UNCHANGED <<srv, notes>> /\ odd' = odd \cup Disordered(r)
    BY <1>5, <2>1 DEF LoadReturns
  <2>5. r.n >= seen /\ r.rev \in Nat /\ r.data \in Nat
    BY <1>2, <2>1, <2>4 DEF Disordered, FocusOrdered
  <2>6. SnapshotOK(r)
    BY <2>1 DEF FocusAgree
  <2>7. /\ view' = r
        /\ local'.rev = (IF r.data # view.data THEN r.rev ELSE local.rev)
        /\ local'.mode = (IF r.data # view.data /\ r.rev > local.rev
                          THEN r.mode ELSE local.mode)
        /\ Sel(local') = (IF r.data # view.data /\ r.rev > local.rev
                          THEN r.sel ELSE Sel(local))
    BY <1>1, <2>1, ReceiveFacts
  <2>8. FocusReplied' = FocusReplied /\ Newest' = Newest
    BY <2>2 DEF FocusReplied, Newest
  <2>9. local'.mode = local.mode /\ Sel(local') = Sel(local)
    BY <1>5, LoadMovesNoFocus
  <2>10. NewestShown' /\ OneMode' /\ ReservedOK' /\ RepliedOK'
    BY <2>2, <2>4, <2>8, <2>9 DEF FocusAgree, NewestShown, OneMode, ReservedOK,
       RepliedOK
  <2>11. ViewOK'
    BY <1>2, <2>2, <2>4, <2>5, <2>6, <2>7, <2>8
       DEF FocusAgree, ViewOK, SnapshotOK
  <2>12. QED
    BY <2>3, <2>4, <2>10, <2>11 DEF FocusAgree
<1>6. CASE LoadRejected
  <2>1. UNCHANGED <<view, srv, focus, notes, seen>>
    BY <1>6 DEF LoadRejected
  <2>2. /\ local'.rev = view.rev
        /\ local'.mode = (IF view.rev > local.rev THEN view.mode ELSE local.mode)
        /\ Sel(local') = (IF view.rev > local.rev THEN view.sel ELSE Sel(local))
        /\ load'.active = load.waiting
    BY <1>1, <1>6, RejectedFacts
  <2>3. view.rev = local.rev
    BY DEF FocusAgree, ViewOK
  <2>4. local'.rev = local.rev /\ local'.mode = local.mode
        /\ Sel(local') = Sel(local)
    BY <1>2, <2>2, <2>3
  <2>5. SameReply
    BY <1>1, <2>2 DEF SameReply, LoadReplied, ChannelsOK
  <2>6. QED
    BY <1>2, <2>1, <2>4, <2>5, FocusFrame
<1>7. QED
  BY <1>3, <1>4, <1>5, <1>6 DEF LoadStep

(* Reservation, refusal, commit and answer of a focus command; a failed one  *)
(* is recorded.                                                              *)
LEMMA FocusCommands ==
    ASSUME Base, Base', FocusAgree, FocusStep, FocusOrdered'
    PROVE  FocusAgree'
<1>1. ~FocusFails
  BY DEF FocusFails, FocusOrdered
<1>2. CASE Refuse
  <2>1. /\ focus.active # Nothing /\ Failing(focus, focus')
        /\ UNCHANGED <<local, view, srv, load, notes, seen>>
    BY <1>2 DEF Refuse, Failing
  <2>2. QED
    BY <2>1, FocusFailing
<1>3. QED
  BY <1>1, <1>2, FocusReserve, FocusCommits, FocusComesBack DEF FocusStep

(* A call of any channel fails. *)
LEMMA FocusCallFailing ==
    ASSUME Base, Base', FocusAgree, CallFails
    PROVE  FocusAgree'
<1>1. SyncTypeOK
  BY DEF Base
<1>2. UNCHANGED <<local, view, srv, notes, seen>>
  BY CallFailsCases
<1>3. /\ srv.data \in Nat /\ srv.n \in Nat /\ seen \in Nat
  BY <1>1, Numbers
<1>4. CASE FocusCallFails
  <2>1. /\ focus.active # Nothing /\ Failing(focus, focus') /\ UNCHANGED load
    BY <1>4 DEF FocusCallFails
  <2>2. QED
    BY <1>2, <2>1, FocusFailing
<1>5. CASE LoadCallFails
  <2>1. load'.active.reply = load.active.reply /\ load.active # Nothing
    BY <1>1, <1>5, LoadFailedFacts DEF LoadCallFails
  <2>2. SameReply /\ UNCHANGED focus
    BY <1>5, <2>1 DEF LoadCallFails, SameReply, LoadReplied
  <2>3. QED
    BY <1>2, <1>3, <2>2, FocusFrame
<1>6. ASSUME NEW c \in saves, SaveCallFails(c)
      PROVE  FocusAgree'
  <2>1. SameReply /\ UNCHANGED focus
    BY <1>6 DEF SaveCallFails, SameReply, LoadReplied
  <2>2. QED
    BY <1>2, <1>3, <2>1, FocusFrame
<1>7. QED
  BY <1>4, <1>5, <1>6, CallFailsCases

(* The agent gives no command and none is on its way. *)
LEMMA NoAgent ==
    ASSUME FocusAgree, AgentStep, FocusOrdered'
    PROVE  FALSE
<1>1. notes = {}
  BY DEF FocusAgree
<1>2. ASSUME NEW m \in Modes, AgentCommands(m)
      PROVE  FALSE
  BY <1>2 DEF AgentCommands, FocusOrdered
<1>3. QED
  BY <1>1, <1>2 DEF AgentStep

(* At the start both show the first tab and no selection. *)
LEMMA FocusInit == SyncInit => FocusInv
<1> SUFFICES ASSUME SyncInit PROVE FocusAgree
  BY DEF FocusInv
<1>1. /\ focus.active = Nothing /\ focus.waiting = Nothing
      /\ load.active = Nothing /\ notes = {}
  BY DEF SyncInit, Idle
<1>2. /\ srv.mode = InitMode /\ srv.rev = 1 /\ srv.sel = Nothing
      /\ srv.data = 1 /\ view = srv
      /\ local.mode = InitMode /\ local.rev = 1
  BY DEF SyncInit
<1>3. Sel(local) = Nothing
  BY GraphAssumption DEF SyncInit, Sel
<1>4. NewestShown
  BY <1>1, <1>2, <1>3 DEF NewestShown, Newest
<1>5. QED
  BY <1>1, <1>2, <1>4
     DEF FocusAgree, OneMode, ReservedOK, RepliedOK, ViewOK, FocusReplied,
         LoadReplied

(* FocusInv is inductive, relative to Base. *)
LEMMA FocusNext ==
    ASSUME Base, FocusInv, [SyncNext]_syncVars
    PROVE  FocusInv'
<1> SUFFICES ASSUME FocusOrdered' PROVE FocusAgree'
  BY DEF FocusInv
<1>1. FocusOrdered
  BY OddGrows DEF FocusOrdered
<1>2. FocusAgree /\ Base'
  BY <1>1, BaseNext DEF FocusInv
<1>3. CASE UNCHANGED syncVars
  <2>1. /\ UNCHANGED <<local, view, srv, focus, load, notes, seen>>
    BY <1>3 DEF syncVars
  <2>2. SameReply
    BY <2>1 DEF SameReply, LoadReplied
  <2>3. srv.data \in Nat /\ srv.n \in Nat /\ seen \in Nat
    BY Numbers DEF Base
  <2>4. QED
    BY <1>2, <2>1, <2>2, <2>3, FocusFrame
<1>4. CASE SyncNext
  BY <1>2, <1>4, FocusUser, FocusSave, FocusCommands, FocusLoad, FocusCallFailing,
     NoAgent DEF SyncNext
<1>5. QED
  BY <1>3, <1>4

(* The invariant of the shared focus, for every behaviour. *)
LEMMA FocusAlways == SyncSpec => [](Base /\ FocusInv)
<1>1. SyncInit => Base /\ FocusInv
  BY BaseInit, FocusInit
<1>2. (Base /\ FocusInv) /\ [SyncNext]_syncVars => (Base /\ FocusInv)'
  BY BaseNext, FocusNext
<1>3. QED
  BY <1>1, <1>2, PTL DEF SyncSpec

(* With no focus command under way browser and server show the same tab and  *)
(* selection, for any number of commands, loads and saves that the protocol  *)
(* orders (GraphExplorerApp.tsx:181-279).                                    *)
THEOREM FocusConvergesCorrect == SyncSpec => []FocusConverges
<1>1. Base /\ FocusInv => FocusConverges
  <2> SUFFICES ASSUME Base, FocusInv, FocusOrdered, FocusAtRest
               PROVE  local.mode = srv.mode /\ Sel(local) = srv.sel
    BY DEF FocusConverges
  <2>1. Newest = Nothing
    BY DEF Base, ChannelsOK, FocusAtRest, Newest
  <2>2. QED
    BY <2>1 DEF FocusInv, FocusAgree, NewestShown
<1>2. QED
  BY <1>1, FocusAlways, PTL

(* An answer to a load moves neither the tab nor the selection, also when it *)
(* was taken before a focus command and comes after it (useGraphSync.ts      *)
(* adoption of newer data).                                                  *)
THEOREM LoadKeepsFocusCorrect == SyncSpec => LoadKeepsFocus
<1>1. Base /\ FocusInv =>
        [LoadReturns /\ FocusOrdered => SameFocus]_syncVars
  BY LoadMovesNoFocus DEF FocusInv, SameFocus
<1>2. QED
  BY <1>1, FocusAlways, PTL DEF LoadKeepsFocus

---------------------------------------------------------------------------
(* Playback: the inductive invariant *)

Hooks == [cursor : Nat, playing : BOOLEAN,
          key : [start : Nat, len : Nat, win : Nat], link : Nat, used : BOOLEAN]

(* The URL tells where a cursor that stands still is. *)
UrlTells == ~hook.playing => url = UrlOf(hook, axis, win, url)

(* Playback has drawn every position from the one where it began to the end  *)
(* of its frame.                                                             *)
LastShown(h, a, w) == IF h.cursor + w - 1 <= LastIdx(a) THEN h.cursor + w - 1
                      ELSE LastIdx(a)

ShownIsARun ==
    hook.playing => \E lo \in 0 .. hook.cursor :
                       shown = lo .. LastShown(hook, axis, win)

(* There are rows only for a loaded range. *)
RowsHaveAxis == rows # None => axis \in Axes

IInv ==
    /\ TypeOK
    /\ hook \in Hooks
    /\ UrlTells
    /\ ShownIsARun
    /\ RowsHaveAxis

---------------------------------------------------------------------------
(* Axis and window *)

(* The greater and the smaller of two positions. *)
LEMMA PairFacts ==
    ASSUME NEW x \in Int, NEW y \in Int
    PROVE  /\ Max({x, y}) = IF x >= y THEN x ELSE y
           /\ Min({x, y}) = IF x <= y THEN x ELSE y
<1>1. \E m \in {x, y} : \A z \in {x, y} : m >= z
  OBVIOUS
<1>2. \E m \in {x, y} : \A z \in {x, y} : m <= z
  OBVIOUS
<1>3. Max({x, y}) \in {x, y} /\ \A z \in {x, y} : Max({x, y}) >= z
  BY <1>1 DEF Max
<1>4. Min({x, y}) \in {x, y} /\ \A z \in {x, y} : Min({x, y}) <= z
  BY <1>2 DEF Min
<1>5. QED
  BY <1>3, <1>4

(* A loaded range has at least one bucket; two ranges with the same first    *)
(* bucket and length are the same (timelineIndex.ts, useTimelineFilter.ts 82).*)
LEMMA AxisFacts ==
    ASSUME NEW a \in Axes \cup {NoAxis}
    PROVE  /\ a.start \in Nat /\ a.len \in 0 .. MaxLen
           /\ a \in Axes => a.start \in Nat \ {0} /\ a.len \in Nat \ {0}
           /\ a.len > 0 => a \in Axes
           /\ LastIdx(a) = IF a.len = 0 THEN 0 ELSE a.len - 1
           /\ LastIdx(a) \in 0 .. MaxLen
           /\ \A b \in Axes \cup {NoAxis} :
                 a.start = b.start /\ a.len = b.len => a = b
<1>1. /\ a.start \in Nat /\ a.len \in 0 .. MaxLen
      /\ a \in Axes => a.start \in Nat \ {0} /\ a.len \in Nat \ {0}
      /\ a.len > 0 => a \in Axes
  <2>1. CASE a = NoAxis
    <3>1. a.start = 0 /\ a.len = 0 /\ 0 \in 0 .. MaxLen
      BY <2>1, TimelineAssumption DEF NoAxis
    <3>2. a \notin Axes
      BY <3>1 DEF Axes
    <3>3. QED
      BY <3>1, <3>2
  <2>2. CASE a \in Axes
    <3>1. a.start \in Starts /\ a.len \in 1 .. MaxLen
      BY <2>2 DEF Axes
    <3>2. a.start \in Nat \ {0}
      BY <3>1, TimelineAssumption
    <3>3. a.len \in Nat \ {0} /\ a.len \in 0 .. MaxLen
      BY <3>1, TimelineAssumption
    <3>4. QED
      BY <2>2, <3>2, <3>3
  <2>3. QED
    BY <2>1, <2>2
<1>2. /\ LastIdx(a) = IF a.len = 0 THEN 0 ELSE a.len - 1
      /\ LastIdx(a) \in 0 .. MaxLen
  <2>1. Max({1, a.len}) = IF 1 >= a.len THEN 1 ELSE a.len
    BY <1>1, PairFacts
  <2>2. QED
    BY <1>1, <2>1, TimelineAssumption DEF LastIdx
<1>3. ASSUME NEW b \in Axes \cup {NoAxis}, a.start = b.start, a.len = b.len
      PROVE  a = b
  BY <1>3 DEF Axes, NoAxis
<1>4. QED
  BY <1>1, <1>2, <1>3

(* A cursor never stands beyond the last bucket, and a frame reaches from it *)
(* to the end of the window or of the axis (useTimelineFilter.ts 70-71).     *)
LEMMA CursorFacts ==
    ASSUME NEW a \in Axes \cup {NoAxis}, NEW w \in Windows
    PROVE  /\ w \in Nat \ {0}
           /\ MaxCursor(a, w) \in Nat
           /\ MaxCursor(a, w) <= LastIdx(a)
           /\ MaxCursor(a, w) + w - 1 >= LastIdx(a)
           /\ \A h \in Hooks : h.cursor \in 0 .. MaxCursor(a, w) =>
                /\ Frame(h, a, w) = h.cursor .. LastShown(h, a, w)
                /\ LastShown(h, a, w) \in h.cursor .. LastIdx(a)
                /\ h.cursor = MaxCursor(a, w) => LastShown(h, a, w) = LastIdx(a)
<1>1. w \in Nat \ {0}
  BY TimelineAssumption
<1>2. /\ MaxCursor(a, w) \in Nat
      /\ MaxCursor(a, w) <= LastIdx(a)
      /\ MaxCursor(a, w) + w - 1 >= LastIdx(a)
  BY <1>1, AxisFacts DEF MaxCursor
<1>3. ASSUME NEW h \in Hooks, h.cursor \in 0 .. MaxCursor(a, w)
      PROVE  /\ Frame(h, a, w) = h.cursor .. LastShown(h, a, w)
             /\ LastShown(h, a, w) \in h.cursor .. LastIdx(a)
             /\ h.cursor = MaxCursor(a, w) => LastShown(h, a, w) = LastIdx(a)
  <2>1. h.cursor \in Nat /\ LastIdx(a) \in Nat /\ h.cursor + w - 1 \in Int
    BY <1>1, <1>3, AxisFacts DEF Hooks
  <2>2. \A x, y \in Int : Min({x, y}) = IF x <= y THEN x ELSE y
    BY PairFacts
  <2>3. Frame(h, a, w) = h.cursor .. LastShown(h, a, w)
    BY <2>1, <2>2 DEF Frame, LastShown
  <2>4. /\ LastShown(h, a, w) \in h.cursor .. LastIdx(a)
        /\ h.cursor = MaxCursor(a, w) => LastShown(h, a, w) = LastIdx(a)
    BY <1>1, <1>2, <1>3, <2>1 DEF LastShown
  <2>5. QED
    BY <2>3, <2>4
<1>4. QED
  BY <1>1, <1>2, <1>3

---------------------------------------------------------------------------
(* What a render does *)

(* The hooks of a view that is mounted (useTimelineFilter.ts 72-86). *)
LEMMA MountFacts ==
    ASSUME NEW a \in Axes \cup {NoAxis}, NEW w \in Windows, NEW link \in Nat
    PROVE  /\ Mount(a, w, link) \in Hooks
           /\ Mount(a, w, link).key = KeyOf(a, w)
           /\ Mount(a, w, link).cursor \in 0 .. MaxCursor(a, w)
           /\ Mount(a, w, link).playing = FALSE
<1>1. /\ a.start \in Nat /\ a.len \in Nat /\ w \in Nat /\ MaxCursor(a, w) \in Nat
  BY AxisFacts, CursorFacts
<1>2. (a.len > 0) \in BOOLEAN
  OBVIOUS
<1>3. QED
  BY <1>1, <1>2 DEF Mount, Hooks, KeyOf

(* The effect on an axis key: nothing happens to a cursor whose axis and     *)
(* window are the same, and playback stops otherwise                         *)
(* (useTimelineFilter.ts 82-101).                                            *)
LEMMA RekeyFacts ==
    ASSUME NEW h \in Hooks, NEW a \in Axes \cup {NoAxis}, NEW w \in Windows
    PROVE  /\ Rekey(h, a, w) \in Hooks
           /\ Rekey(h, a, w).key = KeyOf(a, w)
           /\ h.key = KeyOf(a, w) => Rekey(h, a, w) = h
           /\ h.key # KeyOf(a, w) => /\ Rekey(h, a, w).playing = FALSE
                                     /\ Rekey(h, a, w).cursor \in 0 .. MaxCursor(a, w)
<1>1. /\ a.start \in Nat /\ a.len \in Nat /\ w \in Nat /\ MaxCursor(a, w) \in Nat
  BY AxisFacts, CursorFacts
<1>2. CASE h.key = KeyOf(a, w)
  BY <1>2 DEF Rekey
<1>3. CASE h.key # KeyOf(a, w)
  BY <1>1, <1>3 DEF Rekey, Hooks, KeyOf
<1>4. QED
  BY <1>2, <1>3

(* The key of the hooks is that of the axis and the window.                  *)
LEMMA KeyFacts ==
    ASSUME NEW a \in Axes \cup {NoAxis}, NEW b \in Axes \cup {NoAxis},
           NEW v \in Windows, NEW w \in Windows,
           KeyOf(a, v) = KeyOf(b, w)
    PROVE  a = b /\ v = w
<1>1. a.start = b.start /\ a.len = b.len /\ v = w
  BY DEF KeyOf
<1>2. QED
  BY <1>1, AxisFacts

(* A render keeps the types, writes the URL of a cursor that stands still,   *)
(* and goes on with the run of what playback has drawn: playback goes on     *)
(* only over the same axis and window.                                       *)
LEMMA RenderInv ==
    ASSUME IInv,
           NEW h \in Hooks, NEW a \in Axes \cup {NoAxis}, NEW w \in Windows,
           h.key = KeyOf(a, w),
           h.cursor \in 0 .. MaxCursor(a, w),
           h.playing /\ hook.playing => a = axis /\ w = win,
           Render(h, a, w)
    PROVE  /\ axis' = a /\ win' = w /\ hook' = h
           /\ url' \in Nat /\ shown' \subseteq 0 .. MaxLen
           /\ UrlTells' /\ ShownIsARun'
<1>1. /\ hook' = h /\ axis' = a /\ win' = w
      /\ url' = UrlOf(h, a, w, url)
      /\ shown' = IF ~h.playing THEN shown
                  ELSE IF hook.playing /\ h.cursor - hook.cursor \in {0, 1}
                  THEN shown \cup Frame(h, a, w)
                  ELSE Frame(h, a, w)
  BY DEF Render
<1>2. /\ h.cursor \in Nat /\ h.playing \in BOOLEAN
      /\ url \in Nat /\ shown \subseteq 0 .. MaxLen /\ MaxLen \in Nat
      /\ hook \in Hooks /\ hook.cursor \in 0 .. MaxCursor(axis, win)
      /\ axis \in Axes \cup {NoAxis} /\ win \in Windows
  BY TimelineAssumption DEF IInv, TypeOK, Hooks
<1>3. url' \in Nat
  BY <1>1, <1>2 DEF UrlOf
<1>4. UrlTells'
  <2>1. ~h.playing => \A u : UrlOf(h, a, w, u) = UrlOf(h, a, w, url)
    BY DEF UrlOf
  <2>2. QED
    BY <1>1, <2>1 DEF UrlTells, UrlOf, MaxCursor
<1>5. /\ Frame(h, a, w) = h.cursor .. LastShown(h, a, w)
      /\ LastShown(h, a, w) \in h.cursor .. LastIdx(a)
      /\ LastIdx(a) \in 0 .. MaxLen
  BY CursorFacts, AxisFacts
<1>6. shown' \subseteq 0 .. MaxLen
  <2>1. Frame(h, a, w) \subseteq 0 .. MaxLen
    BY <1>2, <1>5
  <2>2. QED
    BY <1>1, <1>2, <2>1
<1>7. ShownIsARun'
  <2>1. SUFFICES ASSUME h.playing
                 PROVE  \E lo \in 0 .. h.cursor : shown' = lo .. LastShown(h, a, w)
    BY <1>1 DEF ShownIsARun, LastShown, LastIdx
  <2>2. CASE hook.playing /\ h.cursor - hook.cursor \in {0, 1}
    <3>1. a = axis /\ w = win
      BY <2>1, <2>2
    <3>2. PICK lo \in 0 .. hook.cursor : shown = lo .. LastShown(hook, axis, win)
      BY <2>2 DEF IInv, ShownIsARun
    <3>3. /\ LastShown(hook, a, w) \in hook.cursor .. LastIdx(a)
          /\ w \in Nat
      BY <1>2, <3>1, CursorFacts
    <3>4. h.cursor = hook.cursor \/ h.cursor = hook.cursor + 1
      BY <1>2, <2>2 DEF Hooks
    <3>5. /\ LastShown(h, a, w) >= LastShown(hook, a, w)
          /\ h.cursor <= LastShown(hook, a, w) + 1
      BY <1>2, <1>5, <3>3, <3>4 DEF LastShown
    <3>6. shown' = (lo .. LastShown(hook, a, w)) \cup (h.cursor .. LastShown(h, a, w))
      BY <1>1, <1>5, <2>1, <2>2, <3>1, <3>2
    <3>7. lo <= h.cursor /\ lo \in Nat
      BY <1>2, <3>2, <3>4
    <3>8. LastShown(h, a, w) \in Int /\ LastShown(hook, a, w) \in Int
      BY <1>5, <3>3
    <3>9. shown' = lo .. LastShown(h, a, w)
      BY <1>2, <3>5, <3>6, <3>7, <3>8
    <3>10. QED
      BY <1>2, <3>7, <3>9
  <2>3. CASE ~(hook.playing /\ h.cursor - hook.cursor \in {0, 1})
    <3>1. shown' = h.cursor .. LastShown(h, a, w)
      BY <1>1, <1>5, <2>1, <2>3
    <3>2. QED
      BY <1>2, <3>1
  <2>4. QED
    BY <2>2, <2>3
<1>8. QED
  BY <1>1, <1>3, <1>4, <1>6, <1>7

---------------------------------------------------------------------------
(* Steps *)

(* A load that was asked for, an adoption, a failure and a new window all    *)
(* render a range with a window through the effect on their key.             *)
LEMMA RekeyRenders ==
    ASSUME IInv, NEW h \in Hooks, NEW a \in Axes \cup {NoAxis}, NEW w \in Windows,
           h = hook \/ ~h.playing,
           h.key = KeyOf(a, w) =>
              /\ h.cursor \in 0 .. MaxCursor(a, w)
              /\ h = hook => a = axis /\ w = win,
           Render(Rekey(h, a, w), a, w)
    PROVE  /\ axis' = a /\ win' = w /\ hook' \in Hooks
           /\ hook'.key = KeyOf(a, w) /\ hook'.cursor \in 0 .. MaxCursor(a, w)
           /\ url' \in Nat /\ shown' \subseteq 0 .. MaxLen
           /\ UrlTells' /\ ShownIsARun'
<1> DEFINE k == Rekey(h, a, w)
<1>1. /\ k \in Hooks /\ k.key = KeyOf(a, w)
      /\ h.key = KeyOf(a, w) => k = h
      /\ h.key # KeyOf(a, w) => /\ k.playing = FALSE
                                /\ k.cursor \in 0 .. MaxCursor(a, w)
  BY RekeyFacts
<1>2. /\ k.cursor \in 0 .. MaxCursor(a, w)
      /\ k.playing /\ hook.playing => a = axis /\ w = win
  <2> HIDE DEF k
  <2>1. CASE h.key = KeyOf(a, w)
    <3>1. k = h
      BY <1>1, <2>1
    <3>2. QED
      BY <2>1, <3>1
  <2>2. CASE h.key # KeyOf(a, w)
    BY <1>1, <2>2
  <2>3. QED
    BY <2>1, <2>2
<1>3. Render(k, a, w)
  OBVIOUS
<1> HIDE DEF k
<1>4. /\ axis' = a /\ win' = w /\ hook' = k
      /\ url' \in Nat /\ shown' \subseteq 0 .. MaxLen
      /\ UrlTells' /\ ShownIsARun'
  BY <1>1, <1>2, <1>3, RenderInv
<1>5. QED
  BY <1>1, <1>2, <1>4

(* The hooks of a reachable state belong to its axis and window.             *)
LEMMA HookFacts ==
    ASSUME IInv
    PROVE  /\ axis \in Axes \cup {NoAxis} /\ win \in Windows /\ srvWin \in Windows
           /\ hook \in Hooks /\ hook.key = KeyOf(axis, win)
           /\ hook.cursor \in 0 .. MaxCursor(axis, win)
           /\ \A a \in Axes \cup {NoAxis}, w \in Windows :
                hook.key = KeyOf(a, w) =>
                   a = axis /\ w = win /\ hook.cursor \in 0 .. MaxCursor(a, w)
<1>1. /\ axis \in Axes \cup {NoAxis} /\ win \in Windows /\ srvWin \in Windows
      /\ hook \in Hooks /\ hook.key = KeyOf(axis, win)
      /\ hook.cursor \in 0 .. MaxCursor(axis, win)
  BY DEF IInv, TypeOK
<1>2. ASSUME NEW a \in Axes \cup {NoAxis}, NEW w \in Windows, hook.key = KeyOf(a, w)
      PROVE  a = axis /\ w = win
  <2>1. KeyOf(a, w) = KeyOf(axis, win)
    BY <1>1, <1>2
  <2>2. QED
    BY <1>1, <2>1, KeyFacts
<1>3. QED
  BY <1>1, <1>2

(* What is left to show of a step that renders the hooks of its axis.        *)
LEMMA RenderedInv ==
    ASSUME axis' \in Axes \cup {NoAxis}, win' \in Windows, hook' \in Hooks,
           hook'.key = KeyOf(axis', win'),
           hook'.cursor \in 0 .. MaxCursor(axis', win'),
           url' \in Nat, shown' \subseteq 0 .. MaxLen, UrlTells', ShownIsARun',
           srvWin' \in Windows, asked' \in Windows \cup {None}, acts' \in Nat,
           rows' = None \/ rows' \in [Edges -> Flows(axis')],
           RowsHaveAxis'
    PROVE  IInv'
<1>1. /\ hook'.playing \in BOOLEAN /\ hook'.used \in BOOLEAN /\ hook'.link \in Nat
  BY DEF Hooks
<1>2. hook'.key = KeyOf(axis, win)'
  BY DEF KeyOf
<1>3. hook'.cursor \in (0 .. MaxCursor(axis, win))'
  BY DEF MaxCursor
<1>4. rows' = None \/ (rows \in [Edges -> Flows(axis)])'
  BY DEF Flows, Buckets
<1>5. TypeOK'
  BY <1>1, <1>2, <1>3, <1>4 DEF TypeOK, Axes, NoAxis
<1>6. QED
  BY <1>5 DEF IInv, Hooks

(* A view that was never opened: mounted with the cursor of its URL.         *)
LEMMA InitInv == Init => IInv
<1>1. SUFFICES ASSUME Init PROVE IInv
  OBVIOUS
<1>2. /\ axis \in Axes \cup {NoAxis} /\ rows = None /\ win \in Windows
      /\ srvWin = Default /\ asked = None /\ shown = {} /\ acts = 0
  BY <1>1 DEF Init
<1>3. PICK link \in DeepLinks : /\ hook = Mount(axis, win, link)
                                /\ url = UrlOf(hook, axis, win, link)
  BY <1>1 DEF Init
<1>4. link \in Nat
  BY TimelineAssumption
<1>5. /\ hook \in Hooks /\ hook.key = KeyOf(axis, win)
      /\ hook.cursor \in 0 .. MaxCursor(axis, win)
      /\ hook.playing = FALSE
  BY <1>2, <1>3, <1>4, MountFacts
<1>6. /\ hook.playing \in BOOLEAN /\ hook.used \in BOOLEAN /\ hook.link \in Nat
      /\ hook.cursor \in Nat
  BY <1>5 DEF Hooks
<1>7. url \in Nat
  BY <1>3, <1>4, <1>6 DEF UrlOf
<1>8. Default \in Windows
  BY TimelineAssumption
<1>9. TypeOK
  BY <1>2, <1>5, <1>6, <1>7, <1>8 DEF TypeOK
<1>10. UrlTells
  BY <1>3, <1>5 DEF UrlTells, UrlOf
<1>11. ShownIsARun /\ RowsHaveAxis
  BY <1>2, <1>5 DEF ShownIsARun, RowsHaveAxis
<1>12. QED
  BY <1>5, <1>9, <1>10, <1>11 DEF IInv

(* A range arrives; it is drawn first with the view's own window and then    *)
(* with the one the load was asked for (TimelineView.tsx 559-580).           *)
LEMMA LoadInv ==
    ASSUME IInv, NEW a \in Axes, Load(a)
    PROVE  IInv'
<1> DEFINE h == Rekey(hook, a, win)
<1>1. /\ asked \in Windows
      /\ srvWin' = asked /\ asked' = None /\ rows' = None /\ acts' = acts
      /\ Render(Rekey(h, a, asked), a, asked)
  BY DEF Load, Stale, IInv, TypeOK
<1>2. /\ h \in Hooks
      /\ hook.key = KeyOf(a, win) => h = hook
      /\ hook.key # KeyOf(a, win) => /\ h.playing = FALSE
                                     /\ h.cursor \in 0 .. MaxCursor(a, win)
      /\ h.key = KeyOf(a, win)
  <2>1. hook \in Hooks /\ win \in Windows /\ a \in Axes \cup {NoAxis}
    BY HookFacts
  <2>2. QED
    BY <2>1, RekeyFacts
<1> HIDE DEF h
<1>3. /\ h = hook \/ ~h.playing
      /\ h.cursor \in 0 .. MaxCursor(a, win)
      /\ h = hook => a = axis
  <2>1. CASE hook.key = KeyOf(a, win)
    BY <1>2, <2>1, HookFacts
  <2>2. CASE hook.key # KeyOf(a, win)
    <3>1. h # hook
      BY <1>2, <2>2
    <3>2. QED
      BY <1>2, <2>2, <3>1
  <2>3. QED
    BY <2>1, <2>2
<1>4. h.key = KeyOf(a, asked) => asked = win
  BY <1>2 DEF KeyOf
<1>5. /\ axis' = a /\ win' = asked /\ hook' \in Hooks
      /\ hook'.key = KeyOf(a, asked) /\ hook'.cursor \in 0 .. MaxCursor(a, asked)
      /\ url' \in Nat /\ shown' \subseteq 0 .. MaxLen
      /\ UrlTells' /\ ShownIsARun'
  BY <1>1, <1>2, <1>3, <1>4, RekeyRenders
<1>6. acts' \in Nat /\ RowsHaveAxis'
  BY <1>1 DEF IInv, TypeOK, RowsHaveAxis
<1>7. QED
  BY <1>1, <1>5, <1>6, RenderedInv

(* The axis stays, and the window is the server's or one that was chosen:    *)
(* an adoption, a failed load, a choice (TimelineView.tsx 559-580, 720-760). *)
LEMMA WindowInv ==
    ASSUME IInv, NEW w \in Windows,
           Render(Rekey(hook, axis, w), axis, w),
           UNCHANGED <<rows, srvWin>>,
           asked' \in Windows \cup {None}, acts' \in Nat
    PROVE  IInv'
<1>1. /\ axis' = axis /\ win' = w /\ hook' \in Hooks
      /\ hook'.key = KeyOf(axis, w) /\ hook'.cursor \in 0 .. MaxCursor(axis, w)
      /\ url' \in Nat /\ shown' \subseteq 0 .. MaxLen
      /\ UrlTells' /\ ShownIsARun'
  BY HookFacts, RekeyRenders
<1>2. /\ axis \in Axes \cup {NoAxis} /\ srvWin \in Windows
      /\ rows' = None \/ rows' \in [Edges -> Flows(axis)]
      /\ RowsHaveAxis'
  BY <1>1 DEF IInv, TypeOK, RowsHaveAxis
<1>3. QED
  BY <1>1, <1>2, RenderedInv

(* The cursor or playback is changed, by hand, by the timer or by mounting   *)
(* the view again (useTimelineFilter.ts 103-120, 145-155).                   *)
LEMMA HookInv ==
    ASSUME IInv, NEW h \in Hooks,
           h.key = KeyOf(axis, win), h.cursor \in 0 .. MaxCursor(axis, win),
           Render(h, axis, win),
           UNCHANGED <<rows, srvWin, asked>>, acts' \in Nat
    PROVE  IInv'
<1>1. /\ axis \in Axes \cup {NoAxis} /\ win \in Windows
      /\ srvWin \in Windows /\ asked \in Windows \cup {None}
      /\ rows = None \/ rows \in [Edges -> Flows(axis)]
  BY DEF IInv, TypeOK
<1>2. /\ axis' = axis /\ win' = win /\ hook' = h
      /\ url' \in Nat /\ shown' \subseteq 0 .. MaxLen
      /\ UrlTells' /\ ShownIsARun'
  BY <1>1, RenderInv
<1>3. RowsHaveAxis'
  BY <1>2 DEF IInv, RowsHaveAxis
<1>4. QED
  BY <1>1, <1>2, <1>3, RenderedInv

(* Cursor and playback are set. *)
With(h, p, c) == [h EXCEPT !.playing = p, !.cursor = c]

(* The other hooks stay as they are. *)
LEMMA WithFacts ==
    ASSUME NEW h \in Hooks, NEW p \in BOOLEAN, NEW c \in Nat
    PROVE  /\ With(h, p, c) \in Hooks
           /\ With(h, p, c).key = h.key
           /\ With(h, p, c).cursor = c
           /\ With(h, p, c).playing = p
BY DEF Hooks, With

(* Only one of the two is set. *)
LEMMA WithOne ==
    ASSUME NEW h \in Hooks, NEW c \in Nat
    PROVE  /\ [h EXCEPT !.playing = FALSE] = With(h, FALSE, h.cursor)
           /\ [h EXCEPT !.cursor = c] = With(h, h.playing, c)
           /\ h.playing \in BOOLEAN /\ h.cursor \in Nat
BY DEF Hooks, With

(* The hooks after a tick (useTimelineFilter.ts 107-120). *)
LEMMA StepsFacts ==
    ASSUME NEW h \in Hooks, NEW a \in Axes \cup {NoAxis}, NEW w \in Windows,
           h.cursor \in 0 .. MaxCursor(a, w)
    PROVE  /\ Steps(h, a, w) \in Hooks
           /\ Steps(h, a, w).key = h.key
           /\ Steps(h, a, w).cursor \in 0 .. MaxCursor(a, w)
           /\ h.playing /\ ~Steps(h, a, w).playing => h.cursor = MaxCursor(a, w)
<1>1. MaxCursor(a, w) \in Nat /\ h.cursor \in Nat
  BY CursorFacts DEF Hooks
<1>2. CASE h.cursor >= MaxCursor(a, w)
  <2>1. Steps(h, a, w) = With(h, FALSE, h.cursor)
    BY <1>1, <1>2, WithOne DEF Steps
  <2>2. h.cursor = MaxCursor(a, w)
    BY <1>1, <1>2
  <2>3. FALSE \in BOOLEAN
    OBVIOUS
  <2>4. /\ With(h, FALSE, h.cursor) \in Hooks
        /\ With(h, FALSE, h.cursor).key = h.key
        /\ With(h, FALSE, h.cursor).cursor = h.cursor
    BY <1>1, <2>3, WithFacts
  <2>5. QED
    BY <2>1, <2>2, <2>4
<1>3. CASE ~(h.cursor >= MaxCursor(a, w))
  <2>1. h.cursor + 1 \in Nat /\ h.cursor + 1 \in 0 .. MaxCursor(a, w)
    BY <1>1, <1>3
  <2>2. Steps(h, a, w) = With(h, h.playing, h.cursor + 1)
    <3>1. Steps(h, a, w) = [h EXCEPT !.cursor = h.cursor + 1]
      BY <1>3 DEF Steps
    <3>2. QED
      BY <2>1, <3>1, WithOne
  <2>3. h.playing \in BOOLEAN
    BY DEF Hooks
  <2>4. /\ With(h, h.playing, h.cursor + 1) \in Hooks
        /\ With(h, h.playing, h.cursor + 1).key = h.key
        /\ With(h, h.playing, h.cursor + 1).cursor = h.cursor + 1
        /\ With(h, h.playing, h.cursor + 1).playing = h.playing
    BY <2>1, <2>3, WithFacts
  <2>5. QED
    BY <2>1, <2>2, <2>4
<1>4. QED
  BY <1>2, <1>3

(* Every step keeps the invariant.                                           *)
LEMMA NextInv == IInv /\ [Next]_vars => IInv'
<1>1. SUFFICES ASSUME IInv, [Next]_vars PROVE IInv'
  OBVIOUS
<1>2. /\ axis \in Axes \cup {NoAxis} /\ win \in Windows /\ srvWin \in Windows
      /\ hook \in Hooks /\ hook.key = KeyOf(axis, win)
      /\ hook.cursor \in 0 .. MaxCursor(axis, win)
      /\ asked \in Windows \cup {None} /\ acts \in Nat /\ url \in Nat
      /\ MaxCursor(axis, win) \in Nat /\ hook.playing \in BOOLEAN
  BY <1>1, HookFacts, CursorFacts DEF IInv, TypeOK
<1>3. Act => acts' \in Nat
  BY <1>2 DEF Act
<1>4. \A a \in Axes : Load(a) => IInv'
  BY <1>1, LoadInv
<1>5. \A w \in Windows : SetWindow(w) => IInv'
  BY <1>1, <1>2, <1>3, WindowInv DEF SetWindow
<1>6. Adopt => IInv'
  BY <1>1, <1>2, <1>3, WindowInv DEF Adopt
<1>7. LoadFails => IInv'
  BY <1>1, <1>2, WindowInv DEF LoadFails
<1>8. \A c \in 0 .. MaxCursor(axis, win) : SetCursor(c) => IInv'
  <2>1. SUFFICES ASSUME NEW c \in 0 .. MaxCursor(axis, win), SetCursor(c)
                 PROVE  IInv'
    OBVIOUS
  <2>2. c \in Nat
    BY <1>2
  <2>3. PICK h : h = With(hook, hook.playing, c)
    OBVIOUS
  <2>4. /\ h \in Hooks /\ h.key = hook.key /\ h.cursor = c
        /\ h = [hook EXCEPT !.cursor = c]
    <3>1. h \in Hooks /\ h.key = hook.key /\ h.cursor = c
      BY <1>2, <2>2, <2>3, WithFacts
    <3>2. h = [hook EXCEPT !.cursor = c]
      BY <1>2, <2>2, <2>3, WithOne
    <3>3. QED
      BY <3>1, <3>2
  <2>5. Render(h, axis, win) /\ UNCHANGED <<rows, srvWin, asked>> /\ acts' \in Nat
    BY <1>3, <2>1, <2>4 DEF SetCursor
  <2>6. QED
    BY <1>1, <1>2, <2>4, <2>5, HookInv
<1>9. TogglePlay => IInv'
  <2>1. SUFFICES ASSUME TogglePlay PROVE IInv'
    OBVIOUS
  <2>2. PICK p \in BOOLEAN, c \in 0 .. MaxCursor(axis, win) :
           Render(With(hook, p, c), axis, win)
    <3>1. (~hook.playing) \in BOOLEAN
      OBVIOUS
    <3>2. 0 \in 0 .. MaxCursor(axis, win)
      BY <1>2
    <3>3. QED
      BY <1>2, <2>1, <3>1, <3>2 DEF TogglePlay, With
  <2>3. PICK h : h = With(hook, p, c)
    OBVIOUS
  <2>4. h \in Hooks /\ h.key = hook.key /\ h.cursor = c
    <3>1. c \in Nat
      BY <1>2
    <3>2. QED
      BY <1>2, <2>3, <3>1, WithFacts
  <2>5. Render(h, axis, win) /\ UNCHANGED <<rows, srvWin, asked>> /\ acts' \in Nat
    BY <1>3, <2>1, <2>2, <2>3 DEF TogglePlay
  <2>6. QED
    BY <1>1, <1>2, <2>4, <2>5, HookInv
<1>10. Tick => IInv'
  <2>1. SUFFICES ASSUME Tick PROVE IInv'
    OBVIOUS
  <2>2. /\ Steps(hook, axis, win) \in Hooks
        /\ Steps(hook, axis, win).key = hook.key
        /\ Steps(hook, axis, win).cursor \in 0 .. MaxCursor(axis, win)
    BY <1>2, StepsFacts
  <2>3. /\ Render(Steps(hook, axis, win), axis, win)
        /\ UNCHANGED <<rows, srvWin, asked>> /\ acts' \in Nat
    BY <1>2, <2>1 DEF Tick
  <2>4. QED
    BY <1>1, <1>2, <2>2, <2>3, HookInv
<1>11. Remount => IInv'
  <2>1. SUFFICES ASSUME Remount PROVE IInv'
    OBVIOUS
  <2>2. /\ Mount(axis, win, url) \in Hooks
        /\ Mount(axis, win, url).key = KeyOf(axis, win)
        /\ Mount(axis, win, url).cursor \in 0 .. MaxCursor(axis, win)
    BY <1>2, MountFacts
  <2>3. /\ Render(Mount(axis, win, url), axis, win)
        /\ UNCHANGED <<rows, srvWin, asked>> /\ acts' \in Nat
    BY <1>3, <2>1 DEF Remount
  <2>4. QED
    BY <1>1, <1>2, <2>2, <2>3, HookInv
<1>12. Hydrate => IInv'
  <2>1. SUFFICES ASSUME Hydrate PROVE IInv'
    OBVIOUS
  <2>2. /\ axis.len > 0 /\ rows' \in [Edges -> Flows(axis)]
        /\ UNCHANGED <<axis, win, srvWin, asked, hook, url, shown, acts>>
    BY <2>1 DEF Hydrate
  <2>3. axis' \in Axes
    BY <1>2, <2>2, AxisFacts
  <2>4. UrlTells' /\ ShownIsARun' /\ RowsHaveAxis'
    BY <1>1, <2>2, <2>3 DEF IInv, UrlTells, UrlOf, MaxCursor, ShownIsARun,
                            LastShown, LastIdx, RowsHaveAxis
  <2>5. TypeOK'
    BY <1>1, <2>2 DEF IInv, TypeOK
  <2>6. QED
    BY <1>2, <2>2, <2>4, <2>5 DEF IInv
<1>13. (\E w \in Windows : PatchWindow(w)) \/ Ask \/ UNCHANGED vars => IInv'
  <2>1. SUFFICES ASSUME (\E w \in Windows : PatchWindow(w)) \/ Ask \/ UNCHANGED vars
                 PROVE  IInv'
    OBVIOUS
  <2>2. /\ UNCHANGED <<axis, rows, win, hook, url, shown>>
        /\ srvWin' \in Windows /\ asked' \in Windows \cup {None} /\ acts' \in Nat
    BY <1>2, <1>3, <2>1 DEF PatchWindow, Ask, vars
  <2>3. TypeOK'
    BY <1>1, <2>2 DEF IInv, TypeOK
  <2>4. UrlTells' /\ ShownIsARun' /\ RowsHaveAxis'
    BY <1>1, <2>2 DEF IInv, UrlTells, UrlOf, MaxCursor, ShownIsARun,
                      LastShown, LastIdx, RowsHaveAxis
  <2>5. QED
    BY <1>2, <2>2, <2>3, <2>4 DEF IInv
<1>14. QED
  BY <1>1, <1>4, <1>5, <1>6, <1>7, <1>8, <1>9, <1>10, <1>11, <1>12, <1>13 DEF Next

(* The invariant holds in every reachable state.                             *)
THEOREM Inductive == Spec => []IInv
<1>1. QED
  BY InitInv, NextInv, PTL DEF Spec

---------------------------------------------------------------------------
(* What follows from it *)

(* The cursor is on the axis, whatever is loaded, adopted or chosen.         *)
THEOREM TypeCorrect == Spec => []TypeOK
<1>1. IInv => TypeOK
  BY DEF IInv
<1>2. QED
  BY <1>1, Inductive, PTL

(* The window at a cursor of the axis ends on the axis, and a bucket of the  *)
(* axis is in it exactly if it is drawn (useTimelineFilter.ts 69-101).       *)
LEMMA WindowIsExact ==
    ASSUME NEW a \in Axes, NEW w \in Windows, NEW c \in 0 .. MaxCursor(a, w)
    PROVE  LET drawn == c .. c + Min({w, a.len}) - 1 IN
           /\ drawn \subseteq 0 .. LastIdx(a)
           /\ \A b \in Buckets(a) :
                 InWindow(c, w, Idx(a, b)) <=> \E i \in drawn : a.start + i = b
<1> DEFINE m == Min({w, a.len})
<1>1. /\ a.start \in Nat \ {0} /\ a.len \in Nat \ {0} /\ w \in Nat \ {0}
      /\ LastIdx(a) = a.len - 1
  BY AxisFacts, CursorFacts
<1>2. /\ c \in Nat
      /\ a.len > w => c <= a.len - w
      /\ ~(a.len > w) => c = 0
  BY <1>1 DEF MaxCursor
<1>3. m = IF w <= a.len THEN w ELSE a.len
  <2>1. w \in Int /\ a.len \in Int
    BY <1>1
  <2>2. Min({w, a.len}) = IF w <= a.len THEN w ELSE a.len
    BY <2>1, PairFacts
  <2>3. QED
    BY <2>2
<1> HIDE DEF m
<1>4. m \in Nat \ {0} /\ c + m - 1 <= a.len - 1
  BY <1>1, <1>2, <1>3
<1>5. c .. c + m - 1 \subseteq 0 .. LastIdx(a)
  BY <1>1, <1>2, <1>4
<1>6. ASSUME NEW b \in Buckets(a)
      PROVE  InWindow(c, w, Idx(a, b)) <=> \E i \in c .. c + m - 1 : a.start + i = b
  <2>1. b \in Nat /\ a.start <= b /\ b <= a.start + a.len - 1
    BY <1>1 DEF Buckets
  <2>2. InWindow(c, w, Idx(a, b)) <=> c <= b - a.start /\ b - a.start <= c + w - 1
    BY DEF InWindow, Idx
  <2>3. (\E i \in c .. c + m - 1 : a.start + i = b)
          <=> c <= b - a.start /\ b - a.start <= c + m - 1
    <3>1. \A i \in Int : a.start + i = b <=> i = b - a.start
      BY <1>1, <2>1
    <3>2. b - a.start \in Int
      BY <1>1, <2>1
    <3>3. b - a.start \in c .. c + m - 1 <=> c <= b - a.start /\ b - a.start <= c + m - 1
      BY <1>2, <1>4, <3>2
    <3>4. \A i \in c .. c + m - 1 : i \in Int
      BY <1>2, <1>4
    <3>5. QED
      BY <3>1, <3>2, <3>3, <3>4
  <2>4. c <= b - a.start => (b - a.start <= c + w - 1 <=> b - a.start <= c + m - 1)
    BY <1>1, <1>2, <1>3, <2>1
  <2>5. QED
    BY <2>2, <2>3, <2>4
<1>7. QED
  BY <1>5, <1>6 DEF m

(* A frame is a whole window of the axis and lights exactly the edges with   *)
(* transfers in it, whatever was loaded, adopted or chosen since the cursor  *)
(* was set (useTimelineFilter.ts 69-101).                                    *)
THEOREM FrameIsExactCorrect == Spec => []FrameIsExact
<1>1. ASSUME IInv PROVE FrameIsExact
  <2>1. SUFFICES ASSUME rows # None PROVE FrameIsExact
    BY DEF FrameIsExact
  <2>2. /\ axis \in Axes /\ rows \in [Edges -> Flows(axis)]
        /\ win \in Windows /\ hook.cursor \in 0 .. MaxCursor(axis, win)
    BY <1>1, <2>1 DEF IInv, TypeOK, RowsHaveAxis
  <2>3. PICK drawn : drawn = hook.cursor .. hook.cursor + Min({win, axis.len}) - 1
    OBVIOUS
  <2>4. /\ drawn \subseteq 0 .. LastIdx(axis)
        /\ \A b \in Buckets(axis) :
              InWindow(hook.cursor, win, Idx(axis, b))
                <=> \E i \in drawn : axis.start + i = b
    BY <2>2, <2>3, WindowIsExact
  <2>5. ASSUME NEW e \in Edges
        PROVE  (\E b \in rows[e] : InWindow(hook.cursor, win, Idx(axis, b)))
                 <=> \E i \in drawn : axis.start + i \in rows[e]
    <3>1. rows[e] \subseteq Buckets(axis)
      BY <2>2 DEF Flows
    <3>2. QED
      BY <2>4, <3>1
  <2>6. Lit(axis, rows, hook.cursor, win)
          = {e \in Edges : \E i \in drawn : axis.start + i \in rows[e]}
    BY <2>5 DEF Lit
  <2>7. QED
    BY <2>3, <2>4, <2>6 DEF FrameIsExact
<1>2. QED
  BY <1>1, Inductive, PTL

(* Playback that ends by itself has drawn every bucket from the one it began *)
(* with to the last (useTimelineFilter.ts 103-120).                          *)
THEOREM ShowsAllCorrect == Spec => ShowsAll
<1>1. ASSUME IInv, Tick, ~hook'.playing
      PROVE  Min(shown) .. LastIdx(axis) \subseteq shown
  <2>1. /\ axis \in Axes \cup {NoAxis} /\ win \in Windows /\ hook \in Hooks
        /\ hook.cursor \in 0 .. MaxCursor(axis, win)
    BY <1>1, HookFacts
  <2>2. hook.playing /\ hook' = Steps(hook, axis, win)
    BY <1>1 DEF Tick, Render
  <2>3. hook.cursor = MaxCursor(axis, win)
    BY <1>1, <2>1, <2>2, StepsFacts
  <2>4. PICK lo \in 0 .. hook.cursor : shown = lo .. LastShown(hook, axis, win)
    BY <1>1, <2>2 DEF IInv, ShownIsARun
  <2>5. /\ LastShown(hook, axis, win) = LastIdx(axis)
        /\ LastIdx(axis) \in Nat /\ hook.cursor \in Nat /\ hook.cursor <= LastIdx(axis)
    BY <2>1, <2>3, CursorFacts, AxisFacts
  <2>6. lo \in Nat /\ shown = lo .. LastIdx(axis) /\ lo \in shown
    BY <2>4, <2>5
  <2>7. Min(shown) \in shown /\ \A x \in shown : Min(shown) <= x
    <3>1. \E m \in shown : \A x \in shown : m <= x
      BY <2>5, <2>6
    <3>2. QED
      BY <3>1 DEF Min
  <2>8. QED
    BY <2>5, <2>6, <2>7
<1>2. IInv => [Tick /\ ~hook'.playing
                 => Min(shown) .. LastIdx(axis) \subseteq shown]_vars
  BY <1>1
<1>3. QED
  BY <1>2, Inductive, PTL DEF ShowsAll

(* A cursor that stands still survives leaving the view, by the URL          *)
(* (TimelineView.tsx 685-713, useTimelineFilter.ts 72-76).                   *)
THEOREM CursorSurvivesCorrect == Spec => CursorSurvives
<1>1. ASSUME IInv, Remount, ~hook.playing, hook.cursor > 0
      PROVE  hook'.cursor = hook.cursor
  <2>1. hook' = Mount(axis, win, url)
    BY <1>1 DEF Remount, Render
  <2>2. hook.cursor \in 0 .. MaxCursor(axis, win) /\ MaxCursor(axis, win) \in Nat
    BY <1>1, HookFacts, CursorFacts
  <2>3. url = IF hook.cursor # MaxCursor(axis, win) THEN hook.cursor ELSE 0
    BY <1>1 DEF IInv, UrlTells, UrlOf
  <2>4. Mount(axis, win, url).cursor =
           IF url \in 1 .. MaxCursor(axis, win) THEN url ELSE MaxCursor(axis, win)
    BY DEF Mount
  <2>5. QED
    BY <1>1, <2>1, <2>2, <2>3, <2>4
<1>2. IInv => [Remount /\ ~hook.playing /\ hook.cursor > 0
                 => hook'.cursor = hook.cursor]_vars
  BY <1>1
<1>3. QED
  BY <1>2, Inductive, PTL DEF CursorSurvives
============================================================================
