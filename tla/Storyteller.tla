----------------------------- MODULE Storyteller -----------------------------
(***************************************************************************)
(* The storyteller session: one per process, gated from a context brief to *)
(* the handoff (storyteller/state.py), and the tools over it, which keep a *)
(* durable copy of it in the event log (tools/storyteller/storyteller.py). *)
(*                                                                         *)
(* A method of the session runs under its lock and is one step.  A tool is *)
(* several, and tools run on concurrent worker threads.  The events that    *)
(* the tools also emit feed resume hints only: they are not kept here.      *)
(***************************************************************************)
EXTENDS Naturals, Sequences, FiniteSets

CONSTANTS
    Worker,      \* threads that execute tool calls
    SessionId,   \* bound: the ids of the sessions ever started
    Scene,       \* scene indexes
    Boards,      \* the storyboards that may be recorded: sequences of scenes
    BlockedTo,   \* the phases that a blocking review can send a session back to
    Text,        \* story texts
    NoText,
    MaxFaults    \* bound: snapshots dropped or late

ASSUME BoardAssumption == \A b \in Boards : b \in Seq(Scene) /\ Len(b) >= 2
ASSUME BlockedToAssumption ==
    BlockedTo \subseteq {"context", "narrative", "storyboard", "visual_design", "write"}
ASSUME TextAssumption == NoText \notin Text
ASSUME FaultAssumption == MaxFaults \in Nat

VARIABLES
    session,     \* the live session
    sid,         \* its id: a set of at most one
    used,        \* the ids that were given out
    saved,       \* saved[s]: the last snapshot of session s, a set of at most one
    late,        \* snapshots left on abandoned worker threads
    faults,      \* how many snapshots were dropped or late
    report,      \* what the last report was made of: a set of at most one
    call         \* what each worker is doing

vars == <<session, sid, used, saved, late, faults, report, call>>

-----------------------------------------------------------------------------
(* The session. *)

Phase == {"idle", "context", "narrative", "storyboard", "visual_design",
          "write", "critique", "accessibility", "handoff"}

Review == {"none", "blocked", "ready"}

NoBoard == <<>>

Session == [active  : BOOLEAN,
            phase   : Phase,
            context : BOOLEAN,
            idea    : BOOLEAN,
            board   : Boards \cup {NoBoard},
            specs   : SUBSET Scene,
            story   : Text \cup {NoText},
            review  : Review,
            reviewed : Text \cup {NoText},   \* history: the text reviewed last
            access  : BOOLEAN]

Cleared == [active |-> FALSE, phase |-> "idle", context |-> FALSE, idea |-> FALSE,
            board |-> NoBoard, specs |-> {}, story |-> NoText, review |-> "none",
            reviewed |-> NoText, access |-> FALSE]

Started == [Cleared EXCEPT !.active = TRUE, !.phase = "context"]

Scenes(b) == {b[i] : i \in DOMAIN b}

\* The gates of require_ready_for_handoff.
Ready(st) ==
    /\ st.active
    /\ st.context /\ st.idea /\ st.board # NoBoard
    /\ Len(st.board) <= Cardinality(st.specs)
    /\ st.story # NoText
    /\ st.review = "ready"
    /\ st.access

-----------------------------------------------------------------------------
(* Calls in progress.                                                      *)
(*   "sid"      a mutation is done, the id is read next                    *)
(*   "payload"  the payload of the snapshot is taken next                  *)
(*   "write"    the snapshot is written next                               *)
(*   "adopt"    start: the new id is set next                              *)
(*   "forget"   end: the id is unset next                                  *)
(*   "restore"  resume: the session is replaced by the snapshot next       *)
(*   "resumed"  resume: the id of the snapshot is set next                 *)
(*   "snapshot" handoff: the gates have passed, a snapshot is taken next   *)
(*   "render"   handoff: the story is read and rendered next               *)
(*   "handoff"  handoff: the id is unset next                              *)
(*   "close"    handoff: the session is ended next                         *)

Step == {"idle", "sid", "payload", "write", "adopt", "forget", "restore",
         "resumed", "snapshot", "render", "handoff", "close"}

Call == [step : Step, sid : SUBSET SessionId, state : Session]

Idle == [step |-> "idle", sid |-> {}, state |-> Cleared]

Snapshot == [sid : SessionId, state : Session]

Report == [story    : Text \cup {NoText},
           reviewed : Text \cup {NoText},
           bare     : SUBSET Scene]          \* the scenes without a visual spec

\* A report rendered from session st.
Rendering(st) == [story    |-> st.story,
                  reviewed |-> st.reviewed,
                  bare     |-> Scenes(st.board) \ st.specs]

Init ==
    /\ session = Cleared
    /\ sid = {}
    /\ used = {}
    /\ saved = [s \in SessionId |-> {}]
    /\ late = {}
    /\ faults = 0
    /\ report = {}
    /\ call = [w \in Worker |-> Idle]

AtStep(w, s) == call[w].step = s

Go(w, new) == call' = [call EXCEPT ![w] = new]

Log == <<saved, late, faults>>     \* what is durable, and on its way there

-----------------------------------------------------------------------------
(* The recording tools.  Each is a method of the session, which may refuse, *)
(* and then a snapshot.                                                     *)

\* Worker w records: the session becomes st.
Record(w, st) ==
    /\ AtStep(w, "idle")
    /\ session.active
    /\ session' = st
    /\ Go(w, [Idle EXCEPT !.step = "sid"])
    /\ UNCHANGED <<sid, used, Log, report>>

RecordContextBrief(w) ==
    Record(w, [session EXCEPT !.context = TRUE, !.phase = "narrative"])

\* Faulty: the big idea does not wait for the context brief.
RecordBigIdeaFirst(w) ==
    Record(w, [session EXCEPT !.idea = TRUE, !.phase = "storyboard"])

RecordBigIdea(w) ==
    /\ session.context
    /\ Record(w, [session EXCEPT !.idea = TRUE, !.phase = "storyboard"])

\* The specs of the storyboard before stay.
RecordStoryboard(w, b) ==
    /\ session.idea
    /\ Record(w, [session EXCEPT !.board = b, !.phase = "visual_design"])

\* Faulty: only a move to another phase is persisted.
RecordVisualSpecUnsaved(w, scene) ==
    LET specs == session.specs \cup {scene}
    IN  /\ scene \in Scenes(session.board)
        /\ AtStep(w, "idle") /\ session.active
        /\ IF Cardinality(specs) >= Len(session.board)
           THEN Record(w, [session EXCEPT !.specs = specs, !.phase = "write"])
           ELSE /\ session' = [session EXCEPT !.specs = specs]
                /\ UNCHANGED <<sid, used, Log, report, call>>

\* A spec replaces the one of the same scene.
RecordVisualSpec(w, scene) ==
    LET specs == session.specs \cup {scene}
    IN  /\ scene \in Scenes(session.board)
        /\ Record(w, [session EXCEPT
               !.specs = specs,
               !.phase = IF Cardinality(specs) >= Len(session.board) THEN "write" ELSE @])

\* The review and the accessibility pass of the text before stay.
RecordFinalStory(w, t) ==
    /\ session.board # NoBoard
    /\ Cardinality(session.specs) >= Len(session.board)
    /\ Record(w, [session EXCEPT !.story = t, !.phase = "critique"])

\* Where a review leaves the session: _earliest_failing_phase, or onwards.
ReviewTarget == BlockedTo \cup {"accessibility"}

\* Faulty: the session takes the tag of the failing check for its phase.
RecordReviewByTag(w, p) ==
    /\ session.story # NoText
    /\ Record(w, [session EXCEPT
           !.review = IF p = "accessibility" THEN "ready" ELSE "blocked",
           !.reviewed = session.story,
           !.phase = IF p = "write" THEN "title" ELSE p])

\* The checks of the report pass ("ready"), or send the session back to phase p.
RecordReview(w, p) ==
    /\ session.story # NoText
    /\ Record(w, [session EXCEPT
           !.review = IF p = "accessibility" THEN "ready" ELSE "blocked",
           !.reviewed = session.story,
           !.phase = p])

\* Faulty: any review will do.
RecordAccessibilityPassAnyReview(w, passed) ==
    /\ session.review # "none"
    /\ Record(w, [session EXCEPT !.access = passed,
                                 !.phase = IF passed THEN "handoff" ELSE "write"])

RecordAccessibilityPass(w, passed) ==
    /\ session.review = "ready"
    /\ Record(w, [session EXCEPT !.access = passed,
                                 !.phase = IF passed THEN "handoff" ELSE "write"])

-----------------------------------------------------------------------------
(* _persist_state: the id, then the payload, then the write.               *)

ReadId(w) ==
    /\ AtStep(w, "sid")
    /\ Go(w, IF sid = {} THEN Idle ELSE [Idle EXCEPT !.step = "payload", !.sid = sid])
    /\ UNCHANGED <<session, sid, used, Log, report>>

TakePayload(w) ==
    /\ AtStep(w, "payload")
    /\ Go(w, [call[w] EXCEPT !.step = "write", !.state = session])
    /\ UNCHANGED <<session, sid, used, Log, report>>

\* The write lands, is dropped, or is left on an abandoned thread (EventWriter).
WriteSnapshot(w) ==
    /\ AtStep(w, "write")
    /\ \E s \in call[w].sid :
          \/ saved' = [saved EXCEPT ![s] = {call[w].state}] /\ UNCHANGED <<late, faults>>
          \/ /\ faults < MaxFaults
             /\ faults' = faults + 1
             /\ late' \in {late, late \cup {[sid |-> s, state |-> call[w].state]}}
             /\ UNCHANGED saved
    /\ Go(w, Idle)
    /\ UNCHANGED <<session, sid, used, report>>

\* It becomes the snapshot with the highest sequence number.
LandLate(x) ==
    /\ x \in late
    /\ late' = late \ {x}
    /\ saved' = [saved EXCEPT ![x.sid] = {x.state}]
    /\ UNCHANGED <<session, sid, used, faults, report, call>>

-----------------------------------------------------------------------------
(* storyteller_start_session, storyteller_end_session.                      *)

StartSession(w) ==
    /\ AtStep(w, "idle")
    /\ used # SessionId
    /\ session' = Started
    /\ Go(w, [Idle EXCEPT !.step = "adopt"])
    /\ UNCHANGED <<sid, used, Log, report>>

Adopt(w, s) ==
    /\ AtStep(w, "adopt")
    /\ s \notin used
    /\ sid' = {s}
    /\ used' = used \cup {s}
    /\ Go(w, Idle)
    /\ UNCHANGED <<session, Log, report>>

EndSession(w) ==
    /\ AtStep(w, "idle")
    /\ session' = Cleared
    /\ Go(w, [Idle EXCEPT !.step = "forget"])
    /\ UNCHANGED <<sid, used, Log, report>>

Forget(w) ==
    /\ AtStep(w, "forget")
    /\ sid' = {}
    /\ Go(w, Idle)
    /\ UNCHANGED <<session, used, Log, report>>

-----------------------------------------------------------------------------
(* storyteller_resume_session. *)

LoadSnapshot(w, s) ==
    /\ AtStep(w, "idle")
    /\ \E st \in saved[s] :
          Go(w, [step |-> "restore", sid |-> {s}, state |-> st])
    /\ UNCHANGED <<session, sid, used, Log, report>>

Restore(w) ==
    /\ AtStep(w, "restore")
    /\ session' = call[w].state
    /\ Go(w, [call[w] EXCEPT !.step = "resumed"])
    /\ UNCHANGED <<sid, used, Log, report>>

AdoptResumed(w) ==
    /\ AtStep(w, "resumed")
    /\ sid' = call[w].sid
    /\ Go(w, Idle)
    /\ UNCHANGED <<session, used, Log, report>>

-----------------------------------------------------------------------------
(* storyteller_generate_story_report. *)

CheckReady(w) ==
    /\ AtStep(w, "idle")
    /\ Ready(session)
    /\ Go(w, [Idle EXCEPT !.step = "snapshot"])
    /\ UNCHANGED <<session, sid, used, Log, report>>

\* Without a context brief an assertion fails.
TakeSnapshot(w) ==
    /\ AtStep(w, "snapshot")
    /\ Go(w, IF session.context THEN [Idle EXCEPT !.step = "render"] ELSE Idle)
    /\ UNCHANGED <<session, sid, used, Log, report>>

\* The title and the text are read off the live session.
Render(w) ==
    /\ AtStep(w, "render")
    /\ report' = {Rendering(session)}
    /\ Go(w, [Idle EXCEPT !.step = "handoff"])
    /\ UNCHANGED <<session, sid, used, Log>>

\* create_report_artifact raises.
RenderFails(w) ==
    /\ AtStep(w, "render")
    /\ Go(w, Idle)
    /\ UNCHANGED <<session, sid, used, Log, report>>

HandOff(w) ==
    /\ AtStep(w, "handoff")
    /\ sid' = {}
    /\ Go(w, [Idle EXCEPT !.step = "close"])
    /\ UNCHANGED <<session, used, Log, report>>

Close(w) ==
    /\ AtStep(w, "close")
    /\ session' = Cleared
    /\ Go(w, Idle)
    /\ UNCHANGED <<sid, used, Log, report>>

-----------------------------------------------------------------------------

\* The process dies: the log and the rendered report stay.
Crash ==
    /\ used # {}
    /\ session' = Cleared
    /\ sid' = {}
    /\ late' = {}
    /\ call' = [w \in Worker |-> Idle]
    /\ UNCHANGED <<used, saved, faults, report>>

RecordingTool(w) ==
    \/ RecordContextBrief(w) \/ RecordBigIdea(w)
    \/ \E b \in Boards : RecordStoryboard(w, b)
    \/ \E s \in Scene : RecordVisualSpec(w, s)
    \/ \E t \in Text : RecordFinalStory(w, t)
    \/ \E p \in ReviewTarget : RecordReview(w, p)
    \/ \E passed \in BOOLEAN : RecordAccessibilityPass(w, passed)

Persist(w) == ReadId(w) \/ TakePayload(w) \/ WriteSnapshot(w)

Lifecycle(w) ==
    \/ StartSession(w) \/ EndSession(w) \/ Forget(w)
    \/ \E s \in SessionId : Adopt(w, s) \/ LoadSnapshot(w, s)
    \/ Restore(w) \/ AdoptResumed(w)

Handoff(w) ==
    \/ CheckReady(w) \/ TakeSnapshot(w) \/ Render(w) \/ RenderFails(w)
    \/ HandOff(w) \/ Close(w)

Next ==
    \/ \E w \in Worker : RecordingTool(w) \/ Persist(w) \/ Lifecycle(w) \/ Handoff(w)
    \/ \E x \in late : LandLate(x)
    \/ Crash

Spec == Init /\ [][Next]_vars

-----------------------------------------------------------------------------
(* Properties. *)

\* Every variable has its type.
TypeOK ==
    /\ session \in Session
    /\ sid \in SUBSET SessionId
    /\ used \in SUBSET SessionId
    /\ saved \in [SessionId -> SUBSET Session]
    /\ late \in SUBSET Snapshot
    /\ faults \in 0..MaxFaults
    /\ report \in SUBSET Report
    /\ call \in [Worker -> Call]

\* Every artifact has the one that it was built on.
Chained(st) ==
    /\ st.access \/ st.review # "none" => st.story # NoText
    /\ st.story # NoText => st.board # NoBoard
    /\ st.board # NoBoard => st.idea
    /\ st.idea => st.context
    /\ st.context => st.active

\* A phase is only entered with the artifacts that the phases before it make.
PhaseBacked(st) ==
    /\ st.active <=> st.phase # "idle"
    /\ st.phase \in {"narrative", "storyboard"} => st.context
    /\ st.phase \in {"visual_design", "write"} => st.board # NoBoard
    /\ st.phase = "critique" => st.story # NoText
    /\ st.phase \in {"accessibility", "handoff"} => st.review = "ready"
    /\ st.phase = "handoff" => st.access

\* "artifact-handoff pipeline - each phase produces a typed Pydantic artifact
\* the next phase consumes" (README.md 675): whatever rolled the session back,
\* restored it, raced with it or overwrote its snapshot, the live session and
\* every durable one hold all that their phase was built on.
PipelineInOrder ==
    /\ Chained(session) /\ PhaseBacked(session)
    /\ \A s \in SessionId : \A st \in saved[s] : Chained(st) /\ PhaseBacked(st)

\* "Artifacts are now snapshotted after every mutation" (storyteller.py 356):
\* between tools, and if no write was dropped or late, the last snapshot of the
\* live session is the session.
SnapshotIsCurrent ==
    faults = 0 /\ (\A w \in Worker : AtStep(w, "idle")) =>
        \A s \in sid : saved[s] = {session} \/ (saved[s] = {} /\ session = Started)

\* "Artifacts are now snapshotted after every mutation; this is the read side of
\* that" (storyteller.py 356): a session whose finished story is durable keeps a
\* finished story.
SavedWorkIsKept ==
    [][\A s \in SessionId :
         (\E st \in saved[s] : st.story # NoText)
             => \E st \in saved'[s] : st.story # NoText]_vars

\* "hard-blocks final handoff until every clarity check passes" (README.md 97):
\* the text of a report is the text that the review passed.
RenderedTextIsReviewed ==
    \A r \in report : r.story = r.reviewed

\* "visual specs for every scene" (storyteller.py 776): each scene of a
\* rendered story has its visual spec.
EverySceneHasSpec ==
    \A r \in report : r.bare = {}

=============================================================================
