-------------------------- MODULE StorytellerProofs --------------------------
(***************************************************************************)
(* Proofs about Storyteller for any set of threads, storyboards, texts and *)
(* any number of lost or late snapshots: the types, and that the pipeline  *)
(* is in order.  The invariant has to speak of every copy of the session:  *)
(* the live one, the durable ones, those that are being written or         *)
(* restored, and those left on abandoned threads.                          *)
(***************************************************************************)
EXTENDS Storyteller, TLAPS

Good(st) == st \in Session /\ Chained(st) /\ PhaseBacked(st)

\* The inductive invariant.
IInv ==
    /\ TypeOK
    /\ Good(session)
    /\ \A s \in SessionId : \A st \in saved[s] : Good(st)
    /\ \A x \in late : Good(x.state)
    /\ \A w \in Worker : Good(call[w].state)

-----------------------------------------------------------------------------
(* Sessions. *)

\* A cleared session, and one that was just started, are in order
\* (state.py 76-105).
LEMMA FreshGood == Good(Cleared) /\ Good(Started)
BY DEF Good, Session, Cleared, Started, Chained, PhaseBacked, Phase, Review

\* A report is made of what the session holds (storyteller.py 799-832).
LEMMA RenderingType ==
    ASSUME NEW st \in Session
    PROVE  Rendering(st) \in Report
<1>1. st.board \in Seq(Scene)
  <2>1. st.board \in Boards \/ st.board = <<>>
    BY DEF Session, NoBoard
  <2>2. <<>> \in Seq(Scene)
    OBVIOUS
  <2>3. QED
    BY <2>1, <2>2, BoardAssumption
<1>2. Scenes(st.board) \subseteq Scene
  BY <1>1 DEF Scenes
<1>3. QED
  BY <1>2 DEF Rendering, Report, Session

-----------------------------------------------------------------------------
(* Steps of a call. *)

\* Moving a worker on keeps every other call as it was.
LEMMA GoFacts ==
    ASSUME IInv, NEW w \in Worker, NEW c \in Call, Good(c.state), Go(w, c)
    PROVE  /\ call' \in [Worker -> Call]
           /\ \A v \in Worker : Good(call'[v].state)
BY DEF IInv, TypeOK, Go

\* A call that has just begun, or ended, holds no copy of the session.
LEMMA IdleFacts ==
    /\ Idle \in Call /\ Good(Idle.state)
    /\ \A s \in Step : /\ [Idle EXCEPT !.step = s] \in Call
                       /\ Good([Idle EXCEPT !.step = s].state)
    /\ \A i \in SUBSET SessionId :
          /\ [Idle EXCEPT !.step = "payload", !.sid = i] \in Call
          /\ Good([Idle EXCEPT !.step = "payload", !.sid = i].state)
BY FreshGood DEF Idle, Call, Step, Good

\* A recording tool keeps the pipeline in order if what it records does
\* (state.py 109-277).
LEMMA RecordKeeps ==
    ASSUME IInv, NEW w \in Worker, NEW st, Record(w, st), Good(st)
    PROVE  IInv'
<1>1. /\ call' \in [Worker -> Call]
      /\ \A v \in Worker : Good(call'[v].state)
  BY GoFacts, IdleFacts DEF Record, Step
<1>2. /\ session' \in Session /\ Good(session')
      /\ UNCHANGED <<sid, used, saved, late, faults, report>>
  BY DEF Record, Log, Good
<1>3. QED
  BY <1>1, <1>2 DEF IInv, TypeOK

\* Each of the recording tools records a session in order.
LEMMA RecordingKeeps ==
    ASSUME IInv, NEW w \in Worker, RecordingTool(w)
    PROVE  IInv'
<1> USE DEF Good, Session, Chained, PhaseBacked, Phase, Review, NoBoard
<1> session \in Session /\ Good(session)
  BY DEF IInv, TypeOK
<1>0. session.active \/ ~RecordingTool(w)
  BY DEF RecordingTool, RecordContextBrief, RecordBigIdea, RecordStoryboard,
         RecordVisualSpec, RecordFinalStory, RecordReview,
         RecordAccessibilityPass, Record
<1>1. CASE RecordContextBrief(w)
  <2>1. Good([session EXCEPT !.context = TRUE, !.phase = "narrative"])
    BY <1>0
  <2>2. QED
    BY <1>1, <2>1, RecordKeeps DEF RecordContextBrief
<1>2. CASE RecordBigIdea(w)
  <2>1. Good([session EXCEPT !.idea = TRUE, !.phase = "storyboard"])
    BY <1>0, <1>2 DEF RecordBigIdea
  <2>2. QED
    BY <1>2, <2>1, RecordKeeps DEF RecordBigIdea
<1>3. ASSUME NEW b \in Boards, RecordStoryboard(w, b) PROVE IInv'
  <2>1. b # <<>>
    BY BoardAssumption
  <2>2. Good([session EXCEPT !.board = b, !.phase = "visual_design"])
    BY <1>0, <1>3, <2>1 DEF RecordStoryboard
  <2>3. QED
    BY <1>3, <2>2, RecordKeeps DEF RecordStoryboard
<1>4. ASSUME NEW s \in Scene, RecordVisualSpec(w, s) PROVE IInv'
  <2> DEFINE specs == session.specs \cup {s}
  <2> DEFINE next == IF Cardinality(specs) >= Len(session.board) THEN "write"
                     ELSE session.phase
  <2>1. session.board # <<>> /\ s \in Scenes(session.board)
    BY <1>4 DEF RecordVisualSpec, Scenes
  <2>2. specs \in SUBSET Scene
    BY DEF Session
  <2>3. next \in {"write", session.phase}
    OBVIOUS
  <2> HIDE DEF next, specs
  <2>4. Good([session EXCEPT !.specs = specs, !.phase = next])
    BY <1>0, <2>1, <2>2, <2>3
  <2>5. Record(w, [session EXCEPT !.specs = specs, !.phase = next])
    BY <1>4 DEF RecordVisualSpec, specs, next
  <2>6. QED
    BY <2>4, <2>5, RecordKeeps
<1>5. ASSUME NEW t \in Text, RecordFinalStory(w, t) PROVE IInv'
  <2>1. t # NoText
    BY TextAssumption
  <2>2. Good([session EXCEPT !.story = t, !.phase = "critique"])
    BY <1>0, <1>5, <2>1 DEF RecordFinalStory
  <2>3. QED
    BY <1>5, <2>2, RecordKeeps DEF RecordFinalStory
<1>6. ASSUME NEW p \in ReviewTarget, RecordReview(w, p) PROVE IInv'
  <2> DEFINE verdict == IF p = "accessibility" THEN "ready" ELSE "blocked"
  <2>1. p \in {"context", "narrative", "storyboard", "visual_design", "write",
               "accessibility"}
    BY BlockedToAssumption DEF ReviewTarget
  <2>2. Good([session EXCEPT !.review = verdict, !.reviewed = session.story,
                             !.phase = p])
    BY <1>0, <1>6, <2>1 DEF RecordReview
  <2>3. QED
    BY <1>6, <2>2, RecordKeeps DEF RecordReview
<1>7. ASSUME NEW passed \in BOOLEAN, RecordAccessibilityPass(w, passed) PROVE IInv'
  <2>1. Good([session EXCEPT !.access = passed,
                             !.phase = IF passed THEN "handoff" ELSE "write"])
    BY <1>0, <1>7 DEF RecordAccessibilityPass
  <2>2. QED
    BY <1>7, <2>1, RecordKeeps DEF RecordAccessibilityPass
<1>8. QED
  BY <1>1, <1>2, <1>3, <1>4, <1>5, <1>6, <1>7 DEF RecordingTool

-----------------------------------------------------------------------------
(* The other steps. *)

\* A snapshot is of a session in order, whenever its payload is taken and
\* however late it lands (storyteller.py 230-248).
LEMMA PersistKeeps ==
    ASSUME IInv, NEW w \in Worker, Persist(w)
    PROVE  IInv'
<1>1. CASE ReadId(w)
  <2> DEFINE c == IF sid = {} THEN Idle ELSE [Idle EXCEPT !.step = "payload", !.sid = sid]
  <2>1. c \in Call /\ Good(c.state)
    BY IdleFacts DEF IInv, TypeOK
  <2>2. call' \in [Worker -> Call] /\ \A v \in Worker : Good(call'[v].state)
    BY <1>1, <2>1, GoFacts DEF ReadId
  <2>3. QED
    BY <1>1, <2>2 DEF ReadId, Log, IInv, TypeOK
<1>2. CASE TakePayload(w)
  <2> DEFINE c == [call[w] EXCEPT !.step = "write", !.state = session]
  <2>1. c \in Call /\ Good(c.state)
    BY DEF IInv, TypeOK, Call, Step
  <2>2. call' \in [Worker -> Call] /\ \A v \in Worker : Good(call'[v].state)
    BY <1>2, <2>1, GoFacts DEF TakePayload
  <2>3. QED
    BY <1>2, <2>2 DEF TakePayload, Log, IInv, TypeOK
<1>3. CASE WriteSnapshot(w)
  <2>1. call' \in [Worker -> Call] /\ \A v \in Worker : Good(call'[v].state)
    BY <1>3, IdleFacts, GoFacts DEF WriteSnapshot
  <2>2. PICK s \in call[w].sid :
          \/ saved' = [saved EXCEPT ![s] = {call[w].state}] /\ UNCHANGED <<late, faults>>
          \/ /\ faults < MaxFaults
             /\ faults' = faults + 1
             /\ late' \in {late, late \cup {[sid |-> s, state |-> call[w].state]}}
             /\ UNCHANGED saved
    BY <1>3 DEF WriteSnapshot
  <2>3. s \in SessionId /\ call[w].state \in Session /\ Good(call[w].state)
    BY DEF IInv, TypeOK, Call
  <2>4. /\ saved' \in [SessionId -> SUBSET Session]
        /\ \A i \in SessionId : \A st \in saved'[i] : Good(st)
    BY <2>2, <2>3 DEF IInv, TypeOK
  <2>5. /\ late' \in SUBSET Snapshot
        /\ \A x \in late' : Good(x.state)
    BY <2>2, <2>3 DEF IInv, TypeOK, Snapshot
  <2>6. faults' \in 0..MaxFaults
    BY <2>2, FaultAssumption DEF IInv, TypeOK
  <2>7. QED
    BY <1>3, <2>1, <2>4, <2>5, <2>6 DEF WriteSnapshot, IInv, TypeOK
<1>4. QED
  BY <1>1, <1>2, <1>3 DEF Persist

\* So do starting, ending and resuming a session (storyteller.py 283-405).
LEMMA LifecycleKeeps ==
    ASSUME IInv, NEW w \in Worker, Lifecycle(w)
    PROVE  IInv'
<1>1. CASE StartSession(w) \/ EndSession(w)
  <2>1. call' \in [Worker -> Call] /\ \A v \in Worker : Good(call'[v].state)
    BY <1>1, IdleFacts, GoFacts DEF StartSession, EndSession, Step
  <2>2. QED
    BY <1>1, <2>1, FreshGood DEF StartSession, EndSession, Log, IInv, TypeOK, Good
<1>2. ASSUME NEW s \in SessionId, Adopt(w, s) PROVE IInv'
  <2>1. call' \in [Worker -> Call] /\ \A v \in Worker : Good(call'[v].state)
    BY <1>2, IdleFacts, GoFacts DEF Adopt
  <2>2. QED
    BY <1>2, <2>1 DEF Adopt, Log, IInv, TypeOK
<1>3. CASE Forget(w)
  <2>1. call' \in [Worker -> Call] /\ \A v \in Worker : Good(call'[v].state)
    BY <1>3, IdleFacts, GoFacts DEF Forget
  <2>2. QED
    BY <1>3, <2>1 DEF Forget, Log, IInv, TypeOK
<1>4. ASSUME NEW s \in SessionId, LoadSnapshot(w, s) PROVE IInv'
  <2>1. PICK st \in saved[s] : Go(w, [step |-> "restore", sid |-> {s}, state |-> st])
    BY <1>4 DEF LoadSnapshot
  <2>2. st \in Session /\ Good(st)
    BY DEF IInv, TypeOK
  <2> DEFINE c == [step |-> "restore", sid |-> {s}, state |-> st]
  <2>3. c \in Call /\ Good(c.state)
    BY <2>2 DEF Call, Step
  <2>4. call' \in [Worker -> Call] /\ \A v \in Worker : Good(call'[v].state)
    BY <2>1, <2>3, GoFacts
  <2>5. QED
    BY <1>4, <2>4 DEF LoadSnapshot, Log, IInv, TypeOK
<1>5. CASE Restore(w)
  <2> DEFINE c == [call[w] EXCEPT !.step = "resumed"]
  <2>1. c \in Call /\ Good(c.state)
    BY DEF IInv, TypeOK, Call, Step
  <2>2. call' \in [Worker -> Call] /\ \A v \in Worker : Good(call'[v].state)
    BY <1>5, <2>1, GoFacts DEF Restore
  <2>3. session' \in Session /\ Good(session')
    BY <1>5 DEF Restore, IInv, TypeOK, Call
  <2>4. QED
    BY <1>5, <2>2, <2>3 DEF Restore, Log, IInv, TypeOK
<1>6. CASE AdoptResumed(w)
  <2>1. call' \in [Worker -> Call] /\ \A v \in Worker : Good(call'[v].state)
    BY <1>6, IdleFacts, GoFacts DEF AdoptResumed
  <2>2. sid' \in SUBSET SessionId
    BY <1>6 DEF AdoptResumed, IInv, TypeOK, Call
  <2>3. QED
    BY <1>6, <2>1, <2>2 DEF AdoptResumed, Log, IInv, TypeOK
<1>7. QED
  BY <1>1, <1>2, <1>3, <1>4, <1>5, <1>6 DEF Lifecycle

\* And so does the handoff (storyteller.py 799-850).
LEMMA HandoffKeeps ==
    ASSUME IInv, NEW w \in Worker, Handoff(w)
    PROVE  IInv'
<1>1. call' \in [Worker -> Call] /\ \A v \in Worker : Good(call'[v].state)
  BY IdleFacts, GoFacts
  DEF Handoff, CheckReady, TakeSnapshot, Render, RenderFails, HandOff, Close, Step
<1>2. report' \in SUBSET Report
  <2>1. Rendering(session) \in Report
    BY RenderingType DEF IInv, TypeOK
  <2>2. QED
    BY <2>1 DEF Handoff, CheckReady, TakeSnapshot, Render, RenderFails, HandOff, Close, Log,
                IInv, TypeOK
<1>3. session' \in Session /\ Good(session')
  BY FreshGood
  DEF Handoff, CheckReady, TakeSnapshot, Render, RenderFails, HandOff, Close, Log, IInv, TypeOK, Good
<1>4. /\ sid' \in SUBSET SessionId
      /\ UNCHANGED <<used, saved, late, faults>>
  BY DEF Handoff, CheckReady, TakeSnapshot, Render, RenderFails, HandOff, Close, Log, IInv, TypeOK
<1>5. QED
  BY <1>1, <1>2, <1>3, <1>4 DEF IInv, TypeOK

\* A late snapshot, and a crash, leave sessions that are in order.
LEMMA EnvironmentKeeps ==
    ASSUME IInv, Crash \/ \E x \in late : LandLate(x)
    PROVE  IInv'
<1>1. CASE Crash
  <2>1. call' \in [Worker -> Call] /\ \A v \in Worker : Good(call'[v].state)
    BY <1>1, IdleFacts DEF Crash
  <2>2. QED
    BY <1>1, <2>1, FreshGood DEF Crash, IInv, TypeOK, Good
<1>2. ASSUME NEW x \in late, LandLate(x) PROVE IInv'
  <2>1. x.sid \in SessionId /\ x.state \in Session /\ Good(x.state)
    BY DEF IInv, TypeOK, Snapshot
  <2>2. QED
    BY <1>2, <2>1 DEF LandLate, IInv, TypeOK
<1>3. QED
  BY <1>1, <1>2

-----------------------------------------------------------------------------

\* The session is in order when the server starts (state.py 58-75).
LEMMA InitGood == Init => IInv
<1> SUFFICES ASSUME Init PROVE IInv
  OBVIOUS
<1>1. call \in [Worker -> Call] /\ \A v \in Worker : Good(call[v].state)
  BY IdleFacts DEF Init
<1>2. QED
  BY <1>1, FreshGood, FaultAssumption DEF Init, IInv, TypeOK, Good

\* Every step of every tool keeps every copy of it in order.
LEMMA NextGood == IInv /\ [Next]_vars => IInv'
<1> SUFFICES ASSUME IInv, [Next]_vars PROVE IInv'
  OBVIOUS
<1>1. ASSUME NEW w \in Worker,
             RecordingTool(w) \/ Persist(w) \/ Lifecycle(w) \/ Handoff(w)
      PROVE  IInv'
  BY <1>1, RecordingKeeps, PersistKeeps, LifecycleKeeps, HandoffKeeps
<1>2. CASE Crash \/ \E x \in late : LandLate(x)
  BY <1>2, EnvironmentKeeps
<1>3. CASE UNCHANGED vars
  BY <1>3 DEF vars, IInv, TypeOK
<1>4. QED
  BY <1>1, <1>2, <1>3 DEF Next

\* The invariant holds of every reachable state.
THEOREM IInvCorrect == Spec => []IInv
  BY InitGood, NextGood, PTL DEF Spec

\* The types are as declared (state.py 47-73).
THEOREM TypeCorrect == Spec => []TypeOK
<1>1. IInv => TypeOK
  BY DEF IInv
<1>2. QED
  BY <1>1, IInvCorrect, PTL

\* PipelineInOrder, for any number of concurrent tools: the live session and
\* every durable one hold what their phase was built on (state.py 109-277,
\* storyteller.py 230-405).
THEOREM PipelineInOrderCorrect == Spec => []PipelineInOrder
<1>1. IInv => PipelineInOrder
  BY DEF IInv, PipelineInOrder, Good
<1>2. QED
  BY <1>1, IInvCorrect, PTL
=============================================================================
