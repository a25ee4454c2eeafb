--------------------------- MODULE ResearchProofs ---------------------------
(***************************************************************************)
(* Proofs about Research for any set of worker threads and any artifacts:  *)
(* the types, and the invariants of project.json.  The inductive invariant *)
(* says of every private copy of the project what the properties say of    *)
(* the file, so that saving a stale copy cannot break them.                *)
(*                                                                         *)
(* The second part is about ResearchLog, the tools with the event log      *)
(* beside them.  Every step of the composition is a step of Research or    *)
(* leaves the project alone, so what the first part shows of the project   *)
(* holds there too.  For any set of workers, the log never claims a        *)
(* publication, a pass or a verdict that is not on disk.  What relates the *)
(* log to the order of the phases needs that one tool call runs at a time  *)
(* (OneAtATime): two calls overwrite each other's copies of the project.   *)
(***************************************************************************)
EXTENDS ResearchLog, TLAPS

-----------------------------------------------------------------------------
(* What the operators on projects return. *)

\* Setting the status of a phase changes that status only (research.py 308, 334).
LEMMA SetPhaseFacts ==
    ASSUME NEW project \in Project, NEW p \in Phase, NEW s \in PhaseStatus
    PROVE  /\ SetPhase(project, p, s) \in Project
           /\ SetPhase(project, p, s).current_phase = project.current_phase
           /\ SetPhase(project, p, s).status = project.status
           /\ \A q \in Phase : SetPhase(project, p, s).phases[q]
                                 = IF q = p THEN s ELSE project.phases[q]
BY DEF SetPhase, Project

\* advance_phase changes the current phase only (workflow.py 85-88).
LEMMA AdvanceFacts ==
    ASSUME NEW project \in Project
    PROVE  /\ AdvancePhase(project) \in Project
           /\ AdvancePhase(project).current_phase
                = NextPhaseName(project.current_phase)
           /\ AdvancePhase(project).status = project.status
           /\ AdvancePhase(project).phases = project.phases
BY DEF AdvancePhase, NextPhaseName, Project, Phase

\* A verdict changes the last phase and the overall status (research.py 771-778).
LEMMA ReviewedFacts ==
    ASSUME NEW project \in Project, NEW d \in Decision
    PROVE  /\ Reviewed(project, d) \in Project
           /\ Reviewed(project, d).current_phase = project.current_phase
           /\ \A q \in Phase \ {"publication"} :
                  Reviewed(project, d).phases[q] = project.phases[q]
           /\ d = "rejected" =>
                /\ Reviewed(project, d).phases["publication"] = "failed"
                /\ Reviewed(project, d).status = "peer_review_rejected"
           /\ d # "rejected" =>
                /\ Reviewed(project, d).phases["publication"] = "planned"
                /\ Reviewed(project, d).status = "reviewed"
<1>1. \A s \in {"failed", "planned"} :
         /\ SetPhase(project, "publication", s) \in Project
         /\ SetPhase(project, "publication", s).current_phase = project.current_phase
         /\ \A q \in Phase : SetPhase(project, "publication", s).phases[q]
                               = IF q = "publication" THEN s ELSE project.phases[q]
  BY SetPhaseFacts DEF Phase, PhaseStatus
<1>2. QED
  BY <1>1 DEF Reviewed, Project, ProjectStatus, Phase

\* So does a publication (research.py 832-833).
LEMMA PublishedFacts ==
    ASSUME NEW project \in Project
    PROVE  /\ PublishedProject(project) \in Project
           /\ PublishedProject(project).current_phase = project.current_phase
           /\ \A q \in Phase \ {"publication"} :
                  PublishedProject(project).phases[q] = project.phases[q]
           /\ PublishedProject(project).phases["publication"] = "completed"
           /\ PublishedProject(project).status = "completed"
<1>1. /\ SetPhase(project, "publication", "completed") \in Project
      /\ SetPhase(project, "publication", "completed").current_phase
           = project.current_phase
      /\ \A q \in Phase : SetPhase(project, "publication", "completed").phases[q]
                            = IF q = "publication" THEN "completed" ELSE project.phases[q]
  BY SetPhaseFacts DEF Phase, PhaseStatus
<1>2. QED
  BY <1>1 DEF PublishedProject, Project, ProjectStatus, Phase

\* A verification that failed stays in its phase, one that passed leaves it
\* (research.py 686-697).
LEMMA VerifiedFacts ==
    ASSUME NEW project \in Project, project.current_phase = "verification",
           NEW passed \in BOOLEAN
    PROVE  /\ Verified(project, passed) \in Project
           /\ Verified(project, passed).status = project.status
           /\ \A q \in Phase \ {"verification"} :
                  Verified(project, passed).phases[q] = project.phases[q]
           /\ passed =>
                /\ Verified(project, passed).current_phase = "publication"
                /\ Verified(project, passed).phases["verification"] = "completed"
           /\ ~passed =>
                /\ Verified(project, passed).current_phase = "verification"
                /\ Verified(project, passed).phases["verification"] = "failed"
<1>1. \A s \in {"failed", "completed"} :
         LET new == SetPhase(project, "verification", s)
         IN  /\ new \in Project
             /\ new.current_phase = "verification"
             /\ new.status = project.status
             /\ \A q \in Phase : new.phases[q]
                                   = IF q = "verification" THEN s ELSE project.phases[q]
  BY SetPhaseFacts DEF Phase, PhaseStatus
<1>2. CASE passed
  <2> DEFINE new == SetPhase(project, "verification", "completed")
  <2>1. /\ AdvancePhase(new) \in Project
        /\ AdvancePhase(new).current_phase = NextPhaseName("verification")
        /\ AdvancePhase(new).status = project.status
        /\ AdvancePhase(new).phases = new.phases
    BY <1>1, AdvanceFacts
  <2>2. NextPhaseName("verification") = "publication"
    BY DEF NextPhaseName
  <2>3. QED
    BY <1>1, <1>2, <2>1, <2>2 DEF Verified, Phase
<1>3. CASE ~passed
  BY <1>1, <1>3 DEF Verified, Phase
<1>4. QED
  BY <1>2, <1>3

-----------------------------------------------------------------------------
(* Types. *)

\* A worker between two tool calls is typed.
LEMMA IdleType == Idle \in Call
BY DEF NewProject, Project, Phase, PhaseStatus, ProjectStatus, Idle, Call, Step,
       ReportItem, EvidenceItem, Decision, Event, Published, EventOf

\* A new project is typed (create_project, store.py 60-85).
LEMMA InitTypeOK == Init => TypeOK
BY IdleType DEF Init, TypeOK, NewProject, Project, Phase, PhaseStatus, ProjectStatus

\* A worker that goes on keeps the calls typed.
LEMMA ContinueType ==
    ASSUME TypeOK, NEW w \in Worker, NEW c \in Call, Continue(w, c)
    PROVE  call' \in [Worker -> Call]
BY DEF TypeOK, Continue

\* What EventOf builds is an event (event_store_sync.py 612-692).
LEMMA EventType ==
    ASSUME NEW k \in {"phase_planned", "phase_completed", "evidence_attached",
                      "verification_completed", "peer_review_recorded",
                      "report_published"},
           NEW p \in Phase, NEW b \in BOOLEAN
    PROVE  EventOf(k, p, b) \in Event
BY DEF EventOf, Event

\* Moving on with a new copy and a new event keeps a call a call.
LEMMA CallType ==
    ASSUME NEW c \in Call, NEW s \in Step, NEW project \in Project,
           NEW i \in EvidenceItem, NEW d \in Decision, NEW e \in Event
    PROVE  /\ [c EXCEPT !.step = s] \in Call
           /\ [c EXCEPT !.step = s, !.project = project] \in Call
           /\ [c EXCEPT !.step = s, !.project = project, !.event = e] \in Call
           /\ [c EXCEPT !.step = s, !.project = project, !.decision = d] \in Call
           /\ [c EXCEPT !.step = s, !.item = i, !.event = e] \in Call
BY DEF Call

\* Every step of every tool keeps the types (research.py 294-834).
LEMMA NextTypeOK == TypeOK /\ [Next]_vars => TypeOK'
<1> SUFFICES ASSUME TypeOK, [Next]_vars PROVE TypeOK'
  OBVIOUS
<1>0. CASE UNCHANGED vars
  BY <1>0 DEF vars, TypeOK
<1>1. ASSUME NEW w \in Worker, NEW p \in Phase, LoadForPlan(w, p) PROVE TypeOK'
  <2>1. SetPhase(disk, p, "planned") \in Project
    BY SetPhaseFacts DEF TypeOK, PhaseStatus
  <2>2. EventOf("phase_planned", p, TRUE) \in Event
    BY EventType
  <2>3. [Idle EXCEPT !.step = "save", !.project = SetPhase(disk, p, "planned"),
                     !.event = EventOf("phase_planned", p, TRUE)] \in Call
    BY <2>1, <2>2, IdleType DEF Call, Step
  <2>4. QED
    BY <1>1, <2>3, ContinueType DEF LoadForPlan, TypeOK
<1>2. ASSUME NEW w \in Worker, NEW p \in Phase, LoadForExecute(w, p) PROVE TypeOK'
  <2> DEFINE new == AdvancePhase(SetPhase(disk, p, "completed"))
  <2>1. new \in Project
    BY SetPhaseFacts, AdvanceFacts DEF TypeOK, PhaseStatus
  <2>2. EventOf("phase_completed", p, TRUE) \in Event
    BY EventType
  <2>3. [Idle EXCEPT !.step = "save", !.project = new,
                     !.event = EventOf("phase_completed", p, TRUE)] \in Call
    BY <2>1, <2>2, IdleType DEF Call, Step
  <2>4. QED
    BY <1>2, <2>3, ContinueType DEF LoadForExecute, TypeOK
<1>3. ASSUME NEW w \in Worker, NEW a \in Artifact, NEW p \in EvidencePhase,
             LoadForAttach(w, a, p)
      PROVE  TypeOK'
  <2>1. p \in Phase
    BY EvidencePhaseAssumption
  <2>2. EventOf("evidence_attached", p, TRUE) \in Event
    BY <2>1, EventType
  <2>3. [Idle EXCEPT !.step = "append", !.item = [ref |-> a, phase |-> p],
                     !.event = EventOf("evidence_attached", p, TRUE)] \in Call
    BY <2>1, <2>2, IdleType DEF Call, Step, EvidenceItem
  <2>4. QED
    BY <1>3, <2>3, ContinueType DEF LoadForAttach, TypeOK
<1>4. ASSUME NEW w \in Worker, NEW d \in Decision, LoadForReview(w, d) PROVE TypeOK'
  <2>1. [Idle EXCEPT !.step = "write_review", !.project = disk, !.decision = d] \in Call
    BY IdleType DEF Call, Step, TypeOK
  <2>2. QED
    BY <1>4, <2>1, ContinueType DEF LoadForReview, TypeOK
<1>5. ASSUME NEW w \in Worker, LoadForVerify(w) PROVE TypeOK'
  <2>1. [Idle EXCEPT !.step = "gather", !.project = disk] \in Call
    BY IdleType DEF Call, Step, TypeOK
  <2>2. QED
    BY <1>5, <2>1, ContinueType DEF LoadForVerify, TypeOK
<1>6. ASSUME NEW w \in Worker, LoadForPublish(w) PROVE TypeOK'
  <2>1. [Idle EXCEPT !.step = "check_review", !.project = disk] \in Call
    BY IdleType DEF Call, Step, TypeOK
  <2>2. QED
    BY <1>6, <2>1, ContinueType DEF LoadForPublish, TypeOK
<1>7. ASSUME NEW w \in Worker, AppendEvidence(w) PROVE TypeOK'
  <2>1. [call[w] EXCEPT !.step = "emit"] \in Call /\ call[w].item \in EvidenceItem
    BY DEF Call, Step, TypeOK
  <2>2. QED
    BY <1>7, <2>1, ContinueType DEF AppendEvidence, TypeOK
<1>8. ASSUME NEW w \in Worker, GatherEvidence(w) PROVE TypeOK'
  <2> DEFINE passed == ChecksPass(evidence)
             new    == Verified(call[w].project, passed)
             event  == EventOf("verification_completed", "verification", passed)
  <2>1. passed \in BOOLEAN
    BY DEF ChecksPass, HasStatistical, AllResolve
  <2>2. new \in Project
    <3>1. call[w].project \in Project
      BY DEF TypeOK, Call
    <3> HIDE DEF passed
    <3>2. SetPhase(call[w].project, "verification", "completed") \in Project
          /\ SetPhase(call[w].project, "verification", "failed") \in Project
      BY <3>1, SetPhaseFacts DEF Phase, PhaseStatus
    <3>3. QED
      BY <3>2, AdvanceFacts DEF Verified
  <2>3. event \in Event
    BY <2>1, EventType DEF Phase
  <2>4. [call[w] EXCEPT !.step = "save", !.project = new, !.event = event] \in Call
    <3> HIDE DEF new, event
    <3>1. QED
      BY <2>2, <2>3 DEF TypeOK, Call, Step
  <2>5. QED
    BY <1>8, <2>4, ContinueType DEF GatherEvidence, TypeOK
<1>9. ASSUME NEW w \in Worker, WriteReview(w) PROVE TypeOK'
  <2> DEFINE d     == call[w].decision
             new   == Reviewed(call[w].project, d)
             event == EventOf("peer_review_recorded", "publication", d # "rejected")
  <2>1. d \in Decision /\ call[w].project \in Project
    BY DEF TypeOK, Call
  <2>2. new \in Project
    BY <2>1, ReviewedFacts
  <2>3. event \in Event
    BY EventType DEF Phase
  <2>4. [call[w] EXCEPT !.step = "save", !.project = new, !.event = event] \in Call
    <3> HIDE DEF new, event
    <3>1. QED
      BY <2>2, <2>3 DEF TypeOK, Call, Step
  <2>5. QED
    BY <1>9, <2>1, <2>4, ContinueType DEF WriteReview, TypeOK
<1>10. ASSUME NEW w \in Worker, CheckReview(w) PROVE TypeOK'
  <2>1. [call[w] EXCEPT !.step = "report"] \in Call
    BY DEF Call, Step, TypeOK
  <2>2. QED
    BY <1>10, <2>1, IdleType, ContinueType DEF CheckReview, TypeOK
<1>11. ASSUME NEW w \in Worker, AttachReport(w) PROVE TypeOK'
  <2> DEFINE new == PublishedProject(call[w].project)
  <2>1. new \in Project
    BY PublishedFacts DEF TypeOK, Call
  <2>2. Published \in Event /\ ReportItem \in EvidenceItem
    BY EventType DEF Phase, Published, ReportItem, EvidenceItem
  <2>3. [call[w] EXCEPT !.step = "save", !.project = PublishedProject(@),
                        !.event = Published] \in Call
    BY <2>1, <2>2 DEF TypeOK, Call, Step
  <2>4. QED
    BY <1>11, <2>2, <2>3, ContinueType DEF AttachReport, TypeOK
<1>12. ASSUME NEW w \in Worker, ReportFails(w) \/ Emit(w) PROVE TypeOK'
  BY <1>12, IdleType, ContinueType DEF ReportFails, Emit, TypeOK
<1>13. ASSUME NEW w \in Worker, SaveProject(w) PROVE TypeOK'
  <2>1. [call[w] EXCEPT !.step = "emit"] \in Call /\ call[w].project \in Project
    BY DEF Call, Step, TypeOK
  <2>2. QED
    BY <1>13, <2>1, ContinueType DEF SaveProject, TypeOK
<1>14. CASE Crash
  BY <1>14, IdleType DEF Crash, TypeOK
<1>15. ASSUME NEW a \in Artifact, Expire(a) PROVE TypeOK'
  BY <1>15 DEF Expire, TypeOK
<1>16. QED
  BY <1>0, <1>1, <1>2, <1>3, <1>4, <1>5, <1>6, <1>7, <1>8, <1>9, <1>10, <1>11,
     <1>12, <1>13, <1>14, <1>15 DEF Next, ToolStep

\* The variables keep their types, whatever the tools do (research.py 294-834).
THEOREM TypeCorrect == Spec => []TypeOK
BY InitTypeOK, NextTypeOK, PTL DEF Spec

-----------------------------------------------------------------------------
(* The invariant. *)

\* What a project may claim does not depend on who holds it, only on the
\* evidence and on whether a verdict exists; both only grow.
LEMMA SoundGrows ==
    ASSUME NEW project \in Project, Sound(project),
           evidence \subseteq evidence', review # "none" => review' # "none"
    PROVE  /\ InOrder(project) /\ StatusAgrees(project)
           /\ project.current_phase = "publication" => HasStatistical(evidence')
           /\ project.status # "active" => review' # "none"
           /\ project.status = "completed" => ReportItem \in evidence'
BY DEF Sound, HasStatistical

\* A new project claims nothing (models/research.py 66-73).
LEMMA NewIsSound == Sound(NewProject) /\ NewProject \in Project
BY DEF Sound, NewProject, InOrder, StatusAgrees, PhaseIndex, Phase, Project,
       PhaseStatus, ProjectStatus

\* A worker between two calls has validated nothing.
LEMMA IdleAgrees == StepAgrees(Idle) /\ Idle.project = NewProject
BY DEF StepAgrees, Idle

\* plan_research_phase keeps a sound project sound (research.py 301-309).
LEMMA PlanIsSound ==
    ASSUME NEW project \in Project, Sound(project),
           project.phases[project.current_phase] \in {"pending", "failed"}
    PROVE  Sound(SetPhase(project, project.current_phase, "planned"))
<1> DEFINE p   == project.current_phase
           new == SetPhase(project, p, "planned")
<1>1. p \in Phase
  BY DEF Project
<1>2. /\ new \in Project
      /\ new.current_phase = p
      /\ new.status = project.status
      /\ \A q \in Phase : new.phases[q] = IF q = p THEN "planned" ELSE project.phases[q]
  BY <1>1, SetPhaseFacts DEF PhaseStatus
<1> HIDE DEF new
<1>3. InOrder(new)
  BY <1>1, <1>2 DEF Sound, InOrder, PhaseIndex, Phase
<1>4. StatusAgrees(new)
  BY <1>1, <1>2 DEF Sound, StatusAgrees, InOrder, PhaseIndex, Phase
<1>5. QED
  BY <1>2, <1>3, <1>4 DEF Sound, new

\* execute_research_phase completes an ungated phase and moves to the next
\* (research.py 326-339).
LEMMA ExecuteIsSound ==
    ASSUME NEW project \in Project, Sound(project),
           project.phases[project.current_phase] = "planned",
           project.current_phase \notin {"verification", "publication"}
    PROVE  Sound(AdvancePhase(SetPhase(project, project.current_phase, "completed")))
<1> DEFINE p   == project.current_phase
           mid == SetPhase(project, p, "completed")
           new == AdvancePhase(mid)
<1>1. p \in Phase
  BY DEF Project
<1>2. /\ mid \in Project
      /\ mid.current_phase = p
      /\ mid.status = project.status
      /\ \A q \in Phase : mid.phases[q] = IF q = p THEN "completed" ELSE project.phases[q]
  <2>1. "completed" \in PhaseStatus
    BY DEF PhaseStatus
  <2>2. QED
    BY <1>1, <2>1, SetPhaseFacts
<1> HIDE DEF mid
<1>3. /\ new.current_phase = NextPhaseName(p)
      /\ new.status = project.status
      /\ new.phases = mid.phases
  BY <1>2, AdvanceFacts
<1> HIDE DEF new
<1>4. PhaseIndex(NextPhaseName(p)) = PhaseIndex(p) + 1 /\ NextPhaseName(p) # "publication"
  BY <1>1 DEF NextPhaseName, PhaseIndex, Phase
<1>5. InOrder(new)
  BY <1>1, <1>2, <1>3 DEF Sound, InOrder, PhaseIndex, NextPhaseName, Phase
<1>6. StatusAgrees(new)
  BY <1>1, <1>2, <1>3 DEF Sound, StatusAgrees, Phase
<1>7. QED
  BY <1>3, <1>4, <1>5, <1>6 DEF Sound, mid, new

\* verify_research_phase enters publication only on statistical evidence
\* (research.py 613-697).
LEMMA VerifyIsSound ==
    ASSUME NEW project \in Project, Sound(project),
           project.current_phase = "verification",
           NEW passed \in BOOLEAN, passed => HasStatistical(evidence)
    PROVE  Sound(Verified(project, passed))
<1> DEFINE new == Verified(project, passed)
<1>1. /\ new.status = project.status
      /\ \A q \in Phase \ {"verification"} : new.phases[q] = project.phases[q]
      /\ passed => /\ new.current_phase = "publication"
                   /\ new.phases["verification"] = "completed"
      /\ ~passed => /\ new.current_phase = "verification"
                    /\ new.phases["verification"] = "failed"
  BY VerifiedFacts
<1> HIDE DEF new
<1>2. InOrder(new)
  BY <1>1 DEF Sound, InOrder, PhaseIndex, Phase
<1>3. StatusAgrees(new)
  BY <1>1 DEF Sound, StatusAgrees, Phase
<1>4. QED
  BY <1>1, <1>2, <1>3 DEF Sound, new

\* The verdict and the status it implies are consistent (research.py 771-778).
LEMMA ReviewIsInOrder ==
    ASSUME NEW project \in Project, Sound(project),
           project.current_phase = "publication", NEW d \in Decision
    PROVE  /\ InOrder(Reviewed(project, d)) /\ StatusAgrees(Reviewed(project, d))
           /\ Reviewed(project, d).status # "completed"
           /\ Reviewed(project, d).current_phase = "publication"
<1> DEFINE new == Reviewed(project, d)
<1>1. /\ new.current_phase = "publication"
      /\ \A q \in Phase \ {"publication"} : new.phases[q] = project.phases[q]
      /\ d = "rejected" => /\ new.phases["publication"] = "failed"
                           /\ new.status = "peer_review_rejected"
      /\ d # "rejected" => /\ new.phases["publication"] = "planned"
                           /\ new.status = "reviewed"
  BY ReviewedFacts
<1> HIDE DEF new
<1>2. InOrder(new)
  BY <1>1 DEF Sound, InOrder, PhaseIndex, Phase
<1>3. StatusAgrees(new) /\ new.status # "completed"
  BY <1>1 DEF StatusAgrees
<1>4. QED
  BY <1>1, <1>2, <1>3 DEF new

\* A published project is a completed one (research.py 832-833).
LEMMA PublishIsInOrder ==
    ASSUME NEW project \in Project, Sound(project),
           project.current_phase = "publication"
    PROVE  /\ InOrder(PublishedProject(project))
           /\ StatusAgrees(PublishedProject(project))
           /\ PublishedProject(project).current_phase = "publication"
<1> DEFINE new == PublishedProject(project)
<1>1. /\ new.current_phase = "publication"
      /\ \A q \in Phase \ {"publication"} : new.phases[q] = project.phases[q]
      /\ new.phases["publication"] = "completed"
      /\ new.status = "completed"
  BY PublishedFacts
<1> HIDE DEF new
<1>2. InOrder(new)
  BY <1>1 DEF Sound, InOrder, PhaseIndex, Phase
<1>3. StatusAgrees(new)
  BY <1>1 DEF StatusAgrees
<1>4. QED
  BY <1>1, <1>2, <1>3 DEF new

-----------------------------------------------------------------------------
(* The inductive invariant: the types, and every copy of the project sound. *)

IInv == TypeOK /\ Sound(disk) /\ CopiesAreSound

\* The inductive invariant holds of a new project (store.py 60-85).
LEMMA InitIInv == Init => IInv
BY InitTypeOK, NewIsSound, IdleAgrees DEF Init, IInv, CopiesAreSound

\* The copies stay sound when one call moves on to a sound one and the files
\* have only grown.
LEMMA CopiesStaySound ==
    ASSUME IInv, NEW w \in Worker, NEW c \in Call, Continue(w, c),
           evidence \subseteq evidence', review # "none" => review' # "none",
           Sound(c.project)', StepAgrees(c)'
    PROVE  CopiesAreSound'
<1> SUFFICES ASSUME NEW v \in Worker
             PROVE  Sound(call[v].project)' /\ StepAgrees(call[v])'
  BY DEF CopiesAreSound
<1>1. CASE v = w
  BY <1>1 DEF Continue, IInv, TypeOK
<1>2. CASE v # w
  <2>1. call'[v] = call[v]
    BY <1>2 DEF Continue, IInv, TypeOK
  <2>2. /\ call[v].project \in Project
        /\ Sound(call[v].project)
        /\ StepAgrees(call[v])
    BY DEF IInv, TypeOK, CopiesAreSound, Call
  <2>3. QED
    BY <2>1, <2>2, SoundGrows DEF Sound, StepAgrees
<1>3. QED
  BY <1>1, <1>2

\* The file stays sound when it is not written and the other files have grown
\* (store.py 153-174).
LEMMA DiskStaysSound ==
    ASSUME IInv, UNCHANGED disk,
           evidence \subseteq evidence', review # "none" => review' # "none"
    PROVE  Sound(disk)'
<1>1. disk \in Project /\ Sound(disk)
  BY DEF IInv, TypeOK
<1>2. QED
  BY <1>1, SoundGrows DEF Sound

\* Every step of every tool, a crash and a forgotten chart keep the inductive
\* invariant (research.py 294-834).
LEMMA NextIInv == IInv /\ [Next]_vars => IInv'
<1> SUFFICES ASSUME IInv, [Next]_vars PROVE IInv'
  OBVIOUS
<1>t. TypeOK /\ TypeOK'
  BY NextTypeOK DEF IInv
<1>d. disk \in Project /\ Sound(disk) /\ disk.current_phase \in Phase
  BY DEF IInv, TypeOK, Project
<1>c. ASSUME NEW w \in Worker
      PROVE  /\ call[w] \in Call /\ call[w].project \in Project
             /\ Sound(call[w].project) /\ StepAgrees(call[w])
  BY DEF IInv, TypeOK, CopiesAreSound, Call
<1>0. CASE UNCHANGED vars
  BY <1>0, <1>t DEF vars, IInv, CopiesAreSound, Sound, StepAgrees, HasStatistical
\* A load: the copy taken is sound, and no file changes.
<1>load. ASSUME NEW w \in Worker, NEW c \in Call, Continue(w, c),
                UNCHANGED <<disk, review, evidence>>,
                Sound(c.project), StepAgrees(c)
         PROVE  IInv'
  <2>1. Sound(c.project)' /\ StepAgrees(c)'
    BY <1>load DEF Sound, StepAgrees, HasStatistical
  <2>2. CopiesAreSound'
    BY <1>load, <2>1, CopiesStaySound
  <2>3. QED
    BY <1>load, <1>t, <2>2, DiskStaysSound DEF IInv
<1>1. ASSUME NEW w \in Worker, NEW p \in Phase, LoadForPlan(w, p) PROVE IInv'
  <2> DEFINE new == SetPhase(disk, p, "planned")
             c   == [Idle EXCEPT !.step = "save", !.project = new,
                                 !.event = EventOf("phase_planned", p, TRUE)]
  <2>1. Sound(new)
    BY <1>1, <1>d, PlanIsSound DEF LoadForPlan
  <2>2. new \in Project /\ EventOf("phase_planned", p, TRUE) \in Event
    BY <1>d, SetPhaseFacts, EventType DEF PhaseStatus
  <2>3. c \in Call /\ c.project = new /\ c.step = "save"
    BY <2>2, IdleType DEF Call, Step
  <2>4. Continue(w, c) /\ UNCHANGED <<disk, review, evidence>>
    BY <1>1 DEF LoadForPlan
  <2> HIDE DEF c, new
  <2>5. QED
    BY <2>1, <2>3, <2>4, <1>load DEF StepAgrees
<1>2. ASSUME NEW w \in Worker, NEW p \in Phase, LoadForExecute(w, p) PROVE IInv'
  <2> DEFINE new == AdvancePhase(SetPhase(disk, p, "completed"))
             c   == [Idle EXCEPT !.step = "save", !.project = new,
                                 !.event = EventOf("phase_completed", p, TRUE)]
  <2>1. Sound(new)
    BY <1>2, <1>d, ExecuteIsSound DEF LoadForExecute
  <2>2. new \in Project /\ EventOf("phase_completed", p, TRUE) \in Event
    BY <1>d, SetPhaseFacts, AdvanceFacts, EventType DEF PhaseStatus
  <2>3. c \in Call /\ c.project = new /\ c.step = "save"
    BY <2>2, IdleType DEF Call, Step
  <2>4. Continue(w, c) /\ UNCHANGED <<disk, review, evidence>>
    BY <1>2 DEF LoadForExecute
  <2> HIDE DEF c, new
  <2>5. QED
    BY <2>1, <2>3, <2>4, <1>load DEF StepAgrees
<1>3. ASSUME NEW w \in Worker, NEW a \in Artifact, NEW p \in EvidencePhase,
             LoadForAttach(w, a, p)
      PROVE  IInv'
  <2> DEFINE c == [Idle EXCEPT !.step = "append", !.item = [ref |-> a, phase |-> p],
                               !.event = EventOf("evidence_attached", p, TRUE)]
  <2>1. p \in Phase
    BY EvidencePhaseAssumption DEF Phase
  <2>2. EventOf("evidence_attached", p, TRUE) \in Event
    BY <2>1, EventType
  <2>3. c \in Call /\ c.project = NewProject /\ c.step = "append"
    BY <2>1, <2>2, IdleType, IdleAgrees DEF Call, Step, EvidenceItem
  <2>4. Continue(w, c) /\ UNCHANGED <<disk, review, evidence>>
    BY <1>3 DEF LoadForAttach
  <2> HIDE DEF c
  <2>5. QED
    BY <2>3, <2>4, <1>load, NewIsSound DEF StepAgrees
<1>4. ASSUME NEW w \in Worker, NEW d \in Decision, LoadForReview(w, d) PROVE IInv'
  <2> DEFINE c == [Idle EXCEPT !.step = "write_review", !.project = disk, !.decision = d]
  <2>1. c \in Call /\ c.project = disk /\ c.step = "write_review"
    BY <1>d, IdleType DEF Call, Step
  <2>2. /\ Continue(w, c) /\ UNCHANGED <<disk, review, evidence>>
        /\ disk.current_phase = "publication"
    BY <1>4 DEF LoadForReview
  <2> HIDE DEF c
  <2>3. QED
    BY <2>1, <2>2, <1>d, <1>load DEF StepAgrees
<1>5. ASSUME NEW w \in Worker, LoadForVerify(w) PROVE IInv'
  <2> DEFINE c == [Idle EXCEPT !.step = "gather", !.project = disk]
  <2>1. c \in Call /\ c.project = disk /\ c.step = "gather"
    BY <1>d, IdleType DEF Call, Step
  <2>2. /\ Continue(w, c) /\ UNCHANGED <<disk, review, evidence>>
        /\ disk.current_phase = "verification"
    BY <1>5 DEF LoadForVerify
  <2> HIDE DEF c
  <2>3. QED
    BY <2>1, <2>2, <1>d, <1>load DEF StepAgrees
<1>6. ASSUME NEW w \in Worker, LoadForPublish(w) PROVE IInv'
  <2> DEFINE c == [Idle EXCEPT !.step = "check_review", !.project = disk]
  <2>1. c \in Call /\ c.project = disk /\ c.step = "check_review"
    BY <1>d, IdleType DEF Call, Step
  <2>2. /\ Continue(w, c) /\ UNCHANGED <<disk, review, evidence>>
        /\ disk.current_phase = "publication"
    BY <1>6 DEF LoadForPublish
  <2> HIDE DEF c
  <2>3. QED
    BY <2>1, <2>2, <1>d, <1>load DEF StepAgrees
<1>7. ASSUME NEW w \in Worker, AppendEvidence(w) PROVE IInv'
  <2> DEFINE next == [call[w] EXCEPT !.step = "emit"]
  <2>0. next \in Call /\ next.project = call[w].project /\ next.step = "emit"
    BY <1>c DEF Call, Step
  <2>1. PICK c \in Call : c = next /\ c.project = call[w].project /\ c.step = "emit"
    <3> HIDE DEF next
    <3>1. QED
      BY <2>0
  <2>2. /\ Continue(w, c) /\ UNCHANGED <<disk, review>>
        /\ evidence \subseteq evidence'
    BY <1>7, <2>1 DEF AppendEvidence
  <2>3. Sound(c.project)' /\ StepAgrees(c)'
    BY <2>1, <2>2, <1>c, SoundGrows DEF Sound, StepAgrees
  <2>4. QED
    BY <2>1, <2>2, <2>3, <1>t, CopiesStaySound, DiskStaysSound DEF IInv
<1>8. ASSUME NEW w \in Worker, GatherEvidence(w) PROVE IInv'
  <2> DEFINE passed == ChecksPass(evidence)
             new    == Verified(call[w].project, passed)
             event  == EventOf("verification_completed", "verification", passed)
             c      == [call[w] EXCEPT !.step = "save", !.project = new, !.event = event]
  <2>1. passed \in BOOLEAN /\ (passed => HasStatistical(evidence))
    BY DEF ChecksPass, HasStatistical, AllResolve
  <2>2. call[w].project.current_phase = "verification"
    BY <1>8, <1>c DEF GatherEvidence, AtStep, StepAgrees
  <2>3. /\ Continue(w, c)
        /\ UNCHANGED <<disk, review, evidence>>
    BY <1>8 DEF GatherEvidence
  <2>4. event \in Event
    BY <2>1, EventType DEF Phase
  <2> HIDE DEF passed, event
  <2>5. Sound(new) /\ new \in Project
    BY <2>1, <2>2, <1>c, VerifyIsSound, VerifiedFacts
  <2> HIDE DEF new
  <2>6. c \in Call /\ c.project = new /\ c.step = "save"
    BY <2>4, <2>5, <1>c DEF Call, Step
  <2> HIDE DEF c
  <2>7. QED
    BY <2>3, <2>5, <2>6, <1>load DEF StepAgrees
<1>9. ASSUME NEW w \in Worker, WriteReview(w) PROVE IInv'
  <2> DEFINE d     == call[w].decision
             new   == Reviewed(call[w].project, d)
             event == EventOf("peer_review_recorded", "publication", d # "rejected")
             next  == [call[w] EXCEPT !.step = "save", !.project = new, !.event = event]
  <2>1. d \in Decision
    BY <1>c DEF Call
  <2>2. call[w].project.current_phase = "publication"
    BY <1>9, <1>c DEF WriteReview, AtStep, StepAgrees
  <2>3. Continue(w, next) /\ review' = d /\ UNCHANGED <<disk, evidence>>
    BY <1>9 DEF WriteReview
  <2>4. event \in Event
    BY EventType DEF Phase
  <2>5. review' # "none"
    BY <2>1, <2>3 DEF Decision
  <2> HIDE DEF d, event
  <2>6. /\ InOrder(new) /\ StatusAgrees(new) /\ new \in Project
        /\ new.status # "completed" /\ new.current_phase = "publication"
    BY <2>1, <2>2, <1>c, ReviewIsInOrder, ReviewedFacts
  <2>7. HasStatistical(evidence)
    BY <2>2, <1>c DEF Sound
  <2> HIDE DEF new
  <2>0. next \in Call /\ next.project = new /\ next.step = "save"
    BY <2>4, <2>6, <1>c DEF Call, Step
  <2> HIDE DEF next
  <2>8. PICK c \in Call : c = next /\ c.project = new /\ c.step = "save"
    BY <2>0
  <2>9. Sound(c.project)' /\ StepAgrees(c)'
    BY <2>3, <2>5, <2>6, <2>7, <2>8 DEF Sound, StepAgrees, HasStatistical
  <2>10. QED
    BY <2>3, <2>5, <2>8, <2>9, <1>t, CopiesStaySound, DiskStaysSound DEF IInv
<1>10. ASSUME NEW w \in Worker, CheckReview(w) PROVE IInv'
  <2>1. CASE review \in {"none", "rejected"}
    <3>1. Continue(w, Idle) /\ UNCHANGED <<disk, review, evidence>>
      BY <1>10, <2>1 DEF CheckReview
    <3>2. QED
      BY <3>1, <1>load, IdleType, IdleAgrees, NewIsSound
  <2>2. CASE review \notin {"none", "rejected"}
    <3> DEFINE c == [call[w] EXCEPT !.step = "report"]
    <3>1. c \in Call /\ c.project = call[w].project /\ c.step = "report"
      BY <1>c DEF Call, Step
    <3>2. Continue(w, c) /\ UNCHANGED <<disk, review, evidence>>
      BY <1>10, <2>2 DEF CheckReview
    <3>3. call[w].project.current_phase = "publication"
      BY <1>10, <1>c DEF CheckReview, AtStep, StepAgrees
    <3> HIDE DEF c
    <3>4. QED
      BY <3>1, <3>2, <3>3, <2>2, <1>c, <1>load DEF StepAgrees
  <2>3. QED
    BY <2>1, <2>2
<1>11. ASSUME NEW w \in Worker, AttachReport(w) PROVE IInv'
  <2> DEFINE new == PublishedProject(call[w].project)
             next == [call[w] EXCEPT !.step = "save", !.project = PublishedProject(@),
                                     !.event = Published]
  <2>1. call[w].project.current_phase = "publication" /\ review # "none"
    BY <1>11, <1>c DEF AttachReport, AtStep, StepAgrees
  <2>2. /\ InOrder(new) /\ StatusAgrees(new) /\ new \in Project
        /\ new.current_phase = "publication"
    BY <2>1, <1>c, PublishIsInOrder, PublishedFacts
  <2>3. /\ Continue(w, next) /\ UNCHANGED <<disk, review>>
        /\ evidence \subseteq evidence' /\ ReportItem \in evidence'
    BY <1>11 DEF AttachReport
  <2>4. HasStatistical(evidence)
    BY <2>1, <1>c DEF Sound
  <2>5. Published \in Event
    BY EventType DEF Phase, Published
  <2>0. next \in Call /\ next.project = new /\ next.step = "save"
    BY <1>c, <2>2, <2>5 DEF Call, Step
  <2> HIDE DEF next, new
  <2>6. PICK c \in Call : c = next /\ c.project = new /\ c.step = "save"
    BY <2>0
  <2>7. Sound(c.project)' /\ StepAgrees(c)'
    BY <2>1, <2>2, <2>3, <2>4, <2>6 DEF Sound, StepAgrees, HasStatistical
  <2>8. QED
    BY <2>3, <2>6, <2>7, <1>t, CopiesStaySound, DiskStaysSound DEF IInv
<1>12. ASSUME NEW w \in Worker, ReportFails(w) \/ Emit(w) PROVE IInv'
  <2>1. Continue(w, Idle) /\ UNCHANGED <<disk, review, evidence>>
    BY <1>12 DEF ReportFails, Emit
  <2>2. QED
    BY <2>1, <1>load, IdleType, IdleAgrees, NewIsSound
<1>13. ASSUME NEW w \in Worker, SaveProject(w) PROVE IInv'
  <2> DEFINE next == [call[w] EXCEPT !.step = "emit"]
  <2>0. next \in Call /\ next.project = call[w].project /\ next.step = "emit"
    BY <1>c DEF Call, Step
  <2>1. PICK c \in Call : c = next /\ c.project = call[w].project /\ c.step = "emit"
    <3> HIDE DEF next
    <3>1. QED
      BY <2>0
  <2>2. Continue(w, c) /\ disk' = call[w].project /\ UNCHANGED <<review, evidence>>
    BY <1>13, <2>1 DEF SaveProject
  <2>3. Sound(c.project)' /\ StepAgrees(c)'
    BY <2>1, <2>2, <1>c, SoundGrows DEF Sound, StepAgrees
  <2>4. CopiesAreSound'
    BY <2>1, <2>2, <2>3, CopiesStaySound
  <2>5. Sound(disk)'
    BY <2>2, <1>c DEF Sound, HasStatistical
  <2>6. QED
    BY <2>4, <2>5, <1>t DEF IInv
<1>14. CASE Crash
  <2>1. \A w \in Worker : call'[w] = Idle
    BY <1>14 DEF Crash
  <2>2. UNCHANGED <<disk, review, evidence>>
    BY <1>14 DEF Crash
  <2>3. QED
    BY <2>1, <2>2, <1>t, <1>d, IdleAgrees, NewIsSound
       DEF IInv, CopiesAreSound, Sound, StepAgrees, HasStatistical
<1>15. ASSUME NEW a \in Artifact, Expire(a) PROVE IInv'
  <2>1. UNCHANGED <<disk, review, evidence, call>>
    BY <1>15 DEF Expire
  <2>2. QED
    BY <2>1, <1>t DEF IInv, CopiesAreSound, Sound, StepAgrees, HasStatistical
<1>16. QED
  BY <1>0, <1>1, <1>2, <1>3, <1>4, <1>5, <1>6, <1>7, <1>8, <1>9, <1>10, <1>11,
     <1>12, <1>13, <1>14, <1>15 DEF Next, ToolStep

\* So it holds of every reachable state (research.py 294-834).
LEMMA IInvCorrect == Spec => []IInv
BY InitIInv, NextIInv, PTL DEF Spec

\* project.json never skips a phase and its overall status agrees with its
\* phases, however many calls run at once (save_project).
THEOREM PhasesInOrderCorrect == Spec => []PhasesInOrder
<1>1. IInv => PhasesInOrder
  BY DEF IInv, Sound, PhasesInOrder
<1>2. QED
  BY <1>1, IInvCorrect, PTL

\* A project in publication has statistical execution evidence attached
\* (verify_research_phase).
THEOREM PublicationIsVerifiedCorrect == Spec => []PublicationIsVerified
<1>1. IInv => PublicationIsVerified
  BY DEF IInv, Sound, PublicationIsVerified
<1>2. QED
  BY <1>1, IInvCorrect, PTL

\* A reviewed project has its verdict on file and a completed one its report
\* (record_peer_review, publish_research_report).
THEOREM OutcomeOnFileCorrect == Spec => []OutcomeOnFile
<1>1. IInv => OutcomeOnFile
  BY DEF IInv, Sound, OutcomeOnFile
<1>2. QED
  BY <1>1, IInvCorrect, PTL

\* CopiesAreSound: every private copy of the project, however stale, could
\* replace the file (load_project and save_project, store.py 87-109).
THEOREM CopiesAreSoundCorrect == Spec => []CopiesAreSound
<1>1. IInv => CopiesAreSound
  BY DEF IInv
<1>2. QED
  BY <1>1, IInvCorrect, PTL


-----------------------------------------------------------------------------
(* The composition implements the project. *)

\* A step of the composition is a step of the project's tools or changes
\* nothing of the project (event_store_sync.py 598-791 writes no project file).
LEMMA LogStepImplements == [LogNext]_allVars => [Next]_vars
<1> SUFFICES ASSUME [LogNext]_allVars PROVE [Next]_vars
  OBVIOUS
<1>0. CASE UNCHANGED allVars
  BY <1>0 DEF allVars
<1>1. ASSUME NEW w \in Worker, Work(w) PROVE Next
  BY <1>1 DEF Work, Next
<1>2. ASSUME NEW w \in Worker, WriteEvent(w) PROVE Next
  BY <1>2 DEF WriteEvent, Next
<1>3. ASSUME NEW w \in Worker, WriteSecond(w) PROVE UNCHANGED vars
  BY <1>3 DEF WriteSecond
<1>4. ASSUME NEW x \in late, LandLate(x) PROVE UNCHANGED vars
  BY <1>4 DEF LandLate
<1>5. CASE CrashAll
  BY <1>5 DEF CrashAll, Next
<1>6. ASSUME NEW a \in Artifact, Expire(a) PROVE Next
  BY <1>6 DEF Next
<1>7. QED
  BY <1>0, <1>1, <1>2, <1>3, <1>4, <1>5, <1>6 DEF LogNext

\* ResearchLog implements Research, so every theorem of ResearchProofs holds
\* of the project that has an event log beside it (research.py 294-834).
THEOREM LogImplementsProject == LogSpec => Spec
<1>1. LogInit => Init
  BY DEF LogInit
<1>2. QED
  BY <1>1, LogStepImplements, PTL DEF LogSpec, Spec

-----------------------------------------------------------------------------
(* What one event does to the scan. *)

\* The types of a scan survive one more event (resume.py 84-140).
LEMMA ScanType ==
    ASSUME NEW s \in Scan, NEW e \in Event
    PROVE  ScanEvent(s, e) \in Scan
<1>1. Append(s.completed, e.phase) \in Seq(Phase)
  BY DEF Scan, Event
<1>2. Verdict(e) \in GateStatus
  BY DEF Verdict, GateStatus
<1>3. e.phase \in Phase /\ e.kind \in {"phase_planned", "phase_completed",
        "evidence_attached", "verification_completed", "peer_review_recorded",
        "report_published"}
  BY DEF Event
<1>4. CASE e.kind = "phase_planned"
  BY <1>3, <1>4 DEF ScanEvent, Scan
<1>5. CASE e.kind = "phase_completed"
  BY <1>1, <1>5 DEF ScanEvent, Scan
<1>6. CASE e.kind \in {"verification_completed", "peer_review_recorded"}
  BY <1>2, <1>6 DEF ScanEvent, Scan
<1>7. CASE e.kind \in {"report_published", "evidence_attached"}
  BY <1>7 DEF ScanEvent, Scan
<1>8. QED
  BY <1>3, <1>4, <1>5, <1>6, <1>7

\* One more event adds at most what it says (resume.py 84-140).
LEMMA ScanAdds ==
    ASSUME NEW s \in Scan, NEW e \in Event
    PROVE  LET t == ScanEvent(s, e)
           IN  /\ t.published => s.published \/ e.kind = "report_published"
               /\ t.verification = "passed" =>
                    \/ s.verification = "passed"
                    \/ e.kind = "verification_completed" /\ e.passed
               /\ t.peer_review # "none" =>
                    \/ s.peer_review # "none"
                    \/ e.kind = "peer_review_recorded"
               /\ \/ t.planned = s.planned
                  \/ e.kind = "phase_planned" /\ t.planned = e.phase
               /\ \A i \in DOMAIN t.completed :
                    \/ i \in DOMAIN s.completed /\ t.completed[i] = s.completed[i]
                    \/ e.kind = "phase_completed" /\ t.completed[i] = e.phase
<1>1. s.completed \in Seq(Phase)
  BY DEF Scan
<1>2. \A i \in DOMAIN Append(s.completed, e.phase) :
         \/ i \in DOMAIN s.completed /\ Append(s.completed, e.phase)[i] = s.completed[i]
         \/ Append(s.completed, e.phase)[i] = e.phase
  BY <1>1 DEF Event
<1>3. e.kind \in {"phase_planned", "phase_completed", "evidence_attached",
        "verification_completed", "peer_review_recorded", "report_published"}
      /\ e.passed \in BOOLEAN
  BY DEF Event
<1>4. CASE e.kind = "phase_planned"
  BY <1>4 DEF ScanEvent, Scan
<1>5. CASE e.kind = "phase_completed" /\ IsIn(e.phase, s.completed)
  BY <1>5 DEF ScanEvent, Scan
<1>6. CASE e.kind = "phase_completed" /\ ~IsIn(e.phase, s.completed)
  <2>1. ScanEvent(s, e) = [s EXCEPT !.completed = Append(s.completed, e.phase)]
    BY <1>6 DEF ScanEvent
  <2>2. QED
    BY <1>2, <1>6, <2>1 DEF Scan
<1>7. CASE e.kind = "verification_completed"
  BY <1>3, <1>7 DEF ScanEvent, Scan, Verdict
<1>8. CASE e.kind = "peer_review_recorded"
  BY <1>8 DEF ScanEvent, Scan
<1>9. CASE e.kind \in {"report_published", "evidence_attached"}
  BY <1>9 DEF ScanEvent, Scan
<1>10. QED
  BY <1>3, <1>4, <1>5, <1>6, <1>7, <1>8, <1>9

\* The write that follows an event has its type (event_store_sync.py 650-760).
LEMMA SecondType ==
    ASSUME NEW e \in Event
    PROVE  SecondOf(e) \in Second
BY DEF SecondOf, Second, Target, Gate, GateStatus, Verdict, Nothing

-----------------------------------------------------------------------------
(* Types. *)

LogTypes ==
    /\ scan \in Scan
    /\ gates \in [Gate -> GateStatus]
    /\ marked \in BOOLEAN /\ faults \in 0..MaxFaults
    /\ second \in [Worker -> Second]
    /\ late \subseteq Event \cup Second

\* A new log is typed (event_store_sync.py 598-612).
LEMMA LogInitTypes == LogInit => LogTypes
<1> SUFFICES ASSUME LogInit PROVE LogTypes
  OBVIOUS
<1>1. scan \in Scan
  <2>1. <<>> \in Seq(Phase)
    OBVIOUS
  <2>2. QED
    BY <2>1 DEF LogInit, Scan, GateStatus
<1>2. gates \in [Gate -> GateStatus]
  BY DEF LogInit, GateStatus
<1>3. Nothing \in Second
  BY DEF Nothing, Second, Target, GateStatus
<1>4. marked \in BOOLEAN /\ faults \in 0..MaxFaults
  <2>1. marked \in BOOLEAN
    BY DEF LogInit
  <2>2. faults = 0
    BY DEF LogInit
  <2>3. QED
    BY <2>1, <2>2, FaultBound
<1>5. second \in [Worker -> Second]
  BY <1>3 DEF LogInit
<1>6. late \subseteq Event \cup Second
  BY DEF LogInit
<1>7. QED
  BY <1>1, <1>2, <1>4, <1>5, <1>6 DEF LogTypes

\* A write keeps the types, whichever of the three it is and whatever becomes
\* of it (event_store_sync.py 612-791).
LEMMA LogNextTypes == TypeOK /\ LogTypes /\ [LogNext]_allVars => LogTypes'
<1> SUFFICES ASSUME TypeOK, LogTypes, [LogNext]_allVars PROVE LogTypes'
  OBVIOUS
<1>0. CASE UNCHANGED logVars
  BY <1>0 DEF logVars, LogTypes
<1>n. Nothing \in Second
  BY DEF Nothing, Second, Target, GateStatus
<1>land. ASSUME NEW e \in Event, LandEvent(e)
         PROVE  scan' \in Scan /\ UNCHANGED <<gates, marked>>
  BY <1>land, ScanType DEF LandEvent, LogTypes
<1>after. ASSUME NEW s \in Second, LandSecond(s)
          PROVE  gates' \in [Gate -> GateStatus] /\ marked' \in BOOLEAN
                 /\ UNCHANGED scan
  <2>1. s.status \in GateStatus
    BY DEF Second
  <2>2. QED
    BY <1>after, <2>1 DEF LandSecond, LogTypes
<1>miss. ASSUME NEW x \in Event \cup Second, Miss(x)
         PROVE  /\ faults' \in 0..MaxFaults /\ late' \subseteq Event \cup Second
                /\ UNCHANGED <<scan, gates, marked>>
  BY <1>miss, FaultBound DEF Miss, LogTypes
<1>1. ASSUME NEW w \in Worker, Work(w) PROVE UNCHANGED logVars
  BY <1>1 DEF Work
<1>2. ASSUME NEW w \in Worker, WriteEvent(w) PROVE LogTypes'
  <2>1. call[w].event \in Event
    BY DEF TypeOK, Call
  <2>2. SecondOf(call[w].event) \in Second
    BY <2>1, SecondType
  <2>3. second' \in [Worker -> Second]
    BY <1>2, <2>2 DEF WriteEvent, LogTypes
  <2>4. \/ LandEvent(call[w].event) /\ UNCHANGED <<late, faults>>
        \/ Miss(call[w].event)
    BY <1>2 DEF WriteEvent
  <2>5. QED
    BY <2>1, <2>3, <2>4, <1>land, <1>miss DEF LogTypes
<1>3. ASSUME NEW w \in Worker, WriteSecond(w) PROVE LogTypes'
  <2>1. second[w] \in Second
    BY DEF LogTypes
  <2>2. second' \in [Worker -> Second]
    BY <1>3, <1>n DEF WriteSecond, LogTypes
  <2>3. \/ LandSecond(second[w]) /\ UNCHANGED <<late, faults>>
        \/ Miss(second[w])
    BY <1>3 DEF WriteSecond
  <2>4. QED
    BY <2>1, <2>2, <2>3, <1>after, <1>miss DEF LogTypes
<1>4. ASSUME NEW x \in late, LandLate(x) PROVE LogTypes'
  <2>1. /\ late' \subseteq Event \cup Second
        /\ UNCHANGED <<second, faults>>
    BY <1>4 DEF LandLate, LogTypes
  <2>2. \/ x \in Event /\ LandEvent(x)
        \/ x \in Second /\ LandSecond(x)
    BY <1>4 DEF LandLate, LogTypes
  <2>3. QED
    BY <2>1, <2>2, <1>land, <1>after DEF LogTypes
<1>5. CASE CrashAll
  BY <1>5, <1>n, FaultBound DEF CrashAll, LogTypes
<1>6. ASSUME NEW a \in Artifact, Expire(a) /\ UNCHANGED logVars PROVE LogTypes'
  BY <1>0, <1>6
<1>7. CASE UNCHANGED allVars
  BY <1>0, <1>7 DEF allVars
<1>8. QED
  BY <1>0, <1>1, <1>2, <1>3, <1>4, <1>5, <1>6, <1>7 DEF LogNext

-----------------------------------------------------------------------------
(* What is written is on disk first. *)

\* What an event claims is in the project's files.
Backed(e) ==
    /\ e.kind = "report_published" => ReportItem \in evidence
    /\ e.kind = "verification_completed" /\ e.passed => HasStatistical(evidence)
    /\ e.kind = "peer_review_recorded" => review # "none"

\* So is what the write that follows it claims.
BackedSecond(s) ==
    /\ s.target = "workflow" => ReportItem \in evidence
    /\ s.target = "verification" /\ s.status = "passed" => HasStatistical(evidence)

CallIsBacked(w) ==
    call[w].step \in {"append", "save", "emit"} => Backed(call[w].event)

WritesAreBacked ==
    /\ \A w \in Worker : CallIsBacked(w) /\ BackedSecond(second[w])
    /\ \A x \in late : /\ x \in Event => Backed(x)
                       /\ x \in Second => BackedSecond(x)

\* The files that events speak of only grow.
FilesGrow ==
    evidence \subseteq evidence' /\ (review # "none" => review' # "none")

\* A claim that is backed stays backed (store.py 153-174).
LEMMA BackedStays ==
    ASSUME FilesGrow
    PROVE  /\ \A e : Backed(e) => Backed(e)'
           /\ \A s : BackedSecond(s) => BackedSecond(s)'
           /\ ReportItem \in evidence => ReportItem \in evidence'
           /\ HasStatistical(evidence) => HasStatistical(evidence')
BY DEF FilesGrow, Backed, BackedSecond, HasStatistical

-----------------------------------------------------------------------------
(* One tool call at a time. *)

OneAtATime == \A v, w \in Worker : v = w

\* An event speaks of a phase that the project has reached, and completes one
\* that it has left.
Reached(e, project) ==
    /\ e.kind = "phase_planned" =>
         PhaseIndex(e.phase) <= PhaseIndex(project.current_phase)
    /\ e.kind = "phase_completed" =>
         PhaseIndex(e.phase) < PhaseIndex(project.current_phase)

\* What a call knows of project.json when no other call writes it.
AloneAt(w) ==
    LET c == call[w]
    IN  /\ c.step \in {"gather", "write_review", "check_review", "report"}
               => c.project = disk
        /\ c.step = "report" => review # "rejected"
        /\ c.step = "save" =>
             /\ PhaseIndex(c.project.current_phase) >= PhaseIndex(disk.current_phase)
             /\ c.project.status = "completed" =>
                  disk.status = "completed" \/ review # "rejected"
             /\ Reached(c.event, c.project)
        /\ c.step \in {"append", "emit"} => Reached(c.event, disk)

\* What a step does not do: go back a phase, or complete a rejected project.
Forward ==
    /\ PhaseIndex(disk'.current_phase) >= PhaseIndex(disk.current_phase)
    /\ disk'.status = "completed" /\ disk.status # "completed" => review # "rejected"

\* The phases are numbered 1 to 5, in their order (models/research.py 18-24, workflow.py 34-38).
LEMMA IndexFacts ==
    /\ \A p \in Phase : PhaseIndex(p) \in 1..5
    /\ \A p \in Phase : PhaseIndex(NextPhaseName(p)) >= PhaseIndex(p)
    /\ \A p \in Phase : PhaseIndex(NextPhaseName(p)) <= PhaseIndex(p) + 1
    /\ \A p \in Phase \ {"publication"} : PhaseIndex(NextPhaseName(p)) > PhaseIndex(p)
    /\ \A p \in Phase : NextPhaseName(p) \in Phase
BY DEF PhaseIndex, NextPhaseName, Phase

\* Only the call that goes on changes (offload.py: a call has its own thread).
LEMMA OnlyOneCall ==
    ASSUME TypeOK, NEW w \in Worker, NEW c, Continue(w, c)
    PROVE  call'[w] = c /\ \A v \in Worker \ {w} : call'[v] = call[v]
BY DEF TypeOK, Continue

\* One step of a tool: the files grow, what it is about to report is backed,
\* and a call that was alone up to here saves no older project and completes no
\* rejected one (research.py 294-834).
LEMMA ToolStepFacts ==
    ASSUME IInv, NEW w \in Worker, CallIsBacked(w), ToolStep(w)
    PROVE  /\ FilesGrow /\ CallIsBacked(w)'
           /\ AloneAt(w) => AloneAt(w)' /\ Forward
           /\ \A v \in Worker \ {w} : call'[v] = call[v]
<1> DEFINE Goal == /\ FilesGrow /\ CallIsBacked(w)'
                   /\ AloneAt(w) => AloneAt(w)' /\ Forward
                   /\ \A v \in Worker \ {w} : call'[v] = call[v]
<1>t. /\ TypeOK /\ disk \in Project /\ disk.current_phase \in Phase
      /\ call[w] \in Call /\ call[w].project \in Project /\ call[w].event \in Event
      /\ Sound(disk) /\ Sound(call[w].project) /\ StepAgrees(call[w])
      /\ call[w].project.current_phase \in Phase
  BY DEF IInv, TypeOK, CopiesAreSound, Call, Project
<1>i. \A p \in Phase : PhaseIndex(p) \in Nat
  BY IndexFacts
\* A load: a new call, and no file changes.
<1>load. ASSUME NEW c \in Call, Continue(w, c), UNCHANGED <<disk, review, evidence>>,
                c.step \in {"append", "save", "emit"} => Backed(c.event),
                c.step \in {"gather", "write_review", "check_review", "report"}
                    => c.project = disk,
                c.step # "report",
                c.step = "save" =>
                  /\ PhaseIndex(c.project.current_phase)
                        >= PhaseIndex(disk.current_phase)
                  /\ c.project.status = disk.status
                  /\ Reached(c.event, c.project),
                c.step \in {"append", "emit"} => Reached(c.event, disk)
         PROVE  Goal
  <2>1. call'[w] = c /\ \A v \in Worker \ {w} : call'[v] = call[v]
    BY <1>load, <1>t, OnlyOneCall
  <2>2. FilesGrow
    BY <1>load DEF FilesGrow
  <2>3. CallIsBacked(w)'
    BY <1>load, <2>1 DEF CallIsBacked, Backed, HasStatistical
  <2>4. AloneAt(w)'
    BY <1>load, <2>1 DEF AloneAt, Reached
  <2>5. Forward
    BY <1>load, <1>t, <1>i DEF Forward
  <2>6. QED
    BY <2>1, <2>2, <2>3, <2>4, <2>5
<1>1. ASSUME NEW p \in Phase, LoadForPlan(w, p) PROVE Goal
  <2> DEFINE new == SetPhase(disk, p, "planned")
             e   == EventOf("phase_planned", p, TRUE)
             c   == [Idle EXCEPT !.step = "save", !.project = new, !.event = e]
  <2>1. /\ new \in Project /\ new.current_phase = disk.current_phase
        /\ new.status = disk.status
    BY <1>t, SetPhaseFacts DEF PhaseStatus
  <2>2. e \in Event /\ e.kind = "phase_planned" /\ e.phase = p
    BY EventType DEF EventOf
  <2>3. Continue(w, c) /\ UNCHANGED <<disk, review, evidence>> /\ p = disk.current_phase
    BY <1>1 DEF LoadForPlan
  <2> HIDE DEF new, e
  <2>4. c \in Call /\ c.project = new /\ c.step = "save" /\ c.event = e
    BY <2>1, <2>2, IdleType DEF Call, Step
  <2> HIDE DEF c
  <2>5. QED
    BY <2>1, <2>2, <2>3, <2>4, <1>t, <1>i, <1>load DEF Backed, Reached
<1>2. ASSUME NEW p \in Phase, LoadForExecute(w, p) PROVE Goal
  <2> DEFINE new == AdvancePhase(SetPhase(disk, p, "completed"))
             e   == EventOf("phase_completed", p, TRUE)
             c   == [Idle EXCEPT !.step = "save", !.project = new, !.event = e]
  <2>1. /\ new \in Project /\ new.current_phase = NextPhaseName(disk.current_phase)
        /\ new.status = disk.status
    <3>1. /\ SetPhase(disk, p, "completed") \in Project
          /\ SetPhase(disk, p, "completed").current_phase = disk.current_phase
          /\ SetPhase(disk, p, "completed").status = disk.status
      BY <1>t, SetPhaseFacts DEF PhaseStatus
    <3>2. QED
      BY <3>1, AdvanceFacts
  <2>2. e \in Event /\ e.kind = "phase_completed" /\ e.phase = p
    BY EventType DEF EventOf
  <2>3. /\ Continue(w, c) /\ UNCHANGED <<disk, review, evidence>>
        /\ p = disk.current_phase /\ p # "publication"
    BY <1>2 DEF LoadForExecute
  <2>6. /\ PhaseIndex(NextPhaseName(p)) > PhaseIndex(p)
        /\ PhaseIndex(NextPhaseName(p)) \in Nat
    BY <2>3, IndexFacts
  <2> HIDE DEF new, e
  <2>4. c \in Call /\ c.project = new /\ c.step = "save" /\ c.event = e
    BY <2>1, <2>2, IdleType DEF Call, Step
  <2> HIDE DEF c
  <2>5. QED
    BY <2>1, <2>2, <2>3, <2>4, <2>6, <1>i, <1>load DEF Backed, Reached
<1>3. ASSUME NEW a \in Artifact, NEW p \in EvidencePhase, LoadForAttach(w, a, p)
      PROVE  Goal
  <2> DEFINE e == EventOf("evidence_attached", p, TRUE)
             c == [Idle EXCEPT !.step = "append", !.item = [ref |-> a, phase |-> p],
                               !.event = e]
  <2>1. p \in Phase
    BY EvidencePhaseAssumption
  <2>2. e \in Event /\ e.kind = "evidence_attached"
    BY <2>1, EventType DEF EventOf
  <2>3. Continue(w, c) /\ UNCHANGED <<disk, review, evidence>>
    BY <1>3 DEF LoadForAttach
  <2> HIDE DEF e
  <2>4. c \in Call /\ c.step = "append" /\ c.event = e
    BY <2>1, <2>2, IdleType DEF Call, Step, EvidenceItem
  <2> HIDE DEF c
  <2>5. QED
    BY <2>2, <2>3, <2>4, <1>load DEF Backed, Reached
<1>4. ASSUME NEW d \in Decision, LoadForReview(w, d) PROVE Goal
  <2> DEFINE c == [Idle EXCEPT !.step = "write_review", !.project = disk, !.decision = d]
  <2>1. c \in Call /\ c.project = disk /\ c.step = "write_review"
    BY <1>t, IdleType DEF Call, Step
  <2>2. Continue(w, c) /\ UNCHANGED <<disk, review, evidence>>
    BY <1>4 DEF LoadForReview
  <2> HIDE DEF c
  <2>3. QED
    BY <2>1, <2>2, <1>load
<1>5. ASSUME LoadForVerify(w) PROVE Goal
  <2> DEFINE c == [Idle EXCEPT !.step = "gather", !.project = disk]
  <2>1. c \in Call /\ c.project = disk /\ c.step = "gather"
    BY <1>t, IdleType DEF Call, Step
  <2>2. Continue(w, c) /\ UNCHANGED <<disk, review, evidence>>
    BY <1>5 DEF LoadForVerify
  <2> HIDE DEF c
  <2>3. QED
    BY <2>1, <2>2, <1>load
<1>6. ASSUME LoadForPublish(w) PROVE Goal
  <2> DEFINE c == [Idle EXCEPT !.step = "check_review", !.project = disk]
  <2>1. c \in Call /\ c.project = disk /\ c.step = "check_review"
    BY <1>t, IdleType DEF Call, Step
  <2>2. Continue(w, c) /\ UNCHANGED <<disk, review, evidence>>
    BY <1>6 DEF LoadForPublish
  <2> HIDE DEF c
  <2>3. QED
    BY <2>1, <2>2, <1>load
<1>7. ASSUME ReportFails(w) PROVE Goal
  <2>1. Continue(w, Idle) /\ UNCHANGED <<disk, review, evidence>>
    BY <1>7 DEF ReportFails
  <2>2. Idle.step = "idle"
    BY DEF Idle
  <2>3. QED
    BY <2>1, <2>2, IdleType, <1>load
\* The steps that go on with a call: what the call becomes.
<1>8. ASSUME AppendEvidence(w) PROVE Goal
  <2> DEFINE c == [call[w] EXCEPT !.step = "emit"]
  <2>1. /\ c.step = "emit" /\ c.event = call[w].event
    BY <1>t DEF Call
  <2>2. /\ Continue(w, c) /\ UNCHANGED <<disk, review>> /\ call[w].step = "append"
        /\ evidence \subseteq evidence'
    BY <1>8 DEF AppendEvidence, AtStep
  <2> HIDE DEF c
  <2>3. call'[w] = c /\ \A v \in Worker \ {w} : call'[v] = call[v]
    BY <1>t, <2>2, OnlyOneCall
  <2>4. FilesGrow
    BY <2>2 DEF FilesGrow
  <2>5. CallIsBacked(w)'
    <3>1. Backed(call[w].event)
      BY <2>2 DEF CallIsBacked
    <3>2. QED
      BY <2>1, <2>3, <2>4, <3>1, BackedStays DEF CallIsBacked, Backed
  <2>6. AloneAt(w) => AloneAt(w)'
    BY <2>1, <2>2, <2>3 DEF AloneAt, Reached
  <2>7. Forward
    BY <2>2, <1>t, <1>i DEF Forward
  <2>8. QED
    BY <2>3, <2>4, <2>5, <2>6, <2>7
<1>9. ASSUME GatherEvidence(w) PROVE Goal
  <2> DEFINE passed == ChecksPass(evidence)
             new    == Verified(call[w].project, passed)
             e      == EventOf("verification_completed", "verification", passed)
             c      == [call[w] EXCEPT !.step = "save", !.project = new, !.event = e]
  <2>1. passed \in BOOLEAN /\ (passed => HasStatistical(evidence))
    BY DEF ChecksPass, HasStatistical, AllResolve
  <2>2. call[w].step = "gather" /\ call[w].project.current_phase = "verification"
    BY <1>9, <1>t DEF GatherEvidence, AtStep, StepAgrees
  <2>3. Continue(w, c) /\ UNCHANGED <<disk, review, evidence>>
    BY <1>9 DEF GatherEvidence
  <2>4. /\ e \in Event /\ e.kind = "verification_completed" /\ e.passed = passed
    BY <2>1, EventType DEF Phase, EventOf
  <2> HIDE DEF passed, e
  <2>5. /\ new \in Project /\ new.status = call[w].project.status
        /\ new.current_phase \in {"verification", "publication"}
    BY <2>1, <2>2, <1>t, VerifiedFacts
  <2> HIDE DEF new
  <2>6. c \in Call /\ c.project = new /\ c.step = "save" /\ c.event = e
    BY <2>4, <2>5, <1>t DEF Call, Step
  <2> HIDE DEF c
  <2>7. call'[w] = c /\ \A v \in Worker \ {w} : call'[v] = call[v]
    BY <1>t, <2>3, OnlyOneCall
  <2>8. CallIsBacked(w)'
    BY <2>1, <2>3, <2>4, <2>6, <2>7 DEF CallIsBacked, Backed, HasStatistical
  <2>9. PhaseIndex(new.current_phase) >= PhaseIndex("verification")
    BY <2>5 DEF PhaseIndex
  <2>10. AloneAt(w) => AloneAt(w)'
    <3>1. SUFFICES ASSUME call[w].project = disk PROVE AloneAt(w)'
      BY <2>2 DEF AloneAt
    <3>2. Reached(e, new)
      BY <2>4 DEF Reached
    <3>3. QED
      BY <2>2, <2>3, <2>5, <2>6, <2>7, <2>9, <3>1, <3>2 DEF AloneAt, Reached
  <2>11. FilesGrow /\ Forward
    BY <2>3, <1>t, <1>i DEF FilesGrow, Forward
  <2>12. QED
    BY <2>7, <2>8, <2>10, <2>11
<1>10. ASSUME WriteReview(w) PROVE Goal
  <2> DEFINE d   == call[w].decision
             new == Reviewed(call[w].project, d)
             e   == EventOf("peer_review_recorded", "publication", d # "rejected")
             c   == [call[w] EXCEPT !.step = "save", !.project = new, !.event = e]
  <2>1. d \in Decision
    BY <1>t DEF Call
  <2>2. call[w].step = "write_review"
    BY <1>10 DEF WriteReview, AtStep
  <2>3. Continue(w, c) /\ review' = d /\ UNCHANGED <<disk, evidence>>
    BY <1>10 DEF WriteReview
  <2>4. e \in Event /\ e.kind = "peer_review_recorded"
    BY EventType DEF Phase, EventOf
  <2>5. review' # "none"
    BY <2>1, <2>3 DEF Decision
  <2>6. /\ new \in Project /\ new.status # "completed"
        /\ new.current_phase = call[w].project.current_phase
    BY <2>1, <1>t, ReviewedFacts
  <2> HIDE DEF d, e, new
  <2>7. c \in Call /\ c.project = new /\ c.step = "save" /\ c.event = e
    BY <2>4, <2>6, <1>t DEF Call, Step
  <2> HIDE DEF c
  <2>8. call'[w] = c /\ \A v \in Worker \ {w} : call'[v] = call[v]
    BY <1>t, <2>3, OnlyOneCall
  <2>9. CallIsBacked(w)'
    BY <2>4, <2>5, <2>7, <2>8 DEF CallIsBacked, Backed
  <2>10. AloneAt(w) => AloneAt(w)'
    <3>1. SUFFICES ASSUME call[w].project = disk PROVE AloneAt(w)'
      BY <2>2 DEF AloneAt
    <3>2. Reached(e, new)
      BY <2>4 DEF Reached
    <3>3. QED
      BY <2>3, <2>6, <2>7, <2>8, <3>1, <3>2, <1>t, <1>i DEF AloneAt, Reached
  <2>11. FilesGrow /\ Forward
    BY <2>3, <2>5, <1>t, <1>i DEF FilesGrow, Forward
  <2>12. QED
    BY <2>8, <2>9, <2>10, <2>11
<1>11. ASSUME CheckReview(w) PROVE Goal
  <2>1. CASE review \in {"none", "rejected"}
    <3>1. Continue(w, Idle) /\ UNCHANGED <<disk, review, evidence>>
      BY <1>11, <2>1 DEF CheckReview
    <3>2. Idle.step = "idle"
      BY DEF Idle
    <3>3. QED
      BY <3>1, <3>2, IdleType, <1>load
  <2>2. CASE review \notin {"none", "rejected"}
    <3> DEFINE c == [call[w] EXCEPT !.step = "report"]
    <3>1. c.project = call[w].project /\ c.step = "report"
      BY <1>t DEF Call
    <3>2. /\ Continue(w, c) /\ UNCHANGED <<disk, review, evidence>>
          /\ call[w].step = "check_review"
      BY <1>11, <2>2 DEF CheckReview, AtStep
    <3> HIDE DEF c
    <3>3. call'[w] = c /\ \A v \in Worker \ {w} : call'[v] = call[v]
      BY <1>t, <3>2, OnlyOneCall
    <3>4. CallIsBacked(w)'
      BY <3>1, <3>3 DEF CallIsBacked
    <3>5. AloneAt(w) => AloneAt(w)'
      BY <3>1, <3>2, <3>3, <2>2 DEF AloneAt
    <3>6. FilesGrow /\ Forward
      BY <3>2, <1>t, <1>i DEF FilesGrow, Forward
    <3>7. QED
      BY <3>3, <3>4, <3>5, <3>6
  <2>3. QED
    BY <2>1, <2>2
<1>12. ASSUME AttachReport(w) PROVE Goal
  <2> DEFINE new == PublishedProject(call[w].project)
             c   == [call[w] EXCEPT !.step = "save", !.project = PublishedProject(@),
                                    !.event = Published]
  <2>1. new \in Project /\ new.current_phase = call[w].project.current_phase
    BY <1>t, PublishedFacts
  <2>2. /\ Continue(w, c) /\ UNCHANGED <<disk, review>> /\ call[w].step = "report"
        /\ evidence \subseteq evidence' /\ ReportItem \in evidence'
    BY <1>12 DEF AttachReport, AtStep
  <2>3. Published \in Event /\ Published.kind = "report_published"
    BY EventType DEF Phase, Published, EventOf
  <2>4. c.project = new /\ c.step = "save" /\ c.event = Published
    BY <1>t DEF Call
  <2> HIDE DEF new, c
  <2>5. call'[w] = c /\ \A v \in Worker \ {w} : call'[v] = call[v]
    BY <1>t, <2>2, OnlyOneCall
  <2>6. CallIsBacked(w)'
    BY <2>2, <2>3, <2>4, <2>5 DEF CallIsBacked, Backed
  <2>7. AloneAt(w) => AloneAt(w)'
    <3>1. SUFFICES ASSUME call[w].project = disk, review # "rejected" PROVE AloneAt(w)'
      BY <2>2 DEF AloneAt
    <3>2. Reached(Published, new)
      BY <2>3 DEF Reached
    <3>3. QED
      BY <2>1, <2>2, <2>4, <2>5, <3>1, <3>2, <1>t, <1>i DEF AloneAt, Reached
  <2>8. FilesGrow /\ Forward
    BY <2>2, <1>t, <1>i DEF FilesGrow, Forward
  <2>9. QED
    BY <2>5, <2>6, <2>7, <2>8
<1>13. ASSUME SaveProject(w) PROVE Goal
  <2> DEFINE c == [call[w] EXCEPT !.step = "emit"]
  <2>1. c.step = "emit" /\ c.event = call[w].event
    BY <1>t DEF Call
  <2>2. /\ Continue(w, c) /\ UNCHANGED <<review, evidence>> /\ call[w].step = "save"
        /\ disk' = call[w].project
    BY <1>13 DEF SaveProject, AtStep
  <2> HIDE DEF c
  <2>3. call'[w] = c /\ \A v \in Worker \ {w} : call'[v] = call[v]
    BY <1>t, <2>2, OnlyOneCall
  <2>4. FilesGrow
    BY <2>2 DEF FilesGrow
  <2>5. CallIsBacked(w)'
    BY <2>1, <2>2, <2>3 DEF CallIsBacked, Backed, HasStatistical
  <2>6. AloneAt(w) => AloneAt(w)' /\ Forward
    BY <2>1, <2>2, <2>3 DEF AloneAt, Forward, Reached
  <2>7. QED
    BY <2>3, <2>4, <2>5, <2>6
<1>14. QED
  BY <1>1, <1>2, <1>3, <1>4, <1>5, <1>6, <1>7, <1>8, <1>9, <1>10, <1>11, <1>12,
     <1>13 DEF ToolStep

-----------------------------------------------------------------------------
(* The invariant for any set of workers. *)

LogInv == IInv /\ LogTypes /\ LogIsBacked /\ WritesAreBacked

\* Nothing is claimed of a new project (store.py 60-85).
LEMMA LogInitInv == LogInit => LogInv
<1> SUFFICES ASSUME LogInit PROVE LogInv
  OBVIOUS
<1>1. IInv /\ LogTypes
  BY InitIInv, LogInitTypes DEF LogInit
<1>2. LogIsBacked
  BY DEF LogInit, LogIsBacked, Gate
<1>3. WritesAreBacked
  BY DEF LogInit, Init, WritesAreBacked, CallIsBacked, BackedSecond, Nothing, Idle
<1>4. QED
  BY <1>1, <1>2, <1>3 DEF LogInv

\* An event that is backed keeps the log backed when it lands, and so does the
\* write that follows it (resume.py 84-140, event_store_sync.py 700-791).
LEMMA LandKeepsBacked ==
    ASSUME LogTypes, LogIsBacked, UNCHANGED <<review, evidence>>
    PROVE  /\ \A e \in Event : Backed(e) /\ LandEvent(e) => LogIsBacked'
           /\ \A s \in Second : BackedSecond(s) /\ LandSecond(s) => LogIsBacked'
<1>1. ASSUME NEW e \in Event, Backed(e), LandEvent(e) PROVE LogIsBacked'
  <2>1. scan \in Scan /\ scan' = ScanEvent(scan, e) /\ UNCHANGED <<gates, marked>>
    BY <1>1 DEF LogTypes, LandEvent
  <2>2. /\ scan'.published => scan.published \/ e.kind = "report_published"
        /\ scan'.verification = "passed" =>
             \/ scan.verification = "passed"
             \/ e.kind = "verification_completed" /\ e.passed
        /\ scan'.peer_review # "none" =>
             \/ scan.peer_review # "none"
             \/ e.kind = "peer_review_recorded"
    BY <2>1, ScanAdds
  <2>3. QED
    BY <1>1, <2>1, <2>2 DEF LogIsBacked, Backed, HasStatistical
<1>2. ASSUME NEW s \in Second, BackedSecond(s), LandSecond(s) PROVE LogIsBacked'
  <2>1. /\ marked' => marked \/ s.target = "workflow"
        /\ UNCHANGED scan
    BY <1>2 DEF LandSecond
  <2>2. gates'["verification"] = "passed" =>
          \/ gates["verification"] = "passed"
          \/ s.target = "verification" /\ s.status = "passed"
    BY <1>2 DEF LandSecond, LogTypes, Gate
  <2>3. QED
    BY <1>2, <2>1, <2>2 DEF LogIsBacked, BackedSecond, HasStatistical
<1>3. QED
  BY <1>1, <1>2

\* Steps of a tool, writes that land, are dropped or are late, and crashes keep
\* the log backed (research.py 694-834, event_store_sync.py 598-791).
LEMMA LogNextInv == LogInv /\ [LogNext]_allVars => LogInv'
<1> SUFFICES ASSUME LogInv, [LogNext]_allVars PROVE LogInv'
  OBVIOUS
<1>i. IInv /\ TypeOK /\ LogTypes /\ IInv' /\ LogTypes'
  BY LogStepImplements, NextIInv, LogNextTypes DEF LogInv, IInv
<1>b. LogIsBacked /\ WritesAreBacked
  BY DEF LogInv
\* Nothing that the log or the files say is changed.
<1>same. ASSUME UNCHANGED <<review, evidence, scan, gates, marked>>
         PROVE  LogIsBacked'
  BY <1>same, <1>b DEF LogIsBacked, HasStatistical
<1>stays. ASSUME UNCHANGED <<review, evidence>> PROVE FilesGrow
  BY <1>stays DEF FilesGrow
\* The writes that are left over stay backed.
<1>writes. ASSUME FilesGrow,
                  \A v \in Worker : CallIsBacked(v)',
                  \A v \in Worker : \/ second'[v] = second[v]
                                    \/ BackedSecond(second'[v]),
                  \A x \in late' : \/ x \in late
                                   \/ x \in Event /\ Backed(x) /\ x \notin Second
                                   \/ x \in Second /\ BackedSecond(x) /\ x \notin Event
           PROVE  WritesAreBacked'
  <2>1. \A v \in Worker : BackedSecond(second[v])'
    <3>1. \A v \in Worker : BackedSecond(second'[v])
      BY <1>b, <1>writes DEF WritesAreBacked
    <3>2. QED
      BY <3>1, <1>writes, BackedStays DEF BackedSecond
  <2>2. \A x \in late' : /\ x \in Event => Backed(x)'
                         /\ x \in Second => BackedSecond(x)'
    <3>1. \A x \in late' : /\ x \in Event => Backed(x)
                           /\ x \in Second => BackedSecond(x)
      BY <1>b, <1>writes DEF WritesAreBacked
    <3>2. QED
      BY <3>1, <1>writes, BackedStays
  <2>3. QED
    BY <2>1, <2>2, <1>writes DEF WritesAreBacked
<1>apart. \A e \in Event : e \notin Second
  BY DEF Event, Second
<1>idle. \A v \in Worker : call'[v] = Idle => CallIsBacked(v)'
  BY DEF CallIsBacked, Idle
<1>kept. ASSUME NEW v \in Worker, call'[v] = call[v], FilesGrow PROVE CallIsBacked(v)'
  <2>1. CallIsBacked(v)
    BY <1>b DEF WritesAreBacked
  <2>2. Backed(call[v].event) => Backed(call[v].event)'
    BY <1>kept, BackedStays DEF Backed
  <2>3. QED
    BY <1>kept, <2>1, <2>2 DEF CallIsBacked, Backed
<1>0. CASE UNCHANGED allVars
  BY <1>0, <1>i, <1>b
     DEF LogInv, allVars, vars, logVars, LogIsBacked, HasStatistical, WritesAreBacked,
         CallIsBacked, Backed, BackedSecond
<1>1. ASSUME NEW w \in Worker, Work(w) PROVE LogInv'
  <2>1. ToolStep(w) /\ UNCHANGED logVars
    BY <1>1 DEF Work
  <2>2. /\ FilesGrow /\ CallIsBacked(w)'
        /\ \A v \in Worker \ {w} : call'[v] = call[v]
    BY <2>1, <1>i, <1>b, ToolStepFacts DEF WritesAreBacked
  <2>3. \A v \in Worker : CallIsBacked(v)'
    BY <2>2, <1>kept
  <2>4. WritesAreBacked'
    BY <2>1, <2>2, <2>3, <1>writes DEF logVars
  <2>5. LogIsBacked'
    BY <2>1, <2>2, <1>b, BackedStays DEF LogIsBacked, logVars, FilesGrow
  <2>6. QED
    BY <2>4, <2>5, <1>i DEF LogInv
<1>2. ASSUME NEW w \in Worker, WriteEvent(w) PROVE LogInv'
  <2>1. PICK e \in Event : e = call[w].event
    BY <1>i DEF TypeOK, Call
  <2>2. /\ Continue(w, Idle) /\ UNCHANGED <<disk, review, evidence>>
        /\ Backed(e)
    BY <1>2, <2>1, <1>b DEF WriteEvent, Emit, AtStep, WritesAreBacked, CallIsBacked
  <2>3. call'[w] = Idle /\ \A v \in Worker \ {w} : call'[v] = call[v]
    BY <2>2, <1>i, OnlyOneCall
  <2>4. \A v \in Worker : CallIsBacked(v)'
    BY <2>2, <2>3, <1>idle, <1>kept, <1>stays
  <2>5. BackedSecond(SecondOf(e))
    BY <2>2 DEF Backed, BackedSecond, SecondOf, Verdict, Nothing
  <2>6. \A v \in Worker : second'[v] = second[v] \/ second'[v] = SecondOf(e)
    BY <1>2, <2>1, <1>i DEF WriteEvent, LogTypes
  <2>7. \/ LandEvent(e) /\ UNCHANGED <<late, faults>>
        \/ Miss(e)
    BY <1>2, <2>1 DEF WriteEvent
  <2>8. \A x \in late' : x \in late \/ x = e
    BY <2>7 DEF Miss
  <2>9. WritesAreBacked'
    BY <2>2, <2>4, <2>5, <2>6, <2>8, <1>stays, <1>apart, <1>writes
  <2>10. LogIsBacked'
    BY <2>2, <2>7, <1>i, <1>b, <1>same, LandKeepsBacked DEF Miss
  <2>11. QED
    BY <2>9, <2>10, <1>i DEF LogInv
<1>3. ASSUME NEW w \in Worker, WriteSecond(w) PROVE LogInv'
  <2>1. PICK s \in Second : s = second[w]
    BY <1>i DEF LogTypes
  <2>2. UNCHANGED <<disk, review, evidence, call>> /\ BackedSecond(s)
    BY <1>3, <2>1, <1>b DEF WriteSecond, vars, WritesAreBacked
  <2>3. \A v \in Worker : CallIsBacked(v)'
    BY <2>2, <1>kept, <1>stays
  <2>4. \A v \in Worker : second'[v] = second[v] \/ second'[v] = Nothing
    BY <1>3, <1>i DEF WriteSecond, LogTypes
  <2>5. BackedSecond(Nothing)
    BY DEF BackedSecond, Nothing
  <2>6. \/ LandSecond(s) /\ UNCHANGED <<late, faults>>
        \/ Miss(s)
    BY <1>3, <2>1 DEF WriteSecond
  <2>7. \A x \in late' : x \in late \/ x = s
    BY <2>6 DEF Miss
  <2>8. WritesAreBacked'
    BY <2>2, <2>3, <2>4, <2>5, <2>7, <1>stays, <1>apart, <1>writes
  <2>9. LogIsBacked'
    BY <2>2, <2>6, <1>i, <1>b, <1>same, LandKeepsBacked DEF Miss
  <2>10. QED
    BY <2>8, <2>9, <1>i DEF LogInv
<1>4. ASSUME NEW x \in late, LandLate(x) PROVE LogInv'
  <2>1. /\ UNCHANGED <<disk, review, evidence, call, second>>
        /\ late' \subseteq late
    BY <1>4 DEF LandLate, vars
  <2>2. \/ x \in Event /\ LandEvent(x) /\ Backed(x)
        \/ x \in Second /\ LandSecond(x) /\ BackedSecond(x)
    BY <1>4, <1>i, <1>b DEF LandLate, LogTypes, WritesAreBacked
  <2>3. \A v \in Worker : CallIsBacked(v)'
    BY <2>1, <1>kept, <1>stays
  <2>4. WritesAreBacked'
    BY <2>1, <2>3, <1>stays, <1>writes
  <2>5. LogIsBacked'
    BY <2>1, <2>2, <1>i, <1>b, LandKeepsBacked
  <2>6. QED
    BY <2>4, <2>5, <1>i DEF LogInv
<1>5. CASE CrashAll
  <2>1. /\ UNCHANGED <<disk, review, evidence, scan, gates, marked>>
        /\ \A v \in Worker : call'[v] = Idle /\ second'[v] = Nothing
        /\ late' = {}
    BY <1>5 DEF CrashAll, Crash, vars
  <2>2. BackedSecond(Nothing)
    BY DEF BackedSecond, Nothing
  <2>3. WritesAreBacked'
    BY <2>1, <2>2, <1>idle, <1>stays, <1>writes
  <2>4. QED
    BY <2>1, <2>3, <1>same, <1>i DEF LogInv
<1>6. ASSUME NEW a \in Artifact, Expire(a), UNCHANGED logVars PROVE LogInv'
  <2>1. UNCHANGED <<disk, review, evidence, call>>
    BY <1>6 DEF Expire
  <2>2. \A v \in Worker : CallIsBacked(v)'
    BY <2>1, <1>kept, <1>stays
  <2>3. WritesAreBacked'
    BY <1>6, <2>1, <2>2, <1>stays, <1>writes DEF logVars
  <2>4. QED
    BY <1>6, <2>1, <2>3, <1>same, <1>i DEF LogInv, logVars
<1>7. QED
  BY <1>0, <1>1, <1>2, <1>3, <1>4, <1>5, <1>6 DEF LogNext

\* So it holds of every reachable state (research.py 294-834).
LEMMA LogInvCorrect == LogSpec => []LogInv
BY LogInitInv, LogNextInv, PTL DEF LogSpec

\* Every variable of the log has its type (event_store_sync.py 598-791).
THEOREM LogTypeCorrect == LogSpec => []LogTypeOK
<1>1. LogInv => LogTypeOK
  BY DEF LogInv, IInv, LogTypes, LogTypeOK
<1>2. QED
  BY <1>1, LogInvCorrect, PTL

\* However many tools run at once, and whatever was lost, late or cut off by a
\* crash, the log claims nothing that is not on disk (research.py 694-834).
THEOREM LogIsBackedCorrect == LogSpec => []LogIsBacked
<1>1. LogInv => LogIsBacked
  BY DEF LogInv
<1>2. QED
  BY <1>1, LogInvCorrect, PTL

-----------------------------------------------------------------------------
(* With one tool call at a time: the log and the order of the phases. *)

\* Whatever an event in the log or on its way speaks of, the project has
\* reached it.
LogIsReached ==
    /\ \A x \in late : x \in Event => Reached(x, disk)
    /\ scan.planned # "none" =>
         PhaseIndex(scan.planned) <= PhaseIndex(disk.current_phase)
    /\ \A i \in DOMAIN scan.completed :
         PhaseIndex(scan.completed[i]) < PhaseIndex(disk.current_phase)

AloneInv == LogInv /\ LogIsReached /\ \A w \in Worker : AloneAt(w)

\* A new project has reached its first phase (store.py 60-85).
LEMMA AloneInit == LogInit => AloneInv
<1> SUFFICES ASSUME LogInit PROVE AloneInv
  OBVIOUS
<1>1. LogIsReached
  BY DEF LogInit, LogIsReached
<1>2. \A w \in Worker : AloneAt(w)
  BY DEF LogInit, Init, AloneAt, Idle
<1>3. QED
  BY <1>1, <1>2, LogInitInv DEF AloneInv

\* What an event speaks of stays reached while the project goes forward.
LEMMA ReachedStays ==
    ASSUME TypeOK, TypeOK', Forward, NEW e \in Event, Reached(e, disk)
    PROVE  Reached(e, disk)'
<1>1. /\ PhaseIndex(e.phase) \in Nat /\ PhaseIndex(disk.current_phase) \in Nat
      /\ PhaseIndex(disk'.current_phase) \in Nat
  BY IndexFacts DEF Event, TypeOK, Project
<1>2. QED
  BY <1>1 DEF Reached, Forward

\* A step of a project that has its tools to itself goes forward, and the log
\* does not run ahead of it (research.py 294-834, event_store_sync.py 598-791).
LEMMA AloneNext ==
    ASSUME OneAtATime, AloneInv, [LogNext]_allVars
    PROVE  AloneInv' /\ Forward
<1>i. /\ LogInv /\ LogInv' /\ IInv /\ TypeOK /\ TypeOK' /\ LogTypes
      /\ LogIsReached /\ LogIsBacked /\ WritesAreBacked
  BY LogNextInv DEF AloneInv, LogInv, IInv
<1>x. /\ PhaseIndex(disk.current_phase) \in Nat
      /\ PhaseIndex(disk'.current_phase) \in Nat
  BY <1>i, IndexFacts DEF TypeOK, Project
<1>y. /\ scan \in Scan
      /\ scan.planned # "none" => PhaseIndex(scan.planned) \in Nat
      /\ \A i \in DOMAIN scan.completed : PhaseIndex(scan.completed[i]) \in Nat
  <2>1. scan \in Scan
    BY <1>i DEF LogTypes
  <2>2. /\ scan.planned \in Phase \cup {"none"}
        /\ \A i \in DOMAIN scan.completed : scan.completed[i] \in Phase
    BY <2>1 DEF Scan
  <2>3. QED
    BY <2>1, <2>2, IndexFacts
<1>one. \A v, w \in Worker : v = w
  BY DEF OneAtATime
<1>still. ASSUME UNCHANGED disk PROVE Forward
  BY <1>still, <1>x DEF Forward
<1>idle. \A v \in Worker : call'[v] = Idle => AloneAt(v)'
  BY DEF AloneAt, Idle
<1>kept. ASSUME UNCHANGED <<disk, review>>, NEW v \in Worker, call'[v] = call[v]
         PROVE  AloneAt(v)'
  <2>1. AloneAt(v)
    BY DEF AloneInv
  <2>2. QED
    BY <1>kept, <2>1 DEF AloneAt, Reached
\* Writes that are left over, and what the log says, when nothing lands.
<1>late. ASSUME Forward,
                \A x \in late' : \/ x \in late
                                 \/ x \in Event /\ Reached(x, disk)
                                 \/ x \notin Event
         PROVE  \A x \in late' : x \in Event => Reached(x, disk)'
  BY <1>late, <1>i, ReachedStays DEF LogIsReached
<1>same. ASSUME Forward, UNCHANGED scan
         PROVE  /\ scan'.planned # "none" =>
                     PhaseIndex(scan'.planned) <= PhaseIndex(disk'.current_phase)
                /\ \A i \in DOMAIN scan'.completed :
                     PhaseIndex(scan'.completed[i]) < PhaseIndex(disk'.current_phase)
  BY <1>same, <1>i, <1>x, <1>y DEF LogIsReached, Forward
<1>land. ASSUME NEW e \in Event, Reached(e, disk), LandEvent(e), UNCHANGED disk
         PROVE  /\ scan'.planned # "none" =>
                     PhaseIndex(scan'.planned) <= PhaseIndex(disk'.current_phase)
                /\ \A i \in DOMAIN scan'.completed :
                     PhaseIndex(scan'.completed[i]) < PhaseIndex(disk'.current_phase)
  <2>1. scan' = ScanEvent(scan, e)
    BY <1>land DEF LandEvent
  <2>2. /\ \/ scan'.planned = scan.planned
           \/ e.kind = "phase_planned" /\ scan'.planned = e.phase
        /\ \A i \in DOMAIN scan'.completed :
             \/ i \in DOMAIN scan.completed /\ scan'.completed[i] = scan.completed[i]
             \/ e.kind = "phase_completed" /\ scan'.completed[i] = e.phase
    BY <2>1, <1>y, ScanAdds
  <2>3. QED
    BY <1>land, <1>i, <2>2 DEF LogIsReached, Reached
<1>1. ASSUME NEW w \in Worker, Work(w) PROVE AloneInv' /\ Forward
  <2>1. ToolStep(w) /\ UNCHANGED logVars
    BY <1>1 DEF Work
  <2>2. AloneAt(w)' /\ Forward
    BY <2>1, <1>i, ToolStepFacts DEF AloneInv, WritesAreBacked
  <2>3. \A v \in Worker : AloneAt(v)'
    BY <2>2, <1>one
  <2>4. LogIsReached'
    BY <2>1, <2>2, <1>late, <1>same DEF LogIsReached, logVars
  <2>5. QED
    BY <2>2, <2>3, <2>4, <1>i DEF AloneInv
<1>2. ASSUME NEW w \in Worker, WriteEvent(w) PROVE AloneInv' /\ Forward
  <2>1. PICK e \in Event : e = call[w].event
    BY <1>i DEF TypeOK, Call
  <2>2. /\ Continue(w, Idle) /\ UNCHANGED <<disk, review, evidence>>
        /\ Reached(e, disk)
    BY <1>2, <2>1 DEF WriteEvent, Emit, AtStep, AloneInv, AloneAt
  <2>3. \A v \in Worker : AloneAt(v)'
    BY <2>2, <1>i, <1>one, <1>idle, OnlyOneCall
  <2>4. \/ LandEvent(e) /\ UNCHANGED <<late, faults>>
        \/ Miss(e)
    BY <1>2, <2>1 DEF WriteEvent
  <2>5. \A x \in late' : x \in late \/ x = e
    BY <2>4 DEF Miss
  <2>6. LogIsReached'
    BY <2>2, <2>4, <2>5, <1>still, <1>late, <1>same, <1>land DEF LogIsReached, Miss
  <2>7. QED
    BY <2>2, <2>3, <2>6, <1>still, <1>i DEF AloneInv
<1>3. ASSUME NEW w \in Worker, WriteSecond(w) PROVE AloneInv' /\ Forward
  <2>1. second[w] \notin Event
    BY <1>i DEF LogTypes, Second, Event
  <2>2. UNCHANGED <<disk, review, evidence, call, scan>>
    BY <1>3 DEF WriteSecond, vars, LandSecond, Miss
  <2>3. \A x \in late' : x \in late \/ x \notin Event
    BY <1>3, <2>1 DEF WriteSecond, Miss
  <2>4. LogIsReached'
    BY <2>2, <2>3, <1>still, <1>late, <1>same DEF LogIsReached
  <2>5. QED
    BY <2>2, <2>4, <1>still, <1>kept, <1>i DEF AloneInv
<1>4. ASSUME NEW x \in late, LandLate(x) PROVE AloneInv' /\ Forward
  <2>1. UNCHANGED <<disk, review, evidence, call>> /\ late' \subseteq late
    BY <1>4 DEF LandLate, vars
  <2>2. \/ x \in Event /\ LandEvent(x) /\ Reached(x, disk)
        \/ UNCHANGED scan
    BY <1>4, <1>i DEF LandLate, LandSecond, LogIsReached
  <2>3. LogIsReached'
    BY <2>1, <2>2, <1>still, <1>late, <1>same, <1>land DEF LogIsReached
  <2>4. QED
    BY <2>1, <2>3, <1>still, <1>kept, <1>i DEF AloneInv
<1>5. CASE CrashAll
  <2>1. /\ UNCHANGED <<disk, review, evidence, scan>> /\ late' = {}
        /\ \A v \in Worker : call'[v] = Idle
    BY <1>5 DEF CrashAll, Crash, vars
  <2>2. LogIsReached'
    BY <2>1, <1>still, <1>late, <1>same DEF LogIsReached
  <2>3. QED
    BY <2>1, <2>2, <1>still, <1>idle, <1>i DEF AloneInv
<1>6. ASSUME UNCHANGED <<disk, review, evidence, call>>, UNCHANGED logVars
      PROVE  AloneInv' /\ Forward
  <2>1. LogIsReached'
    BY <1>6, <1>still, <1>late, <1>same DEF LogIsReached, logVars
  <2>2. QED
    BY <1>6, <2>1, <1>still, <1>kept, <1>i DEF AloneInv
<1>7. QED
  BY <1>1, <1>2, <1>3, <1>4, <1>5, <1>6
     DEF LogNext, allVars, vars, logVars, Expire

\* With one call at a time the invariant holds of every reachable state.
LEMMA AloneInvCorrect == ASSUME OneAtATime PROVE LogSpec => []AloneInv
<1>1. AloneInv /\ [LogNext]_allVars => AloneInv'
  BY AloneNext
<1>2. QED
  BY <1>1, AloneInit, PTL DEF LogSpec

\* With one call at a time, a phase that the log says is completed is completed
\* in project.json (research.py 310).
THEOREM CompletionsAreOnDiskCorrect ==
    ASSUME OneAtATime PROVE LogSpec => []CompletionsAreOnDisk
<1>1. ASSUME AloneInv PROVE CompletionsAreOnDisk
  <2>1. \A i \in DOMAIN scan.completed :
          /\ scan.completed[i] \in Phase
          /\ PhaseIndex(scan.completed[i]) < PhaseIndex(disk.current_phase)
    BY <1>1 DEF AloneInv, LogInv, LogIsReached, LogTypes, Scan
  <2>2. InOrder(disk)
    BY <1>1 DEF AloneInv, LogInv, IInv, Sound
  <2>3. QED
    BY <2>1, <2>2 DEF CompletionsAreOnDisk, InOrder
<1>2. QED
  BY <1>1, AloneInvCorrect, PTL

\* With one call at a time, the phase of the resume hint is never after the
\* current phase (resume.py 84-117).
THEOREM HintNotAheadCorrect ==
    ASSUME OneAtATime PROVE LogSpec => []HintNotAhead
<1>1. ASSUME AloneInv PROVE HintNotAhead
  <2>1. scan \in Scan /\ disk.current_phase \in Phase /\ LogIsReached
    BY <1>1 DEF AloneInv, LogInv, LogTypes, IInv, TypeOK, Project
  <2>2. PhaseIndex(disk.current_phase) \in 1..5
    BY <2>1, IndexFacts
  <2>3. CASE HintPhase = scan.planned /\ scan.planned # "none"
    BY <2>1, <2>3 DEF HintNotAhead, LogIsReached
  <2>4. CASE HintPhase = "mapping"
    <3>1. PhaseIndex("mapping") = 1
      BY DEF PhaseIndex
    <3>2. QED
      BY <2>2, <2>4, <3>1 DEF HintNotAhead
  <2>5. CASE /\ scan.completed # <<>>
             /\ HintPhase = NextPhaseName(scan.completed[Len(scan.completed)])
    <3>1. scan.completed \in Seq(Phase)
      BY <2>1 DEF Scan
    <3>2. Len(scan.completed) \in DOMAIN scan.completed
      BY <2>5, <3>1
    <3>3. PICK p \in Phase : p = scan.completed[Len(scan.completed)]
      BY <3>1, <3>2
    <3>4. PhaseIndex(p) < PhaseIndex(disk.current_phase)
      BY <2>1, <3>2, <3>3 DEF LogIsReached
    <3>5. /\ PhaseIndex(NextPhaseName(p)) <= PhaseIndex(p) + 1
          /\ PhaseIndex(NextPhaseName(p)) \in 1..5 /\ PhaseIndex(p) \in 1..5
      BY IndexFacts
    <3>6. QED
      BY <2>2, <2>5, <3>3, <3>4, <3>5 DEF HintNotAhead
  <2>6. QED
    BY <2>3, <2>4, <2>5 DEF HintPhase
<1>2. QED
  BY <1>1, AloneInvCorrect, PTL
=============================================================================
