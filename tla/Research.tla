------------------------------ MODULE Research ------------------------------
(***************************************************************************)
(* A durable research project (tools/research/research.py) over the store  *)
(* that keeps it on disk (research/store.py).                              *)
(*                                                                         *)
(* Every store method runs under the store's lock, so it is one step; a    *)
(* tool call is several of them, and the tool bodies run on worker threads *)
(* (runtime/offload.py), so the steps of two calls interleave.  A call     *)
(* works on the project it loaded: `project` below is that private copy.   *)
(* Projects do not share state: the module describes one of them.          *)
(***************************************************************************)
EXTENDS Naturals

CONSTANTS
    Worker,        \* threads that execute tool calls
    Artifact,      \* artifacts that evidence can reference
    Statistical,   \* query results whose SQL counts as statistical
    Volatile,      \* charts: the registry forgets them and the copy may be gone
    Report,        \* the reference of a published report
    EvidencePhase  \* the phases evidence is attached to

ASSUME ArtifactAssumption ==
    /\ Statistical \subseteq Artifact
    /\ Volatile \subseteq Artifact
    /\ Report \notin Artifact

VARIABLES
    disk,          \* project.json
    review,        \* peer_review.json: the decision, or "none"
    evidence,      \* evidence.json: which reference is attached to which phase
    gone,          \* references that no longer resolve
    call           \* what each worker is doing

vars == <<disk, review, evidence, gone, call>>

-----------------------------------------------------------------------------
(* Phases, in their order. *)

Phase == {"mapping", "hypothesis", "execution", "verification", "publication"}

ASSUME EvidencePhaseAssumption == EvidencePhase \subseteq Phase

PhaseIndex(p) == CASE p = "mapping"      -> 1
                   [] p = "hypothesis"   -> 2
                   [] p = "execution"    -> 3
                   [] p = "verification" -> 4
                   [] p = "publication"  -> 5

PhaseStatus == {"pending", "planned", "completed", "failed"}

ProjectStatus == {"active", "reviewed", "peer_review_rejected", "completed"}

Decision == {"accepted", "accepted_with_warnings", "rejected"}

Project == [current_phase : Phase,
            phases        : [Phase -> PhaseStatus],
            status        : ProjectStatus]

NewProject == [current_phase |-> "mapping",
               phases        |-> [p \in Phase |-> "pending"],
               status        |-> "active"]

NextPhaseName(p) == CASE p = "mapping"      -> "hypothesis"
                      [] p = "hypothesis"   -> "execution"
                      [] p = "execution"    -> "verification"
                      [] p = "verification" -> "publication"
                      [] p = "publication"  -> "publication"

AdvancePhase(project) ==
    [project EXCEPT !.current_phase = NextPhaseName(@)]

SetPhase(project, p, status) == [project EXCEPT !.phases[p] = status]

-----------------------------------------------------------------------------
(* Evidence. *)

EvidenceItem == [ref : Artifact \cup {Report}, phase : Phase]

HasStatistical(items) ==
    \E e \in items : e.phase = "execution" /\ e.ref \in Statistical

AllResolve(items) == \A e \in items : e.ref \notin gone

\* Faulty: any execution evidence will do.
ChecksPassAnyDepth(items) ==
    (\E e \in items : e.phase = "execution") /\ AllResolve(items)

\* The three structural checks of verify_research_phase.  Statistical depth
\* looks only at execution evidence, so it implies the first of them.
ChecksPass(items) == HasStatistical(items) /\ AllResolve(items)

-----------------------------------------------------------------------------
(* Calls in progress.                                                      *)
(*   "append"       about to append `item` to the evidence                 *)
(*   "gather"       verify: about to read the evidence                     *)
(*   "write_review" review: about to write the verdict file                *)
(*   "check_review" publish: about to read the verdict file                *)
(*   "report"       publish: the report is rendered and attached next      *)
(*   "save"         about to save the private copy of the project          *)
(*   "emit"         the durable work is done, the event is next            *)

Step == {"idle", "append", "gather", "write_review", "check_review",
         "report", "save", "emit"}

Event == [kind   : {"phase_planned", "phase_completed", "evidence_attached",
                    "verification_completed", "peer_review_recorded",
                    "report_published"},
          phase  : Phase,
          passed : BOOLEAN]

EventOf(kind, p, passed) == [kind |-> kind, phase |-> p, passed |-> passed]

\* "report_published" carries no phase and no verdict.
Published == EventOf("report_published", "publication", TRUE)

Call == [step     : Step,
         project  : Project,
         item     : EvidenceItem,
         decision : Decision,
         event    : Event]

ReportItem == [ref |-> Report, phase |-> "publication"]

Idle == [step     |-> "idle",
         project  |-> NewProject,
         item     |-> ReportItem,
         decision |-> "rejected",
         event    |-> Published]

Init ==
    /\ disk = NewProject
    /\ review = "none"
    /\ evidence = {}
    /\ gone = {}
    /\ call = [w \in Worker |-> Idle]

\* Worker w continues a call: `new` is what it knows now.
Continue(w, new) == call' = [call EXCEPT ![w] = new]

AtStep(w, s) == call[w].step = s

-----------------------------------------------------------------------------
(* plan_research_phase and execute_research_phase: load and validate. *)

\* Faulty: the two gated phases are completed like the others.
LoadForExecuteUngated(w, p) ==
    /\ AtStep(w, "idle")
    /\ disk.current_phase = p
    /\ disk.phases[p] = "planned"
    /\ Continue(w, [Idle EXCEPT !.step = "save",
                                !.project = AdvancePhase(SetPhase(disk, p, "completed")),
                                !.event = EventOf("phase_completed", p, TRUE)])
    /\ UNCHANGED <<disk, review, evidence, gone>>

LoadForPlan(w, p) ==
    /\ AtStep(w, "idle")
    /\ disk.current_phase = p
    /\ disk.phases[p] \in {"pending", "failed"}
    /\ Continue(w, [Idle EXCEPT !.step = "save",
                                !.project = SetPhase(disk, p, "planned"),
                                !.event = EventOf("phase_planned", p, TRUE)])
    /\ UNCHANGED <<disk, review, evidence, gone>>

LoadForExecute(w, p) ==
    /\ AtStep(w, "idle")
    /\ disk.current_phase = p
    /\ disk.phases[p] = "planned"
    /\ p \notin {"verification", "publication"}
    /\ Continue(w, [Idle EXCEPT !.step = "save",
                                !.project = AdvancePhase(SetPhase(disk, p, "completed")),
                                !.event = EventOf("phase_completed", p, TRUE)])
    /\ UNCHANGED <<disk, review, evidence, gone>>

(* attach_research_evidence, capture_schema_snapshot: the phase must not be *)
(* a future one and the reference must resolve.                             *)
LoadForAttach(w, a, p) ==
    /\ AtStep(w, "idle")
    /\ PhaseIndex(p) <= PhaseIndex(disk.current_phase)
    /\ a \notin gone
    /\ Continue(w, [Idle EXCEPT !.step = "append",
                                !.item = [ref |-> a, phase |-> p],
                                !.event = EventOf("evidence_attached", p, TRUE)])
    /\ UNCHANGED <<disk, review, evidence, gone>>

AppendEvidence(w) ==
    /\ AtStep(w, "append")
    /\ evidence' = evidence \cup {call[w].item}
    /\ Continue(w, [call[w] EXCEPT !.step = "emit"])
    /\ UNCHANGED <<disk, review, gone>>

(* verify_research_phase: the status of the phase is not examined, so a     *)
(* pending, planned or failed verification can be run.                      *)
LoadForVerify(w) ==
    /\ AtStep(w, "idle")
    /\ disk.current_phase = "verification"
    /\ Continue(w, [Idle EXCEPT !.step = "gather", !.project = disk])
    /\ UNCHANGED <<disk, review, evidence, gone>>

\* Faulty: the phase takes the name of the verification's outcome.
VerifiedAsOutcome(project, passed) ==
    IF passed THEN AdvancePhase(SetPhase(project, "verification", "passed"))
              ELSE SetPhase(project, "verification", "failed")

\* Faulty: a failed verification sends the project back to execution.
VerifiedOrBack(project, passed) ==
    IF passed THEN AdvancePhase(SetPhase(project, "verification", "completed"))
    ELSE [SetPhase(project, "verification", "pending")
             EXCEPT !.current_phase = "execution", !.phases["execution"] = "pending"]

Verified(project, passed) ==
    IF passed THEN AdvancePhase(SetPhase(project, "verification", "completed"))
              ELSE SetPhase(project, "verification", "failed")

GatherEvidence(w) ==
    LET passed == ChecksPass(evidence)
    IN  /\ AtStep(w, "gather")
        /\ Continue(w, [call[w] EXCEPT
               !.step = "save",
               !.project = Verified(call[w].project, passed),
               !.event = EventOf("verification_completed", "verification", passed)])
        /\ UNCHANGED <<disk, review, evidence, gone>>

(* record_peer_review *)
LoadForReview(w, d) ==
    /\ AtStep(w, "idle")
    /\ disk.current_phase = "publication"
    /\ Continue(w, [Idle EXCEPT !.step = "write_review",
                                !.project = disk,
                                !.decision = d])
    /\ UNCHANGED <<disk, review, evidence, gone>>

Reviewed(project, d) ==
    IF d = "rejected"
    THEN [SetPhase(project, "publication", "failed")
             EXCEPT !.status = "peer_review_rejected"]
    ELSE [SetPhase(project, "publication", "planned") EXCEPT !.status = "reviewed"]

WriteReview(w) ==
    LET d == call[w].decision
    IN  /\ AtStep(w, "write_review")
        /\ review' = d
        /\ Continue(w, [call[w] EXCEPT
               !.step = "save",
               !.project = Reviewed(call[w].project, d),
               !.event = EventOf("peer_review_recorded", "publication", d # "rejected")])
        /\ UNCHANGED <<disk, evidence, gone>>

(* publish_research_report.  The status of the publication phase is not     *)
(* examined, so a published project can be published again.                 *)
LoadForPublish(w) ==
    /\ AtStep(w, "idle")
    /\ disk.current_phase = "publication"
    /\ Continue(w, [Idle EXCEPT !.step = "check_review", !.project = disk])
    /\ UNCHANGED <<disk, review, evidence, gone>>

\* Faulty: only a recorded rejection stops the publication.
CheckReviewRejectedOnly(w) ==
    /\ AtStep(w, "check_review")
    /\ IF review = "rejected"
       THEN Continue(w, Idle)
       ELSE Continue(w, [call[w] EXCEPT !.step = "report"])
    /\ UNCHANGED <<disk, review, evidence, gone>>

CheckReview(w) ==
    /\ AtStep(w, "check_review")
    /\ IF review \in {"none", "rejected"}
       THEN Continue(w, Idle)
       ELSE Continue(w, [call[w] EXCEPT !.step = "report"])
    /\ UNCHANGED <<disk, review, evidence, gone>>

PublishedProject(project) ==
    [SetPhase(project, "publication", "completed") EXCEPT !.status = "completed"]

\* create_report_artifact, then append_evidence of the report.
AttachReport(w) ==
    /\ AtStep(w, "report")
    /\ evidence' = evidence \cup {ReportItem}
    /\ Continue(w, [call[w] EXCEPT !.step = "save",
                                   !.project = PublishedProject(@),
                                   !.event = Published])
    /\ UNCHANGED <<disk, review, gone>>

\* create_report_artifact raises: nothing has been written yet.
ReportFails(w) ==
    /\ AtStep(w, "report")
    /\ Continue(w, Idle)
    /\ UNCHANGED <<disk, review, evidence, gone>>

(* store.save_project: the private copy replaces project.json. *)

\* Faulty: only the phases are written, the overall status stays.
SaveProjectPhases(w) ==
    /\ AtStep(w, "save")
    /\ disk' = [call[w].project EXCEPT !.status = disk.status]
    /\ Continue(w, [call[w] EXCEPT !.step = "emit"])
    /\ UNCHANGED <<review, evidence, gone>>

SaveProject(w) ==
    /\ AtStep(w, "save")
    /\ disk' = call[w].project
    /\ Continue(w, [call[w] EXCEPT !.step = "emit"])
    /\ UNCHANGED <<review, evidence, gone>>

(* The event is written or dropped, and the tool returns.  This module has  *)
(* no log: ResearchLog adds it to this step.                                *)
Emit(w) ==
    /\ AtStep(w, "emit")
    /\ Continue(w, Idle)
    /\ UNCHANGED <<disk, review, evidence, gone>>

(* The process dies: what was on disk stays, calls in progress are lost.    *)
Crash ==
    /\ \E w \in Worker : ~AtStep(w, "idle")
    /\ call' = [w \in Worker |-> Idle]
    /\ UNCHANGED <<disk, review, evidence, gone>>

(* A chart leaves the registry and has no durable copy.                     *)
Expire(a) ==
    /\ a \in Volatile \ gone
    /\ gone' = gone \cup {a}
    /\ UNCHANGED <<disk, review, evidence, call>>

-----------------------------------------------------------------------------

\* The steps of worker w before the event is emitted.
ToolStep(w) ==
    \/ \E p \in Phase : LoadForPlan(w, p) \/ LoadForExecute(w, p)
    \/ \E a \in Artifact, p \in EvidencePhase : LoadForAttach(w, a, p)
    \/ \E d \in Decision : LoadForReview(w, d)
    \/ LoadForVerify(w) \/ LoadForPublish(w)
    \/ AppendEvidence(w) \/ GatherEvidence(w) \/ WriteReview(w)
    \/ CheckReview(w) \/ AttachReport(w) \/ ReportFails(w) \/ SaveProject(w)

Next ==
    \/ \E w \in Worker : ToolStep(w) \/ Emit(w)
    \/ Crash
    \/ \E a \in Artifact : Expire(a)

Spec == Init /\ [][Next]_vars

-----------------------------------------------------------------------------
(* Properties. *)

\* Every variable has its type.
TypeOK ==
    /\ disk \in Project
    /\ review \in Decision \cup {"none"}
    /\ evidence \subseteq EvidenceItem
    /\ gone \subseteq Artifact
    /\ call \in [Worker -> Call]

\* A project's phases are done in their order: those before the current one
\* are completed, those after it untouched, and only the two gated phases can
\* have failed.
InOrder(project) ==
    LET now == PhaseIndex(project.current_phase)
    IN  /\ \A p \in Phase : PhaseIndex(p) < now => project.phases[p] = "completed"
        /\ \A p \in Phase : PhaseIndex(p) > now => project.phases[p] = "pending"
        /\ now < 5 => project.phases[project.current_phase] # "completed"
        /\ now < 4 => project.phases[project.current_phase] # "failed"

\* The project's overall status agrees with the status of its last phase.
StatusAgrees(project) ==
    LET last == project.phases["publication"]
    IN  /\ project.status = "completed" <=> last = "completed"
        /\ project.status = "reviewed" => last = "planned"
        /\ project.status = "peer_review_rejected" => last \in {"failed", "planned"}
        /\ last = "failed" => project.status = "peer_review_rejected"

\* However calls interleave, and although each one saves a copy of the project
\* that may be stale, project.json never skips a phase and its overall status
\* agrees with its phases (research.py 294-350, 760-834).
PhasesInOrder == InOrder(disk) /\ StatusAgrees(disk)

\* "Publish a research report after verification": a project in publication
\* has statistical execution evidence attached, whatever was saved over what
\* since its verification read the evidence (research.py 607-709, 803).
PublicationIsVerified ==
    disk.current_phase = "publication" => HasStatistical(evidence)

\* A project that says it is reviewed has a verdict on disk, and one that says
\* it is completed has its report in the evidence, also after a crash between
\* the files (research.py 770-779, 831-834).
OutcomeOnFile ==
    /\ disk.status # "active" => review # "none"
    /\ disk.status = "completed" => ReportItem \in evidence

\* What a project may claim, given the files beside project.json.
Sound(project) ==
    /\ InOrder(project) /\ StatusAgrees(project)
    /\ project.current_phase = "publication" => HasStatistical(evidence)
    /\ project.status # "active" => review # "none"
    /\ project.status = "completed" => ReportItem \in evidence

\* A call that validated its copy still holds what it validated.
StepAgrees(c) ==
    /\ c.step = "gather" => c.project.current_phase = "verification"
    /\ c.step \in {"write_review", "check_review", "report"}
           => c.project.current_phase = "publication"
    /\ c.step = "report" => review # "none"

\* Why the three invariants above survive lost updates: whatever copy a call
\* holds, however stale, is one that project.json may be replaced with, because
\* the evidence is only ever added to and a verdict is never removed
\* (store.py 87-109, 153-174).
CopiesAreSound ==
    \A w \in Worker : Sound(call[w].project) /\ StepAgrees(call[w])

\* "publication remains blocked on rejection" (README.md 923): no step makes a
\* project completed while the verdict on file is a rejection.
BlockedOnRejection ==
    [][disk'.status = "completed" /\ disk.status # "completed"
         => review # "rejected"]_vars

=============================================================================
