----------------------------- MODULE ResearchLog -----------------------------
(***************************************************************************)
(* Research composed with the event log it reports to, and with the resume *)
(* handler that reads the log (workflow/event_store_sync.py 598-791,       *)
(* research/resume.py).                                                    *)
(*                                                                         *)
(* A write to the log is what EventWriter makes of it: it lands, it is     *)
(* dropped, or it is left on an abandoned worker thread and lands later,   *)
(* after writes that were made after it.                                   *)
(***************************************************************************)
EXTENDS Research, Sequences

CONSTANT MaxFaults   \* bound: writes dropped or late, and crashes

ASSUME FaultBound == MaxFaults \in Nat

VARIABLES
    scan,          \* what a reader of the project's events makes of them
    gates,         \* the gates table
    marked,        \* is the workflow marked completed?
    second,        \* second[w]: what worker w writes after its event
    late,          \* writes on abandoned worker threads
    faults         \* how many writes were dropped or late, and crashes

logVars == <<scan, gates, marked, second, late, faults>>
allVars == <<vars, logVars>>

Gate == {"verification", "peer_review"}
GateStatus == {"none", "passed", "failed"}

(* The log itself is a sequence of any length: what is kept here is what    *)
(* the one pass over it finds, so no bound on its length is needed.         *)
Scan == [planned      : Phase \cup {"none"},   \* the phase planned last
         completed    : Seq(Phase),            \* in the order of completion
         verification : GateStatus,            \* the last outcome
         peer_review  : GateStatus,            \* the last verdict
         published    : BOOLEAN]

Target == Gate \cup {"workflow", "none"}

Second == [target : Target, status : GateStatus]
Nothing == [target |-> "none", status |-> "none"]

LogInit ==
    /\ Init
    /\ scan = [planned |-> "none", completed |-> <<>>, verification |-> "none",
               peer_review |-> "none", published |-> FALSE]
    /\ gates = [g \in Gate |-> "none"]
    /\ marked = FALSE
    /\ second = [w \in Worker |-> Nothing]
    /\ late = {}
    /\ faults = 0

-----------------------------------------------------------------------------
(* One more event in the log. *)

Verdict(e) == IF e.passed THEN "passed" ELSE "failed"

IsIn(p, phases) == \E i \in DOMAIN phases : phases[i] = p

\* Faulty: the outcome in the payload is not looked at.
ScanKindOnly(s, e) ==
    CASE e.kind = "phase_planned"          -> [s EXCEPT !.planned = e.phase]
      [] e.kind = "phase_completed"        ->
            IF IsIn(e.phase, s.completed) THEN s
            ELSE [s EXCEPT !.completed = Append(@, e.phase)]
      [] e.kind = "verification_completed" -> [s EXCEPT !.verification = "passed"]
      [] e.kind = "peer_review_recorded"   -> [s EXCEPT !.peer_review = Verdict(e)]
      [] e.kind = "report_published"       -> [s EXCEPT !.published = TRUE]
      [] e.kind = "evidence_attached"      -> s

\* The body of the loops of _scan_phases and _scan_gates.
ScanEvent(s, e) ==
    CASE e.kind = "phase_planned"          -> [s EXCEPT !.planned = e.phase]
      [] e.kind = "phase_completed"        ->
            IF IsIn(e.phase, s.completed) THEN s
            ELSE [s EXCEPT !.completed = Append(@, e.phase)]
      [] e.kind = "verification_completed" -> [s EXCEPT !.verification = Verdict(e)]
      [] e.kind = "peer_review_recorded"   -> [s EXCEPT !.peer_review = Verdict(e)]
      [] e.kind = "report_published"       -> [s EXCEPT !.published = TRUE]
      [] e.kind = "evidence_attached"      -> s

\* Faulty: the gate takes the verdict in the reviewer's words.
SecondVerbatim(e) ==
    CASE e.kind = "verification_completed" ->
            [target |-> "verification", status |-> Verdict(e)]
      [] e.kind = "peer_review_recorded"   ->
            [target |-> "peer_review", status |-> IF e.passed THEN "approved" ELSE "rejected"]
      [] e.kind = "report_published"       -> [target |-> "workflow", status |-> "passed"]
      [] OTHER                             -> Nothing

\* record_research_verification and record_research_peer_review set a gate
\* after their event, record_research_published marks the workflow.
SecondOf(e) ==
    CASE e.kind = "verification_completed" ->
            [target |-> "verification", status |-> Verdict(e)]
      [] e.kind = "peer_review_recorded"   ->
            [target |-> "peer_review", status |-> Verdict(e)]
      [] e.kind = "report_published"       -> [target |-> "workflow", status |-> "passed"]
      [] OTHER                             -> Nothing

-----------------------------------------------------------------------------
(* Writes.  EventWriter says what may become of one: it lands, it is        *)
(* dropped, or it is left on an abandoned thread.                           *)

LandEvent(e) ==
    /\ scan' = ScanEvent(scan, e)
    /\ UNCHANGED <<gates, marked>>

LandSecond(s) ==
    /\ gates' = IF s.target \in Gate THEN [gates EXCEPT ![s.target] = s.status] ELSE gates
    /\ marked' = (marked \/ s.target = "workflow")
    /\ UNCHANGED scan

Miss(x) ==
    /\ faults < MaxFaults
    /\ faults' = faults + 1
    /\ late' \in {late, late \cup {x}}
    /\ UNCHANGED <<scan, gates, marked>>

\* append_event_safe, called after the durable work.
WriteEvent(w) ==
    LET e == call[w].event
    IN  /\ Emit(w)
        /\ second' = [second EXCEPT ![w] = SecondOf(e)]
        /\ \/ LandEvent(e) /\ UNCHANGED <<late, faults>>
           \/ Miss(e)

\* set_gate_safe and mark_workflow_status_safe: bounded like the event, and
\* dropped independently of it.
WriteSecond(w) ==
    /\ second[w] # Nothing
    /\ second' = [second EXCEPT ![w] = Nothing]
    /\ \/ LandSecond(second[w]) /\ UNCHANGED <<late, faults>>
       \/ Miss(second[w])
    /\ UNCHANGED vars

\* An abandoned thread goes on and makes the write it was left with.
LandLate(x) ==
    /\ x \in late
    /\ IF x \in Event THEN LandEvent(x) ELSE LandSecond(x)
    /\ late' = late \ {x}
    /\ UNCHANGED <<vars, second, faults>>

\* Faulty: the event is written before the project is saved.
WorkEventFirst(w) ==
    /\ second[w] = Nothing
    /\ ToolStep(w)
    /\ scan' = IF call'[w].step = "save" THEN ScanEvent(scan, call'[w].event) ELSE scan
    /\ UNCHANGED <<gates, marked, second, late, faults>>

\* A worker does not take another call while it has its second write to make.
Work(w) ==
    /\ second[w] = Nothing
    /\ ToolStep(w)
    /\ UNCHANGED logVars

\* Worker threads are daemons: an abandoned one dies with the process.
CrashAll ==
    /\ Crash \/ (UNCHANGED vars /\ (late # {} \/ \E w \in Worker : second[w] # Nothing))
    /\ call' = [w \in Worker |-> Idle]
    /\ late' = {}
    /\ second' = [w \in Worker |-> Nothing]
    /\ faults < MaxFaults
    /\ faults' = faults + 1
    /\ UNCHANGED <<scan, gates, marked>>

LogNext ==
    \/ \E w \in Worker : Work(w) \/ WriteEvent(w) \/ WriteSecond(w)
    \/ \E x \in late : LandLate(x)
    \/ CrashAll
    \/ \E a \in Artifact : Expire(a) /\ UNCHANGED logVars

LogSpec == LogInit /\ [][LogNext]_allVars

-----------------------------------------------------------------------------
(* resume_research_project: what the handler makes of the scan. *)

\* Faulty: a phase that is completed is not looked for, the hint goes on.
HintPhaseSkipping ==
    IF scan.completed = <<>> THEN "mapping"
    ELSE NextPhaseName(NextPhaseName(scan.completed[Len(scan.completed)]))

\* _scan_phases: the phase planned last unless it is completed, or else the
\* phase after the last completed one.
HintPhase ==
    IF scan.planned # "none" /\ ~IsIn(scan.planned, scan.completed) THEN scan.planned
    ELSE IF scan.completed = <<>> THEN "mapping"
    ELSE NextPhaseName(scan.completed[Len(scan.completed)])

Outcome ==
    IF scan.published THEN "complete"
    ELSE IF scan.peer_review = "failed" THEN "failed"
    ELSE "ready_to_resume"

\* _next_action_for_phase
NextAction ==
    CASE HintPhase = "verification" -> "verify_research_phase"
      [] HintPhase = "publication"  -> "record_peer_review"
      [] OTHER                      -> "plan_research_phase"

\* Would the tool accept the call that the hint names?
Accepted(action) ==
    CASE action = "verify_research_phase" -> disk.current_phase = "verification"
      [] action = "record_peer_review"    -> disk.current_phase = "publication"
      [] action = "plan_research_phase"   ->
            /\ disk.current_phase = HintPhase
            /\ disk.phases[HintPhase] \in {"pending", "failed"}

-----------------------------------------------------------------------------
(* Properties. *)

Quiet == \A w \in Worker : AtStep(w, "idle") /\ second[w] = Nothing

\* Every variable of the log has its type.
LogTypeOK ==
    /\ TypeOK
    /\ scan \in Scan
    /\ gates \in [Gate -> GateStatus]
    /\ marked \in BOOLEAN /\ faults \in 0..MaxFaults
    /\ second \in [Worker -> Second]
    /\ late \subseteq Event \cup Second

\* An event is written after the durable work it reports: whatever was lost,
\* late or cut off by a crash, a logged publication (and a workflow marked
\* completed) has its report in the evidence, and a logged pass of the
\* verification has its statistical evidence (research.py 709-718, 831-837).
LogIsBacked ==
    /\ scan.published \/ marked => ReportItem \in evidence
    /\ scan.verification = "passed" => HasStatistical(evidence)
    /\ gates["verification"] = "passed" => HasStatistical(evidence)
    /\ scan.peer_review # "none" => review # "none"

\* "the event log is consistent with the on-disk state" (research.py 310): a
\* phase that the log says is completed is completed in project.json.
CompletionsAreOnDisk ==
    \A i \in DOMAIN scan.completed : disk.phases[scan.completed[i]] = "completed"

\* A resumed agent is never sent ahead of the project: the phase of the hint is
\* not after the current phase, however many events are missing or landed out
\* of order (resume.py 84-117).
HintNotAhead == PhaseIndex(HintPhase) <= PhaseIndex(disk.current_phase)

\* "the resume hint tells the agent the next call to make" (resume.py 17): with
\* every event in the log, the tool that the hint names accepts the call.
HintIsCallable ==
    faults = 0 /\ Quiet /\ Outcome = "ready_to_resume" => Accepted(NextAction)

\* "If verification_completed event exists with passed=False and no subsequent
\* retry -> action=failed" (resume.py 14): a project whose last verification
\* failed, and that no tool is working on, is reported as failed.
FailedVerificationIsFailed ==
    Quiet /\ scan.verification = "failed" /\ ~scan.published => Outcome = "failed"

=============================================================================
