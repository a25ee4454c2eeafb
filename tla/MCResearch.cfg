SPECIFICATION Spec
CONSTANTS
    query = query
    chart = chart
    Worker = {w1, w2}
    Artifact <- MCArtifact
    Statistical <- MCStatistical
    Volatile <- MCVolatile
    Report = report
    EvidencePhase <- MCEvidencePhase
SYMMETRY Symmetry
INVARIANTS TypeOK PhasesInOrder PublicationIsVerified OutcomeOnFile CopiesAreSound
