SPECIFICATION LogSpec
CONSTANTS
    query = query
    chart = chart
    Worker = {w1}
    Artifact <- MCArtifact
    Statistical <- MCStatistical
    Volatile <- MCVolatile
    Report = report
    EvidencePhase <- MCEvidencePhase
    MaxFaults = 2
INVARIANTS LogIsBacked CompletionsAreOnDisk HintNotAhead
