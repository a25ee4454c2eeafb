---------------------------- MODULE MCResearchLog ----------------------------
(* A project with one statistical query result, attached to execution, and  *)
(* a chart that may be forgotten.                                            *)
EXTENDS ResearchLog

CONSTANTS query, chart

MCArtifact == {query, chart}
MCStatistical == {query}
MCVolatile == {chart}
MCEvidencePhase == {"execution"}
=============================================================================
