----------------------------- MODULE MCResearch -----------------------------
(* A small instance of Research: one statistical query result and one chart *)
(* that may be forgotten, attached to a phase before execution or to it.    *)
EXTENDS Research, TLC

CONSTANTS query, chart

MCArtifact == {query, chart}
MCStatistical == {query}
MCVolatile == {chart}
MCEvidencePhase == {"mapping", "execution"}

\* Threads are interchangeable.
Symmetry == Permutations(Worker)
=============================================================================
