----------------------------- MODULE MCTimeline -----------------------------
(* An instance of Timeline: one edge with transfers in any buckets of its    *)
(* range, ranges of up to four buckets.                                      *)
EXTENDS Timeline

CONSTANTS trust
=============================================================================
