----------------------------- MODULE MCExplorer -----------------------------
(* Instances of Explorer for TLC: an overview with a streamed group, a list  *)
(* of pools with filters and a core only, and the drill-down into one pool.  *)
EXTENDS Explorer

MCGroups == [s \in Sections |-> CASE s = "overview" -> {"mix"}
                                  [] s = "pools" -> {}
                                  [] s = "pool" -> {"profile"}]

MCMoreGroups == [MCGroups EXCEPT !["pool"] = {"profile", "heatmap"}]

MCFilters == [s \in Lists |-> IF s = "pools" THEN {"v3", "balancer"} ELSE {"all"}]
=============================================================================
