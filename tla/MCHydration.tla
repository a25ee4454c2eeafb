---------------------------- MODULE MCHydration ----------------------------
(* Instances of Hydration for TLC. *)
EXTENDS Hydration

(* Transactions are loaded and appended to, timeline rows only loaded, and   *)
(* the profile of a pool is attached by a group load.                        *)
MCKindsOf == [k \in Keys |-> CASE k = "txs" -> {"load", "append"}
                               [] k = "timeline" -> {"load"}
                               [] k = "profile" -> {"attach"}]

(* The profile is cut at two rows. *)
MCRowCap == [k \in Keys |-> IF k = "profile" THEN 2 ELSE 4]
=============================================================================
