-------------------------- MODULE DatasetContract --------------------------
(* What a view of a mini app may rely on when it reads a hydrated dataset:   *)
(* the rows it is shown are the first rows of ONE revision of the dataset,   *)
(* they only grow until another revision takes their place, and COMPLETE     *)
(* means all of them, or as many as the cap of the dataset allows.  A goal   *)
(* is the number of a revision and its rows: two revisions of a dataset may  *)
(* hold the same rows, and the second may then start them over.              *)
EXTENDS Naturals, Sequences

CONSTANTS
    Keys,      \* the datasets of a view
    RowCap,    \* RowCap[k]: the most rows the view asks for of dataset k
    Unknown    \* the goal of a dataset whose label and descriptor disagree

VARIABLES goal, shown

vars == <<goal, shown>>

(* What the consumer sees of a dataset before it is first hydrated. *)
Nothing == [rows |-> <<>>, phase |-> "none", truncated |-> FALSE]

IsPrefixOf(s, t) == /\ Len(s) <= Len(t)
                    /\ \A i \in 1 .. Len(s) : s[i] = t[i]

(* A dataset that shows d is faithful to the contents c. *)
Faithful(d, c, cap) ==
    /\ IsPrefixOf(d.rows, c)
    /\ d.phase = "complete" =>
        IF d.truncated THEN Len(d.rows) >= cap ELSE Len(d.rows) = Len(c)

Init == /\ goal = [k \in Keys |-> Unknown]
        /\ shown = [k \in Keys |-> Nothing]

(* Dataset k is replaced: from now on it shows rows of another revision.     *)
(* The revision that is being shown never begins again.                      *)
Replace(k) ==
    /\ goal'[k] = goal[k] => goal[k] = Unknown
    /\ goal'[k] = Unknown \/ Faithful(shown'[k], goal'[k].rows, RowCap[k])

(* More of the same revision, or the end of the load. *)
Extend(k) ==
    /\ goal'[k] = goal[k]
    /\ shown[k].phase = "loading"
    /\ goal[k] # Unknown =>
        /\ IsPrefixOf(shown[k].rows, shown'[k].rows)
        /\ Faithful(shown'[k], goal[k].rows, RowCap[k])

Keep(k) == goal'[k] = goal[k] /\ shown'[k] = shown[k]

Next == \A k \in Keys : Replace(k) \/ Extend(k) \/ Keep(k)

Spec == Init /\ [][Next]_vars
=============================================================================
