------------------------------ MODULE MCUnits ------------------------------
(* Units with small sets of runs, helpers and units, for TLC. *)
EXTENDS Units, TLC

CONSTANTS a, b, p1

\* Two units nothing relates.
Pair == [p \in Plan |-> [u \in Unit |-> {}]]
\* b builds on a.
Chain == [p \in Plan |-> [u \in Unit |-> IF u = b THEN {a} ELSE {}]]
\* b builds on a in one plan, and nothing does in the other.
Mixed == [p \in Plan |-> [u \in Unit |-> IF p = p1 /\ u = b THEN {a} ELSE {}]]

Symmetry == Permutations(Run)
=============================================================================
