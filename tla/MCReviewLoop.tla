---------------------------- MODULE MCReviewLoop ----------------------------
(* ReviewLoop with its commits and the bounds of its run, for TLC. *)
EXTENDS ReviewLoop, TLC

CONSTANTS main, head, tip

CommitIs == [b \in Base |-> IF b = NoBase THEN head ELSE tip]
Symmetry == Permutations(Tree) \cup Permutations(Branch)

\* The properties say nothing of what follows a report saved over another snapshot or count.
Untorn == ~torn

Consolidating == \E h \in Helper : work[h].at # "idle"
Rebased == target # None /\ target.base # NoBase
Home == Idle.lineage[2]
Elsewhere ==
  \/ branch # Home
  \/ report # None /\ report.lineage[2] # Home
  \/ \E p \in Proc : work[p].lineage[2] # Home

\* Bounds: a consolidation on its own, and a round of the second branch, only with the first
\* snapshot; another base only on the first branch and before the third; none of these after the
\* reset; and nothing after a report that was forced.
Bound ==
  /\ Untorn /\ ~forced
  /\ Consolidating \/ Elsewhere => taken <= 1 /\ workflow = 0
  /\ Elsewhere => ~Rebased
  /\ Rebased => taken <= 2 /\ workflow = 0
=============================================================================
