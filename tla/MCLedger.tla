----------------------------- MODULE MCLedger ------------------------------
(* Ledger with one stage that takes attempts and one of review rounds, for TLC. *)
EXTENDS Ledger, TLC

CONSTANTS implementer, review, LimitOf, FreeOf

LimitIs == [s \in Budgeted |-> LimitOf]
FreeIs  == [s \in Stage |-> FreeOf]
Symmetry == Permutations(Run) \cup Permutations(Piece)
=============================================================================
