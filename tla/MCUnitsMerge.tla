---------------------------- MODULE MCUnitsMerge ----------------------------
(* A small instance of UnitsMerge: a file the unit changed, one it deleted,    *)
(* and one it replaced by a submodule.                                         *)
EXTENDS UnitsMerge

MCBaseOf == [p \in Path |-> "base"]
MCUnitOf == [p \in Path |-> CASE p = "a" -> "unit" [] p = "b" -> None [] OTHER -> "submodule"]

\* Bound: the user's edits of the third file, which no merge writes, are of one kind.
Plain == tree["c"] \in {"base", "mine"}

=============================================================================
