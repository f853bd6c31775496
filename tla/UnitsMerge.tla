----------------------------- MODULE UnitsMerge -----------------------------
(* Merging a finished unit into the working tree (units_merge, units merge):   *)
(* each file the unit changed is read and decided on, then the results are     *)
(* written one file after another, put back when one of them fails, and the    *)
(* unit is recorded as merged, or as conflicted until its conflicts are        *)
(* resolved. The user edits the tree meanwhile, and the merge may die.         *)
(*                                                                             *)
(* A content stands for the bytes of a file. One merge at a time: its lock is  *)
(* the one of FileLock.                                                        *)
EXTENDS Naturals, Sequences, FiniteSets, SequencesExt

CONSTANTS
  None,
  Path,      \* the files the unit changed
  BaseOf,    \* what each held when the unit began: "base", "link", "submodule", or None for a new file
  UnitOf,    \* what the unit made of it: "unit", "link", "submodule", or None when it deleted it
  MaxEdits,  \* bound: edits of the user
  MaxMerges, \* bound: merges begun
  MaxPlans   \* bound: plans that had this unit

\* "merged" and "marked" are what git merge-file makes of a text; "link" is anything but a
\* regular file, a file below a linked directory included.
UserContent == {"mine", "again", "binary", "link", None}
Content == UserContent \cup {"base", "unit", "merged", "marked"}

ASSUME MergeConstantsOK ==
  /\ IsFiniteSet(Path) /\ {MaxEdits, MaxMerges, MaxPlans} \subseteq Nat
  /\ BaseOf \in [Path -> {"base", "link", "submodule", None}]
  /\ UnitOf \in [Path -> {"unit", "link", "submodule", None}]
  /\ \A p \in Path : ~(BaseOf[p] = None /\ UnitOf[p] = None)
  /\ None \notin {"base", "unit", "link", "submodule", "mine", "again", "binary", "merged", "marked", "unedited"}

VARIABLES
  tree,    \* the working tree
  theirs,  \* the files whose unit version is kept under units/<name>/theirs
  record,  \* the unit's record in units.json, and the plan units.json is for; torn (history) is a merge
           \* begun under the plan before
  merge,   \* units merge
  edits,   \* edits so far
  merges,  \* merges so far
  edit,    \* history: what the user last made of a file since the merge read it
  lost,    \* history: files whose edit was moved over between the check and the move
  in,      \* history: files that have taken in the unit's version
  acted    \* history: conflicts the user has edited, or kept with --keep

history == <<edit, lost, in, acted>>
mergeVars == <<tree, theirs, record, merge, edits, merges, history>>

Idle == [at |-> "idle"]
Unedited == "unedited"
NoRecord(n) == [plan |-> n, status |-> "pending", conflicts |-> {}, kept |-> [p \in {} |-> None], torn |-> FALSE]

\* A submodule is a directory in the working tree.
OnDisk(p) == IF BaseOf[p] = "submodule" THEN "link" ELSE BaseOf[p]

MergeInit ==
  /\ tree \in [Path -> {"base", "mine", "link", None}] /\ \A p \in Path : tree[p] \in {OnDisk(p), "mine"}
  /\ theirs = {} /\ record = [NoRecord(1) EXCEPT !.status = "succeeded"]
  /\ merge = Idle /\ edits = 0 /\ merges = 0
  /\ edit = [p \in Path |-> Unedited] /\ lost = {} /\ in = {} /\ acted = {}

-----------------------------------------------------------------------------
(* Others: the user's edits, a new plan, and the unit's runs. *)

UserEdits ==
  /\ edits < MaxEdits /\ edits' = edits + 1
  /\ \E p \in Path, c \in UserContent :
       /\ c # tree[p] /\ tree' = [tree EXCEPT ![p] = c]
       /\ edit' = [edit EXCEPT ![p] = c]
       /\ acted' = acted \cup {p}
  /\ UNCHANGED <<theirs, record, merge, merges, lost, in>>

\* A claim under a plan that was rewritten: the records of the plan before are dropped.
Replan ==
  /\ record.plan < MaxPlans /\ record' = NoRecord(record.plan + 1)
  /\ UNCHANGED <<tree, theirs, merge, edits, merges, history>>

RunUnit ==
  /\ record.status = "pending" /\ record' = [record EXCEPT !.status = "succeeded"]
  /\ in' = {} /\ acted' = {}
  /\ UNCHANGED <<tree, theirs, merge, edits, merges, edit, lost>>

-----------------------------------------------------------------------------
(* What becomes of one file (_merge_file). *)

Result(action, content, keepsTheirs, current) ==
  [action |-> action, content |-> content, theirs |-> keepsTheirs, current |-> current]

\* What a merge never writes.
Unwritten == {"link", "submodule"}

\* _unit_copy: a file the unit deleted and a submodule have no version to save.
HasCopy(p) == UnitOf[p] \notin {None, "submodule"}

\* The user's version stays, the unit's is kept beside it, where it has one.
Kept(p, current) == Result("conflict", None, HasCopy(p), current)

\* git merge-file, for a text both sides changed; where the markers of a merge that died are, the
\* sides still differ.
MergeText(current) ==
  {Result("conflict", "marked", FALSE, current)} \cup
  IF current = "marked" THEN {} ELSE {Result("write", "merged", FALSE, current)}

\* Both sides changed it, or one deleted what the other changed.
BothChanged(p, current) ==
  IF UnitOf[p] = None \/ current \in {None, "binary"} THEN {Kept(p, current)} ELSE MergeText(current)

\* Where a link or a submodule is in either tree, only the target of a link the unit made is kept beside.
MergeFile(p, current) ==
  IF current = "link" THEN {Kept(p, current)}
  ELSE IF {BaseOf[p], UnitOf[p]} \cap Unwritten # {} THEN {Result("conflict", None, UnitOf[p] = "link", current)}
  ELSE IF current = BaseOf[p] THEN {Result(IF UnitOf[p] = None THEN "delete" ELSE "write", UnitOf[p], FALSE, current)}
  ELSE IF current = UnitOf[p] THEN {Result("same", None, FALSE, current)}
  ELSE BothChanged(p, current)

-----------------------------------------------------------------------------
(* units merge *)

Goes(to) == merge' = [merge EXCEPT !.at = to]

\* cmd_units_merge: only a unit that succeeded, or has conflicts to resolve, goes on.
StartMerge ==
  /\ merge = Idle /\ merges < MaxMerges /\ merges' = merges + 1
  /\ record.status = "succeeded"
  /\ merge' = [at |-> "read", plan |-> record.plan, results |-> [p \in {} |-> None], done |-> <<>>, left |-> {},
               next |-> None, seen |-> None, kept |-> [p \in {} |-> None]]
  /\ edit' = [p \in Path |-> Unedited] /\ lost' = {}
  /\ UNCHANGED <<tree, theirs, record, edits, in, acted>>

Read == DOMAIN merge.results
Conflicts == {p \in Read : merge.results[p].action = "conflict"}

\* plan_merge, one file after another, in the order of git's diff.
ReadFile ==
  /\ merge.at = "read"
  /\ IF Read = Path THEN Goes("copies") /\ UNCHANGED <<edit, acted>>
     ELSE LET p == CHOOSE q \in Path \ Read : TRUE
          IN /\ \E result \in MergeFile(p, tree[p]) :
                  merge' = [merge EXCEPT !.results = [q \in Read \cup {p} |-> IF q = p THEN result ELSE @[q]]]
             /\ edit' = [edit EXCEPT ![p] = Unedited] /\ acted' = acted \ {p}
  /\ UNCHANGED <<tree, theirs, record, edits, merges, lost, in>>

\* The unit's versions of the files whose own is kept, before any file of the tree.
KeepCopies ==
  /\ merge.at = "copies" /\ Goes("apply")
  /\ theirs' = theirs \cup {p \in Read : merge.results[p].theirs}
  /\ UNCHANGED <<tree, record, edits, merges, history>>

Done == {merge.done[i].path : i \in DOMAIN merge.done}
Writes(p) == merge.results[p].action = "delete" \/ merge.results[p].content # None
ToWrite == {p \in Path \ Done : Writes(p)}

\* apply: the file is compared with what was read just before it is moved over or deleted.
CheckFile ==
  /\ merge.at = "apply" /\ ToWrite # {}
  /\ LET p == CHOOSE q \in ToWrite : TRUE
     IN IF tree[p] = merge.results[p].current THEN merge' = [merge EXCEPT !.at = "move", !.next = p, !.seen = tree[p]]
        ELSE Goes("undo")
  /\ UNCHANGED <<tree, theirs, record, edits, merges, history>>

Over(p) == lost' = IF tree[p] = merge.seen THEN lost ELSE lost \cup {p}

MoveFile ==
  /\ merge.at = "move"
  /\ LET p == merge.next
         to == merge.results[p].content
     IN /\ tree' = [tree EXCEPT ![p] = to] /\ Over(p)
        /\ merge' = [merge EXCEPT !.at = "apply", !.next = None, !.seen = None,
                                  !.done = Append(@, [path |-> p, previous |-> merge.results[p].current, written |-> to])]
  /\ UNCHANGED <<theirs, record, edits, merges, edit, in, acted>>

\* A file that cannot be read, merged, written or deleted, or a parent that is a link by now.
FailMerge ==
  /\ merge.at \in {"read", "copies", "apply", "move"}
  /\ merge' = [merge EXCEPT !.at = IF @ \in {"apply", "move"} THEN "undo" ELSE "failed", !.next = None, !.seen = None]
  /\ UNCHANGED <<tree, theirs, record, edits, merges, history>>

\* Mutant of PutsBack: the undo writes over what the user did meanwhile.
PutBackAlways(p, written) == TRUE

\* _undo: only a file that still holds what apply wrote is put back.
PutsBack(p, written) == tree[p] = written

\* Last first; a file that cannot be put back, for an edit or an error, is named.
UndoFile ==
  /\ merge.at = "undo" /\ merge.done # <<>>
  /\ LET last == Last(merge.done)
     IN IF PutsBack(last.path, last.written)
        THEN merge' = [merge EXCEPT !.at = "back", !.next = last.path, !.seen = tree[last.path], !.done = Front(@)]
        ELSE merge' = [merge EXCEPT !.left = @ \cup {last.path}, !.done = Front(@)]
  /\ UNCHANGED <<tree, theirs, record, edits, merges, history>>

MoveBack ==
  /\ merge.at = "back"
  /\ LET p == merge.next
     IN \/ /\ tree' = [tree EXCEPT ![p] = merge.results[p].current]
           /\ Over(p)
           /\ merge' = [merge EXCEPT !.at = "undo", !.next = None, !.seen = None]
        \/ /\ merge' = [merge EXCEPT !.at = "undo", !.next = None, !.seen = None, !.left = @ \cup {p}]
           /\ UNCHANGED <<tree, lost>>
  /\ UNCHANGED <<theirs, record, edits, merges, edit, in, acted>>

UndoDone ==
  /\ merge.at = "undo" /\ merge.done = <<>> /\ Goes("failed")
  /\ UNCHANGED <<tree, theirs, record, edits, merges, history>>

EndFailed ==
  /\ merge.at = "failed" /\ merge' = Idle
  /\ UNCHANGED <<tree, theirs, record, edits, merges, history>>

\* Everything written: conflict_files reads what the tree holds where no markers were written.
Applied ==
  /\ merge.at = "apply" /\ ToWrite = {}
  /\ merge' = [merge EXCEPT !.at = "record",
                            !.kept = [p \in {q \in Conflicts : merge.results[q].content = None} |-> tree[p]]]
  /\ in' = in \cup (Path \ Conflicts)
  /\ UNCHANGED <<tree, theirs, record, edits, merges, edit, lost, acted>>

\* units.update merges the fields into whatever record the unit has by then.
RecordMerge ==
  /\ merge.at = "record" /\ merge' = Idle
  /\ record' = [plan |-> record.plan, torn |-> merge.plan # record.plan, conflicts |-> Conflicts,
                status |-> IF Conflicts = {} THEN "merged" ELSE "conflicted", kept |-> merge.kept]
  /\ UNCHANGED <<tree, theirs, edits, merges, history>>

-----------------------------------------------------------------------------
(* units merge --resolved *)

\* Mutant of TouchedOrKept: a conflict nobody has touched counts as resolved.
UntouchedIgnored(keep) == TRUE

\* untouched: no marker-less conflict is still the version the merge kept, unless --keep names it.
TouchedOrKept(keep) == \A p \in DOMAIN record.kept : tree[p] = record.kept[p] => p \in keep

MarkersLeft == {p \in record.conflicts : tree[p] = "marked"}

Resolve ==
  /\ merge = Idle /\ record.status = "conflicted"
  /\ \E keep \in SUBSET record.conflicts :
       /\ MarkersLeft = {} /\ TouchedOrKept(keep)
       /\ merge' = [at |-> "resolved", plan |-> record.plan]
       /\ acted' = acted \cup keep
  /\ UNCHANGED <<tree, theirs, record, edits, merges, edit, lost, in>>

RecordResolved ==
  /\ merge.at = "resolved" /\ merge' = Idle
  /\ record' = [record EXCEPT !.status = "merged", !.torn = @ \/ merge.plan # record.plan]
  /\ UNCHANGED <<tree, theirs, edits, merges, history>>

MergeDies ==
  /\ merge # Idle /\ merge' = Idle
  /\ UNCHANGED <<tree, theirs, record, edits, merges, history>>

Others == UserEdits \/ Replan \/ RunUnit
Merge ==
  \/ StartMerge \/ ReadFile \/ KeepCopies \/ CheckFile \/ MoveFile \/ FailMerge
  \/ UndoFile \/ MoveBack \/ UndoDone \/ EndFailed \/ Applied \/ RecordMerge
  \/ Resolve \/ RecordResolved \/ MergeDies

MergeNext == Others \/ Merge

MergeSpec == MergeInit /\ [][MergeNext]_mergeVars

-----------------------------------------------------------------------------
(* Properties *)

ResultType == [action: {"same", "write", "delete", "conflict"}, content: Content, theirs: BOOLEAN, current: Content]
DoneType == [path: Path, previous: Content, written: Content]
\* What a unit's record, and a merge, may hold: for some of the files, a version or a result.
RecordType(K) ==
  [plan: 1 .. MaxPlans + 1, status: {"pending", "succeeded", "conflicted", "merged"}, conflicts: SUBSET Path,
   kept: [K -> Content], torn: BOOLEAN]
Merging(R, K) ==
  [at: {"read", "copies", "apply", "move", "undo", "back", "failed", "record"}, plan: 1 .. MaxPlans + 1,
   results: [R -> ResultType], done: Seq(DoneType), left: SUBSET Path,
   next: Path \cup {None}, seen: Content, kept: [K -> Content]]
Resolving == [at: {"resolved"}, plan: 1 .. MaxPlans + 1]

\* Every variable holds what it may.
MergeTypeOK ==
  /\ tree \in [Path -> Content] /\ theirs \subseteq Path
  /\ \E K \in SUBSET Path : record \in RecordType(K)
  /\ merge \in Resolving \cup {Idle} \/ \E R, K \in SUBSET Path : merge \in Merging(R, K)
  /\ edits \in 0 .. MaxEdits /\ merges \in 0 .. MaxMerges
  /\ edit \in [Path -> UserContent \cup {Unedited}] /\ lost \subseteq Path /\ in \subseteq Path /\ acted \subseteq Path

Written(p) == IF Writes(p) THEN merge.results[p].content ELSE Unedited

\* A merge that failed has left every file as it read it, or as the user made it since, or has
\* named it as not put back (units_merge.apply, _undo). Except for an edit made between the last
\* look at a file and the move: it is lost.
FailsWhole ==
  merge.at = "failed" =>
    \A p \in Read \ lost :
      \/ tree[p] = edit[p]
      \/ /\ edit[p] \in {Unedited, merge.results[p].current, Written(p)}
         /\ p \in merge.left \/ tree[p] = merge.results[p].current

\* The unit's version has a copy to be saved: it is a link, or a file that was one before.
CopyOwed(p) == UnitOf[p] = "link" \/ (UnitOf[p] = "unit" /\ BaseOf[p] \notin Unwritten)

\* No change of a unit is dropped in silence: of a unit recorded as merged, each file has taken in
\* what the unit made of it, or the user has edited it since or kept it by name; and of one with
\* conflicts, each has its markers or the unit's version beside it.  No copy is made of what the
\* unit deleted, of a submodule, or of a file it put where a link or a submodule was (_unit_copy,
\* _merge_file), though references/cli.md speaks of one for every such conflict.
\* (A record under a plan that came after the merge began is another unit's: torn.)
UnitNotDropped ==
  ~record.torn =>
    /\ record.status = "merged" => \A p \in Path : p \in in \cup acted
    /\ record.status = "conflicted" =>
         \A p \in record.conflicts : p \in DOMAIN record.kept => p \in theirs \/ ~CopyOwed(p)

=============================================================================
