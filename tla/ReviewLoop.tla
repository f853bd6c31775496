----------------------------- MODULE ReviewLoop -----------------------------
(***************************************************************************)
(* The code review loop: snapshots of the change, rounds of reviewers on   *)
(* them, the consolidated report of a round, triage, and what the report   *)
(* calls for next.                                                         *)
(*                                                                         *)
(* All of it meets in three places on disk: the snapshot under review, one *)
(* report file per reviewer, and the consolidated report.  Commands run    *)
(* beside each other: a round may run in the background for minutes while  *)
(* the user edits, takes another snapshot, consolidates or triages.  Only  *)
(* the consolidated report has a lock; a snapshot is written without one.  *)
(*                                                                         *)
(* The whole-change recheck is on, rounds may narrow to a fix, no reviewer *)
(* is conditional, no --iteration is given, tests pass on every round, and *)
(* HEAD does not move: a base names one commit for good.  The archive of   *)
(* earlier rounds' reports is left out: nothing here reads it.             *)
(***************************************************************************)
EXTENDS Naturals, FiniteSets

CONSTANTS
  Reviewer,   \* the panel
  Finding,    \* findings, by the key triage goes by
  AboveLow,   \* those of medium severity and up, which keep the loop open
  Tree,       \* contents of the working tree
  Base,       \* what a snapshot may be asked against
  NoBase,     \* no base asked for: HEAD
  CommitOf,   \* CommitOf[b]: the commit a base names
  Branch,     \* branches
  MaxRounds,  \* review.max_review_iterations
  Run,        \* processes that carry out review run
  Helper,     \* processes that carry out review consolidate
  Flag,       \* options that may be given: --force, --full (or incremental_rounds off)
  MaxSnapshots, \* bound: snapshots taken
  MaxResets,  \* bound: budget resets, each of which begins another workflow
  None        \* nothing on disk, no stamp, no round

ASSUME ReviewLoopConstantsOK ==
  /\ AboveLow \subseteq Finding
  /\ NoBase \in Base /\ Branch # {} /\ Tree # {}
  /\ Run \cap Helper = {}
  /\ MaxRounds \in Nat \ {0} /\ MaxSnapshots \in Nat /\ MaxResets \in Nat

VARIABLES
  branch,   \* the branch checked out
  workflow, \* the ledger's workflow, as the number of resets before it
  target,   \* the snapshot on disk
  written,  \* each reviewer's report file
  report,   \* the consolidated report
  work,     \* what each process is in the middle of
  said,     \* the findings a reviewer of a snapshot has reported (history)
  read,     \* the snapshots a reviewer has read in full (history)
  owed,     \* a round was handed over as a file and nobody has read the whole since (history)
  counted,  \* the snapshots reviewed since the count of rounds began (history)
  forced,   \* some round was run with --force (history)
  torn,     \* some report was saved over a snapshot or a count it was not begun on (history)
  taken     \* snapshots taken (bound)

world == <<branch, workflow>>
history == <<said, read, owed, counted, forced, torn>>
vars == <<world, target, written, report, work, history, taken>>

Proc == Run \cup Helper
Commit == {CommitOf[b] : b \in Base}
Sha == (Commit \cup Tree) \X Tree
Lineage == (0 .. MaxResets) \X Branch \X Base
Snapshot == [sha: Sha, base: Base, tree: Tree \cup {None},
             scope: {"fix", "whole"}, recheck: BOOLEAN]
Entry == [stamp: Sha \cup {None}, delivery: {"inline", "file", "none"},
          status: {"ok", "partial", "failed"}]
Table == [Reviewer -> Entry \cup {None}]
Triaged == UNION {[F -> {"needs-triage", "accepted", "rejected"}] : F \in SUBSET Finding}
Coverage == [round: {"complete", "unverified", "none"}, change: {"complete", "unverified", "none"},
             since: Nat]
Report == [it: Nat \ {0}, lineage: Lineage, sha: Sha, scope: {"fix", "whole"},
           findings: Triaged, reviewers: Table, coverage: Coverage]
Work == [at: {"idle", "review", "build"}, target: Snapshot \cup {None}, it: Nat, lineage: Lineage,
         delivery: {"inline", "file"}, left: SUBSET Reviewer, entries: Table,
         found: SUBSET Finding, force: BOOLEAN, overtaken: BOOLEAN]

ASSUME NoSnapshotOK == None \notin Snapshot

Idle == [at |-> "idle", target |-> None, it |-> 0, lineage |-> <<0, CHOOSE b \in Branch : TRUE, NoBase>>,
         delivery |-> "inline", left |-> {}, entries |-> [r \in Reviewer |-> None],
         found |-> {}, force |-> FALSE, overtaken |-> FALSE]

Init ==
  /\ branch \in Branch /\ workflow = 0
  /\ target = None /\ report = None
  /\ written = [r \in Reviewer |-> None]
  /\ work = [p \in Proc |-> Idle]
  /\ said = {} /\ read = {} /\ owed = FALSE /\ counted = {} /\ forced = FALSE /\ torn = FALSE
  /\ taken = 0

-----------------------------------------------------------------------------
(* What the snapshot and the report on disk say. *)

\* review_lineage: the workflow, the branch, and the base of the snapshot on disk.
LineageNow == <<workflow, branch, IF target = None THEN NoBase ELSE target.base>>

\* coverage_lineage: a lineage without its base.
Place(lineage) == <<lineage[1], lineage[2]>>

Accepted(rep) == {k \in DOMAIN rep.findings : rep.findings[k] = "accepted"}

\* unresolved_blocking, of everything above Low.
Wanted(rep) == {k \in AboveLow \cap DOMAIN rep.findings : rep.findings[k] # "rejected"}

\* same_base: no base is the same as no base; a name is compared by the commit it names.
SameBase(b) ==
  IF b = NoBase THEN target.base = NoBase ELSE CommitOf[b] = CommitOf[target.base]

\* recheck_next: the report of a fix-only round of this review found nothing above Low.
RecheckNext(b) ==
  /\ report # None /\ report.lineage = LineageNow
  /\ target # None /\ SameBase(b)
  /\ Wanted(report) = {} /\ report.scope = "fix" /\ report.it <= MaxRounds

\* Mutant of Narrows: the snapshot on disk need not be the one the report is about.
NarrowsUnreviewed(b, tree) ==
  /\ target # None /\ target.tree \notin {None, tree} /\ SameBase(b)
  /\ report # None /\ Accepted(report) # {}

\* _reviewed_tree, _revisions: the snapshot on disk was reviewed, on the same base, findings
\* were accepted, and the tree has changed since.
Narrows(b, tree) ==
  /\ target # None /\ target.tree \notin {None, tree} /\ SameBase(b)
  /\ report # None /\ report.sha = target.sha /\ Accepted(report) # {}

\* Mutant of NextIteration: a round that found nothing to fix is not counted.
NextIterationOfFixes(lineage) ==
  IF report = None \/ report.lineage # lineage THEN 1
  ELSE IF report.sha = target.sha \/ Accepted(report) = {} THEN report.it ELSE report.it + 1

\* next_iteration: a new snapshot is a new round, the same snapshot again the same round.
NextIteration(lineage) ==
  IF report = None \/ report.lineage # lineage THEN 1
  ELSE IF report.sha = target.sha THEN report.it ELSE report.it + 1

\* round_cap: one spare round, for the whole-change snapshot the loop asked for.
RoundCap == MaxRounds + (IF target.recheck THEN 1 ELSE 0)

\* Mutant of ReportsRead: a report is read whatever snapshot it is about.
ReportsAll == UNION {IF written[r] = None THEN {} ELSE written[r].findings : r \in Reviewer}

\* read_reports: what the reviewers' files say, but for those of another snapshot.
ReportsRead ==
  UNION {written[r].findings : r \in {q \in Reviewer : written[q] # None /\ written[q].stamp = target.sha}}

-----------------------------------------------------------------------------
(* Building and saving the consolidated report: what one process does under *)
(* its lock, from the snapshot and the report it finds there.               *)

CurrentRuns(table) == {r \in Reviewer : table[r] # None /\ table[r].stamp = target.sha}

RoundCoverage(table) ==
  LET deliveries == {table[r].delivery : r \in CurrentRuns(table)} \ {"none"} IN
  IF "file" \in deliveries THEN "unverified" ELSE IF deliveries # {} THEN "complete" ELSE "none"

\* Mutant of ReadInFull: a fix shown in full counts as the whole change.
ReadFixInFull(table) ==
  /\ RoundCoverage(table) = "complete"
  /\ \E r \in CurrentRuns(table) : table[r].status = "ok"

\* What clears the mark: the whole change in every prompt, and somebody who came back.
ReadInFull(table) ==
  /\ RoundCoverage(table) = "complete" /\ target.scope = "whole"
  /\ \E r \in CurrentRuns(table) : table[r].status = "ok"

\* _carried_unverified: the mark survives a change of base, its round number does not.
CarriedMark(lineage) ==
  report # None /\ Place(report.lineage) = Place(lineage) /\ report.coverage.change = "unverified"
CarriedSince(lineage) ==
  IF report # None /\ report.lineage = lineage THEN report.coverage.since ELSE 0

\* _coverage: of this round, and of the change; since is 0 where there is no number.
CoverageOf(table, it, lineage) ==
  LET round == RoundCoverage(table)
      mark == round = "unverified" \/ (CarriedMark(lineage) /\ ~ReadInFull(table))
      since == CarriedSince(lineage)
  IN [round |-> round,
      change |-> IF mark THEN "unverified" ELSE IF round = "none" THEN "none" ELSE "complete",
      since |-> IF ~mark THEN 0 ELSE IF round = "unverified" /\ since = 0 THEN it ELSE since]

\* Mutant of Carried: decisions are carried only within one review.
CarriedInLineage(found, lineage) ==
  [k \in found |-> IF report # None /\ report.lineage = lineage /\ k \in DOMAIN report.findings
                     THEN report.findings[k] ELSE "needs-triage"]

\* The decisions of the last report, by key, whatever review it was of.
Carried(found, lineage) ==
  [k \in found |-> IF report # None /\ k \in DOMAIN report.findings
                     THEN report.findings[k] ELSE "needs-triage"]

\* consolidation_from
Build(table, found, it, lineage) ==
  [it |-> it, lineage |-> lineage, sha |-> target.sha, scope |-> target.scope,
   findings |-> Carried(found, lineage), reviewers |-> table,
   coverage |-> CoverageOf(table, it, lineage)]

Handed(table) == \E r \in Reviewer : table[r] # None /\ table[r].delivery = "file"

\* The history of a report saved by p after a round on snap, or after none.  It is given up
\* when the report is torn, and keeps what reviewers said and read only of snapshots at hand.
Record(p, rep, snap) ==
  LET w == work[p]
      same == report # None /\ report.lineage = rep.lineage
      place == report # None /\ Place(report.lineage) = Place(rep.lineage)
      hand == {rep.sha} \cup {written[r].stamp : r \in {q \in Reviewer : written[q] # None}}
                \cup {rep.reviewers[r].stamp : r \in {q \in Reviewer : rep.reviewers[q] # None}}
  IN /\ torn' = (torn \/ w.overtaken \/ w.it # NextIteration(w.lineage))
     /\ forced' = (forced \/ w.force)
     /\ counted' = IF torn' \/ forced' THEN {} ELSE (IF same THEN counted ELSE {}) \cup snap
     /\ owed' = (~torn' /\ (Handed(w.entries) \/ (owed /\ place /\ ~(rep.scope = "whole" /\ rep.sha \in read))))
     /\ said' = IF torn' THEN {} ELSE {s \in said : s[1] \in hand}
     /\ read' = IF torn' THEN {} ELSE read \cap hand

-----------------------------------------------------------------------------
(* review snapshot, and what the user does to the tree. *)

Checkout ==
  /\ \E b \in Branch \ {branch} : branch' = b
  /\ UNCHANGED <<workflow, target, written, report, work, history, taken>>

BudgetReset ==
  /\ workflow < MaxResets /\ workflow' = workflow + 1
  /\ UNCHANGED <<branch, target, written, report, work, history, taken>>

\* create_snapshot: full is --full, or review.incremental_rounds off.
TakeSnapshot(b, full, tree) ==
  LET recheck == ~full /\ RecheckNext(b)
      fix == ~full /\ ~recheck /\ Narrows(b, tree)
  IN target' = [base |-> b, recheck |-> recheck,
                sha |-> <<IF fix THEN target.tree ELSE CommitOf[b], tree>>,
                tree |-> IF full THEN None ELSE tree,
                scope |-> IF fix THEN "fix" ELSE "whole"]

ReviewSnapshot ==
  /\ taken < MaxSnapshots /\ taken' = taken + 1
  /\ \E b \in Base, full \in {FALSE} \cup {"--full" \in Flag}, tree \in Tree : TakeSnapshot(b, full, tree)
  /\ work' = [p \in Proc |-> [work[p] EXCEPT !.overtaken = work[p].at # "idle" /\ (@ \/ target' # target)]]
  /\ UNCHANGED <<world, written, report, history>>

-----------------------------------------------------------------------------
(* review run *)

Set(p, w) == work' = [work EXCEPT ![p] = w]

\* The round is decided and its snapshot read; a round past the cap is refused without --force.
\* With --only some of the panel run.  How the change is handed over is the same for all of them.
StartRound(p) ==
  /\ work[p].at = "idle" /\ target # None
  /\ \E only \in (SUBSET Reviewer) \ {{}}, delivery \in {"inline", "file"} :
       /\ NextIteration(LineageNow) <= RoundCap \/ "--force" \in Flag
       /\ Set(p, [Idle EXCEPT !.at = "review", !.target = target, !.it = NextIteration(LineageNow),
                              !.lineage = LineageNow, !.delivery = delivery, !.left = only,
                              !.force = NextIteration(LineageNow) > RoundCap])
  /\ UNCHANGED <<world, target, written, report, history, taken>>

\* What a reviewer's entry may say: it failed before or after it was handed the change, or it
\* came back; one handed a file is partial at best, and a reply nobody can read is a failure.
Outcomes(w) ==
  LET entry(delivery, status) ==
        [stamp |-> IF delivery = "none" THEN None ELSE w.target.sha, delivery |-> delivery, status |-> status]
  IN {entry("none", "failed"), entry(w.delivery, "failed"),
      entry(w.delivery, IF w.delivery = "file" THEN "partial" ELSE "ok")}

\* A reviewer's run ends: its report, if it has one, replaces its last, under the stamp of
\* the snapshot it was handed.
Returns(p, r) ==
  /\ work[p].at = "review" /\ r \in work[p].left
  /\ \E e \in Outcomes(work[p]) :
       /\ Set(p, [work[p] EXCEPT !.left = @ \ {r}, !.entries = [@ EXCEPT ![r] = e]])
       /\ \/ /\ e.status # "failed"
             /\ \E found \in SUBSET Finding :
                  /\ written' = [written EXCEPT ![r] = [stamp |-> e.stamp, findings |-> found]]
                  /\ said' = IF torn THEN {} ELSE said \cup ({e.stamp} \X found)
             /\ read' = IF ~torn /\ e.status = "ok" THEN read \cup {e.stamp} ELSE read
          \/ /\ e.status = "failed" /\ e.delivery # "none"   \* an unreadable reply
             /\ written' = [written EXCEPT ![r] = [stamp |-> e.stamp, findings |-> {}]]
             /\ UNCHANGED <<said, read>>
          \/ /\ e.status = "failed"                          \* no reply
             /\ UNCHANGED <<written, said, read>>
  /\ UNCHANGED <<world, target, report, owed, counted, forced, torn, taken>>

\* _consolidate_round reads the reviewers' reports before it takes the lock...
ReadReports(p) ==
  /\ work[p].at = "review" /\ work[p].left = {}
  /\ Set(p, [work[p] EXCEPT !.at = "build", !.target = None, !.delivery = "inline", !.found = ReportsRead])
  /\ UNCHANGED <<world, target, written, report, history, taken>>

\* ...and under it builds the report from them, the snapshot now on disk and the last report.
\* A reviewer that did not run keeps its entry of the last report.
SaveRound(p) ==
  /\ work[p].at = "build" /\ p \in Run
  /\ LET w == work[p]
         table == [r \in Reviewer |-> IF w.entries[r] # None THEN w.entries[r]
                                      ELSE IF report # None THEN report.reviewers[r] ELSE None]
         rep == Build(table, w.found, w.it, w.lineage)
     IN report' = rep /\ Record(p, rep, {rep.sha})
  /\ Set(p, Idle)
  /\ UNCHANGED <<world, target, written, taken>>

\* The command is killed, and its round has no report.
Dies(p) ==
  /\ work[p].at # "idle"
  /\ Set(p, Idle)
  /\ UNCHANGED <<world, target, written, report, history, taken>>

-----------------------------------------------------------------------------
(* review consolidate and review triage *)

\* It reads which round it would be and the reviewers' reports before it takes the lock...
StartConsolidate(p) ==
  /\ work[p].at = "idle" /\ target # None
  /\ Set(p, [Idle EXCEPT !.at = "build", !.it = NextIteration(LineageNow), !.lineage = LineageNow,
                         !.found = ReportsRead])
  /\ UNCHANGED <<world, target, written, report, history, taken>>

\* ...and builds the report, with the last one's table of reviewers and its round, under it.
SaveConsolidation(p) ==
  /\ work[p].at = "build" /\ p \in Helper
  /\ LET table == IF report # None THEN report.reviewers ELSE [r \in Reviewer |-> None]
         rep == Build(table, work[p].found, work[p].it, work[p].lineage)
     IN report' = rep /\ Record(p, rep, {})
  /\ Set(p, Idle)
  /\ UNCHANGED <<world, target, written, taken>>

Triage(k, status) ==
  /\ report # None /\ k \in DOMAIN report.findings
  /\ report' = [report EXCEPT !.findings[k] = status]
  /\ UNCHANGED <<world, target, written, work, history, taken>>

Next ==
  \/ Checkout \/ BudgetReset \/ ReviewSnapshot
  \/ \E p \in Run : \/ StartRound(p) \/ ReadReports(p) \/ SaveRound(p)
                    \/ \E r \in Reviewer : Returns(p, r)
  \/ \E p \in Helper : StartConsolidate(p) \/ SaveConsolidation(p)
  \/ \E p \in Proc : Dies(p)
  \/ \E k \in Finding, status \in {"needs-triage", "accepted", "rejected"} : Triage(k, status)

Spec == Init /\ [][Next]_vars

-----------------------------------------------------------------------------
\* What is on disk and in each process has its type; the number of a report's round starts at one.
TypeOK ==
  /\ branch \in Branch /\ workflow \in 0 .. MaxResets
  /\ target \in Snapshot \cup {None}
  /\ report \in Report \cup {None}
  /\ written \in [Reviewer -> [stamp: Sha, findings: SUBSET Finding] \cup {None}]
  /\ work \in [Proc -> Work]
  /\ said \subseteq Sha \X Finding /\ read \subseteq Sha /\ counted \subseteq Sha
  /\ owed \in BOOLEAN /\ forced \in BOOLEAN /\ torn \in BOOLEAN /\ taken \in 0 .. MaxSnapshots

\* However often the user snapshots, consolidates, resets or changes the base, one count of
\* rounds pays for no more snapshots than the limit and the spare round, unless somebody
\* forced one (next_iteration, round_cap, _refuse_if_rounds_spent).
RoundsBounded == ~forced /\ ~torn => Cardinality(counted) <= MaxRounds + 1

\* A report lists only what some reviewer said of the very snapshot the report is about
\* (read_reports, build_consolidation).
FindingsOfThisSnapshot == report # None /\ ~torn => {report.sha} \X DOMAIN report.findings \subseteq said

\* The change is not called complete while a round of it was handed over as a file and nobody
\* has read the whole of it since: fixes, consolidations and failed rounds do not launder it
\* (_coverage).
MarkNotLaundered == report # None /\ ~torn /\ owed => report.coverage.change = "unverified"

\* A snapshot narrows to a fix only from a tree a reviewer reported findings on: nothing that
\* nobody looked at falls between two snapshots (_reviewed_tree).
NothingSkipped ==
  [][target' # target /\ target'.scope = "fix" /\ ~torn =>
       \E s \in said : s[1][2] = target'.sha[1]]_vars

\* A finding that stays in the report keeps its decision, unless a triage changes it: a round or
\* a consolidation begun before the triage does not undo it (update_consolidation).
DecisionsKept ==
  [][report # None /\ report' # report =>
       \/ \E k \in Finding, status \in {"accepted", "rejected", "needs-triage"} : Triage(k, status)
       \/ \A k \in DOMAIN report.findings \cap DOMAIN report'.findings :
            report'.findings[k] = report.findings[k]]_vars

=============================================================================
