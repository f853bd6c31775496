------------------------------ MODULE Conduct ------------------------------
(***************************************************************************)
(* How one code review is conducted: the orchestrator takes snapshots,     *)
(* runs rounds, triages, has findings fixed and records tests, and asks    *)
(* `status` and `review status` what to do next.  What they answer is      *)
(* computed from the run log, the report and the snapshot on disk, as the  *)
(* commands themselves decide whether to go on.                            *)
(*                                                                         *)
(* One command at a time: what commands do to each other is ReviewLoop's.  *)
(* One base, one branch and one workflow; rounds narrow to a fix; no       *)
(* --force and no --iteration.  A time is a position in the log.  A        *)
(* reviewer that ran and left nothing readable keeps its earlier report.   *)
(* The design review, the runtime budget and stalls are not in it.         *)
(***************************************************************************)
EXTENDS Panel, Sequences

CONSTANTS
  Setups,    \* panel, level, review.start_before_tests, review.whole_change_recheck, whether
             \* the orchestrator does as it is advised, what a snapshot may turn out to be as
             \* the panel's policy sees it, and whether it may be over review.context.max_chars
  Finding,   \* findings, by the key triage goes by
  AboveLow,  \* those of medium severity and up
  MaxRounds, \* review.max_review_iterations
  Attempts,  \* budgets.review_fixer
  MaxTree,   \* bound: edits
  MaxLog,    \* bound: events, where the orchestrator does as it likes
  None

ASSUME ConductConstantsOK ==
  /\ \A c \in Setups :
       /\ c.panel \in [Seat -> Reviewer] /\ c.level \in Level
       /\ \E s \in Seat : c.panel[s].when = "always"   \* config validate
       /\ {c.alongside, c.recheck, c.guided} \subseteq BOOLEAN
       /\ c.changes \subseteq Change /\ c.sized \subseteq BOOLEAN
  /\ AboveLow \subseteq Finding
  /\ {MaxRounds, Attempts} \subseteq Nat \ {0} /\ {MaxTree, MaxLog} \subseteq Nat

VARIABLES
  setup,     \* the settings, which stay as they are
  tree,      \* the working tree
  log,       \* the run log
  snap,      \* the snapshot on disk
  report,    \* the consolidated report
  fixes,     \* attempts of the fixer so far
  repeats,   \* the review's signature and how often in a row it came
  over       \* the orchestrator was told to stop, or is through

vars == <<setup, tree, log, snap, report, fixes, repeats, over>>

Status == {"needs-triage", "accepted", "rejected"}
Event == [stage: {"review", "review_fixer", "test"}, ok: BOOLEAN, by: {"none", "gate", "context"},
          tree: (0 .. MaxTree) \cup {None}]
Snapshot == [from: (0 .. MaxTree) \cup {None}, tree: 0 .. MaxTree, recheck: BOOLEAN,
             change: Change, over: BOOLEAN, taken: Nat]
ASSUME NoSnapshotOK == None \notin Snapshot
Report == [it: Nat \ {0}, snap: Snapshot, findings: UNION {[F -> Status] : F \in SUBSET Finding},
           by: [Finding -> SUBSET Seat], ran: SUBSET Seat, back: SUBSET Seat]

Init ==
  /\ setup \in Setups
  /\ tree = 0 /\ log = <<>> /\ snap = None /\ report = None /\ fixes = 0
  /\ repeats = [value |-> {}, count |-> 0]
  /\ over = FALSE

-----------------------------------------------------------------------------
(* What the run log says. *)

Last(S) == CHOOSE i \in S : \A j \in S : j <= i
Of(stage) == {i \in DOMAIN log : log[i].stage = stage}

\* A round that put the change in front of somebody; refused and abandoned ones did not.
Reviewed == {i \in Of("review") : log[i].ok}
LastReviewed == IF Reviewed = {} THEN 0 ELSE Last(Reviewed)

\* The size refusal nobody has reviewed anything since.
ContextRefusal == \E i \in Of("review") : i > LastReviewed /\ log[i].by = "context"

\* _ran_since_last_round: the fixer answered since the last round, and a test came after it.
FixesSince == {i \in Of("review_fixer") : i > LastReviewed /\ log[i].ok}
FixedSince == FixesSince # {}
RetestedSince == FixedSince /\ \E i \in Of("test") : i > Last(FixesSince)

\* last_status
LastTest == IF Of("test") = {} THEN "" ELSE IF log[Last(Of("test"))].ok THEN "ok" ELSE "failed"

\* _last_on: of the results since, and the newest before, the newest on that tree.
LastOn(t, since) ==
  LET kept == {i \in Of("test") : log[i].tree # None}
      before == {i \in kept : i <= since}
      seen == {i \in kept : i > since} \cup (IF before = {} THEN {} ELSE {Last(before)})
      on == {i \in seen : log[i].tree = t}
  IN IF on = {} THEN "" ELSE IF log[Last(on)].ok THEN "ok" ELSE "failed"

\* round_verdict
TestsOn(rep) ==
  LET last == LastOn(rep.snap.tree, rep.snap.taken) IN
  IF last = "ok" THEN "usable" ELSE IF last = "failed" THEN "failed"
  ELSE IF \E i \in Of("test") : i > rep.snap.taken THEN "changed" ELSE "pending"

RoundTests == IF setup.alongside /\ report # None THEN TestsOn(report) ELSE "usable"
Held == RoundTests # "usable"
ThrownAway == RoundTests \in {"failed", "changed"}

-----------------------------------------------------------------------------
(* What the report calls for. *)

Sha(s) == <<s.from, s.tree>>
Scope(s) == IF s.from = None THEN "whole" ELSE "fix"
With(status) == IF report = None THEN {} ELSE {f \in DOMAIN report.findings : report.findings[f] = status}
Accepted == With("accepted")

\* decide: the findings that keep the loop open, the round called for, whether the next snapshot
\* takes the whole change for the loop, whether a round is left, and whether the review is through.
Decision ==
  LET wanted == AboveLow \cap (Accepted \cup With("needs-triage"))
      it == IF report = None THEN 0 ELSE report.it
      scope == IF report = None THEN "none" ELSE Scope(report.snap)
      clean == setup.recheck /\ wanted = {}
      spare == clean /\ scope = "fix" /\ it <= MaxRounds
  IN [wanted |-> wanted,
      left |-> IF clean /\ scope = "fix" THEN spare ELSE it < MaxRounds,
      recheck |-> spare,
      finish |-> clean /\ scope = "whole",
      next |-> IF ~setup.recheck \/ report = None THEN "none"
               ELSE IF wanted # {} /\ it < MaxRounds THEN (IF Accepted # {} THEN "fix" ELSE "whole")
               ELSE IF spare THEN "whole" ELSE "none"]

Recommended == LET d == Decision IN (d.wanted # {} \/ d.recheck) /\ d.left

\* _code_final_pass, as status asks it: a round still held closes nothing.
FinalFix ==
  LET d == Decision
      finish == d.finish /\ ~Held
      owed == IF finish THEN Accepted # {} ELSE d.wanted # {} /\ ~d.left /\ ~Held
  IN IF ~owed THEN "none"
     ELSE IF FixedSince THEN (IF RetestedSince THEN "done" ELSE "retest")
     ELSE IF Accepted = {} THEN "unaccepted"
     ELSE IF fixes = Attempts THEN "blocked" ELSE "pending"

-----------------------------------------------------------------------------
(* review snapshot and review run, up to their refusals. *)

\* create_snapshot and what cmd_review_snapshot asks first: a thrown away round is not narrowed
\* from, the loop's whole-change round is, and otherwise accepted findings narrow to their fix.
NextSnapshot(full, t) ==
  LET narrow == ~full /\ ~ThrownAway
      recheck == narrow /\ snap # None /\ Decision.recheck
      fix == /\ narrow /\ ~recheck /\ snap # None /\ report # None
             /\ Sha(report.snap) = Sha(snap) /\ Accepted # {} /\ snap.tree # t
  IN [from |-> IF fix THEN snap.tree ELSE None, tree |-> t, recheck |-> recheck]

\* Mutant of Cap: no round to spare.
CapAsSet(s) == MaxRounds

\* next_iteration, and round_cap with its spare round.
Iteration(s) == IF report = None THEN 1 ELSE IF Sha(report.snap) = Sha(s) THEN report.it ELSE report.it + 1
Cap(s) == MaxRounds + (IF setup.recheck /\ s.recheck THEN 1 ELSE 0)
RoundsSpent(s) == Iteration(s) > Cap(s)

\* Mutant of Carried: a rerun of the same snapshot carries nothing.
CarriedToFix(s) == IF s.from = None THEN {} ELSE UNION {report.by[f] : f \in Accepted}

\* carried_findings: of the live report, on a fix or on the snapshot it was built for.
Carried(s) ==
  IF report = None \/ (s.from = None /\ Sha(report.snap) # Sha(s)) THEN {}
  ELSE UNION {report.by[f] : f \in Accepted}

\* round_plan's gate: alongside the tests, the last result on the snapshot's own tree.
TestStatus(s) ==
  IF ~setup.alongside THEN LastTest ELSE IF s = None THEN "" ELSE LastOn(s.tree, s.taken)
GateOf(s) ==
  Gate(setup.level, IF s = None THEN [risky |-> FALSE] ELSE s.change, TestStatus(s))

Ask(s, only, named, declared) ==
  [declared |-> declared, only |-> only, named |-> named, carried |-> Carried(s)]

-----------------------------------------------------------------------------
(* status: continue, or stop and report. *)

Reasons ==
  LET final == FinalFix IN
  {r \in {"size", "review", "repeat", "fixer", "tests"} :
     CASE r = "size" -> ContextRefusal
       [] r = "review" -> final \in {"done", "blocked", "unaccepted"}
       [] r = "repeat" -> repeats.count > 1 /\ final \notin {"pending", "retest"}
       [] r = "fixer" -> fixes = Attempts /\ final \notin {"retest", "done"}
       [] r = "tests" -> GateOf(snap) = "refuse"}

\* What an orchestrator does that follows status, review status and the workflow's order of
\* stages: a round that may be used is triaged first, and a round is run on a tree whose tests
\* are recorded, or beside them.
TestedNow == \E i \in Of("test") : log[i].tree = tree /\ \A j \in Of("review_fixer") : j < i
ToReview ==
  IF \/ snap = None \/ snap.tree # tree
     \/ report # None /\ Sha(report.snap) = Sha(snap) /\ Sha(NextSnapshot(FALSE, tree)) # Sha(snap)
    THEN (IF setup.alongside \/ TestedNow THEN "snapshot" ELSE "test")
    ELSE "review"
Advice ==
  LET tests == RoundTests
      final == FinalFix
  IN
  IF report # None /\ ~Held /\ With("needs-triage") # {} THEN "triage"
  ELSE IF Reasons # {} THEN "stop"
  ELSE IF report = None THEN ToReview
  ELSE IF tests = "pending" THEN "test"
  ELSE IF tests = "failed" /\ tree = report.snap.tree THEN "edit"
  ELSE IF ThrownAway THEN ToReview
  ELSE IF final = "pending" THEN "fix"
  ELSE IF final = "retest" THEN "test"
  ELSE IF Recommended THEN (IF Accepted # {} /\ ~FixedSince THEN "fix" ELSE ToReview)
  ELSE "stop"

-----------------------------------------------------------------------------
(* The commands. *)

Log(stage, ok, by, t) == log' = Append(log, [stage |-> stage, ok |-> ok, by |-> by, tree |-> t])

TakeSnapshot ==
  /\ \E full \in (IF setup.guided THEN {FALSE} ELSE BOOLEAN), ch \in setup.changes, big \in setup.sized :
       LET next == NextSnapshot(full, tree)
           same(s) == s # None /\ Sha(s) = Sha(next)
           new == [from |-> next.from, tree |-> tree, recheck |-> next.recheck,
                   change |-> ch, over |-> big, taken |-> Len(log)]
       IN /\ same(snap) => ch = snap.change /\ big = snap.over
          /\ report # None /\ same(report.snap) => ch = report.snap.change /\ big = report.snap.over
          /\ snap' = new
  /\ UNCHANGED <<setup, tree, log, report, fixes, repeats, over>>

\* A round past the cap is refused and leaves no trace; an orchestrator told so reports.
RunRefused ==
  /\ snap # None /\ RoundsSpent(snap)
  /\ setup.guided /\ over' = TRUE
  /\ UNCHANGED <<setup, tree, log, snap, report, fixes, repeats>>

\* Mutant of RunGated: a change over the size limit is refused with no word in the log.
RunGatedSilently ==
  /\ snap # None /\ ~RoundsSpent(snap)
  /\ IF GateOf(snap) = "refuse" THEN Log("review", FALSE, "gate", None) ELSE snap.over /\ UNCHANGED log
  /\ UNCHANGED <<setup, tree, snap, report, fixes, repeats, over>>

\* A round on failing tests, or over the size limit, is refused and says so in the log.
RunGated ==
  /\ snap # None /\ ~RoundsSpent(snap)
  /\ IF GateOf(snap) = "refuse" THEN Log("review", FALSE, "gate", None)
     ELSE snap.over /\ Log("review", FALSE, "context", None)
  /\ UNCHANGED <<setup, tree, snap, report, fixes, repeats, over>>

\* The round is killed: status clears it from the ledger and notes that in the log.
RunDies ==
  /\ ~setup.guided /\ snap # None /\ ~RoundsSpent(snap)
  /\ GateOf(snap) # "refuse" /\ ~snap.over
  /\ Log("review", FALSE, "none", None)
  /\ UNCHANGED <<setup, tree, snap, report, fixes, repeats, over>>

\* read_reports: who came back this time says what it says; a report on this very snapshot
\* stands, unless this round leaves its reviewer out.
Stands(ask) ==
  IF report # None /\ Sha(report.snap) = Sha(snap)
    THEN report.back \ Excluded(setup.panel, snap.change, ask) ELSE {}

\* register_signature: finding nothing twice is no repeat where the loop closes on it.
Registered(sig) ==
  IF sig = repeats.value /\ repeats.count > 0 /\ ~(setup.recheck /\ sig = {})
    THEN [repeats EXCEPT !.count = @ + 1] ELSE [value |-> sig, count |-> 1]

\* The report of the round: of who came back of it, what they say; of the rest, what stands.  A
\* finding keeps its decision.
RoundReport(ask, back, says) ==
  LET old == Stands(ask) \ back
      by == [f \in Finding |-> says[f] \cup (IF old = {} THEN {} ELSE old \cap report.by[f])]
      decided == IF report = None THEN {} ELSE DOMAIN report.findings
  IN [it |-> Iteration(snap), snap |-> snap, by |-> by, ran |-> back, back |-> old \cup back,
      findings |-> [f \in {g \in Finding : by[g] # {}} |->
                      IF f \in decided THEN report.findings[f] ELSE "needs-triage"]]

\* The panel runs: some come back, some fail, and some fail before they are shown anything.
ReviewRun ==
  /\ snap # None /\ ~RoundsSpent(snap)
  /\ GateOf(snap) # "refuse" /\ ~snap.over
  /\ \E named \in (IF setup.guided THEN {{}} ELSE SUBSET Seat), declared \in (IF setup.guided THEN {FALSE} ELSE BOOLEAN) :
     LET ask == Ask(snap, named # {}, named, declared)
     IN \E back \in SUBSET Sits(setup.panel, setup.level, snap.change, ask), invoked \in BOOLEAN :
        /\ back # {} => invoked
        /\ \E says \in [Finding -> SUBSET back] : report' = RoundReport(ask, back, says)
        /\ repeats' = Registered({f \in DOMAIN report'.findings : report'.findings[f] # "rejected"})
        /\ Log("review", invoked, "none", None)
  /\ UNCHANGED <<setup, tree, snap, fixes, over>>

\* A finding of a round whose tests have not passed on its tree is not accepted.
Triage ==
  /\ report # None
  /\ \E f \in DOMAIN report.findings, status \in Status \ {"needs-triage"} :
       /\ setup.guided => report.findings[f] = "needs-triage"
       /\ report.findings[f] # status
       /\ status = "accepted" => ~Held
       /\ report' = [report EXCEPT !.findings[f] = status]
  /\ UNCHANGED <<setup, tree, log, snap, fixes, repeats, over>>

\* The fixer gets the brief of a round that may be used, while it has attempts; it may fail, or
\* find nothing to change.
Fix ==
  /\ report # None /\ Accepted # {} /\ ~Held /\ fixes < Attempts
  /\ fixes' = fixes + 1
  /\ \E ok \in BOOLEAN : Log("review_fixer", ok, "none", None)
  /\ tree' \in {tree} \cup {t \in 0 .. MaxTree : t = tree + 1}
  /\ UNCHANGED <<setup, snap, report, repeats, over>>

\* state record test: the result goes with the tree only beside a round.
RecordTest ==
  /\ \E ok \in BOOLEAN : Log("test", ok, "none", tree)
  /\ UNCHANGED <<setup, tree, snap, report, fixes, repeats, over>>

Edit ==
  /\ tree < MaxTree /\ tree' = tree + 1
  /\ UNCHANGED <<setup, log, snap, report, fixes, repeats, over>>

\* Told to stop, or with nothing left to do, the orchestrator reports.
Conclude ==
  /\ over' = TRUE
  /\ UNCHANGED <<setup, tree, log, snap, report, fixes, repeats>>

\* The orchestrator does what it is told, or what it likes within the bound.
Will == IF setup.guided THEN {Advice}
        ELSE IF Len(log) < MaxLog THEN {"snapshot", "review", "triage", "fix", "test", "edit"} ELSE {}

Next ==
  /\ ~over
  /\ \E what \in Will :
       \/ what = "snapshot" /\ TakeSnapshot
       \/ what = "review" /\ (RunRefused \/ RunGated \/ RunDies \/ ReviewRun)
       \/ what = "triage" /\ Triage
       \/ what = "fix" /\ Fix
       \/ what = "test" /\ RecordTest
       \/ what = "edit" /\ Edit
       \/ what = "stop" /\ Conclude

Spec == Init /\ [][Next]_vars
FairSpec == Spec /\ WF_vars(setup.guided /\ Next)

-----------------------------------------------------------------------------
\* The log, the snapshot and the report have their types.
TypeOK ==
  /\ setup \in Setups /\ tree \in 0 .. MaxTree /\ log \in Seq(Event)
  /\ snap \in Snapshot \cup {None} /\ report \in Report \cup {None}
  /\ fixes \in 0 .. Attempts /\ over \in BOOLEAN
  /\ repeats \in [value: SUBSET Finding, count: Nat]

\* A round that is recommended is not refused: whatever the tree is by then, the snapshot taken
\* for it and the round on it fit in the rounds there are ("cannot disagree about the same
\* report", review_loop).  A round thrown away by its tests is left out: there the spare round
\* is recommended and then refused.
RecommendedRuns ==
  Recommended /\ ~ThrownAway =>
    \A t \in 0 .. MaxTree : ~RoundsSpent(NextSnapshot(FALSE, t))

\* A rerun of a snapshot does not drop an accepted finding unfixed: it stays in the report until
\* everybody who reported it has looked again (carried_findings).
AcceptedStays ==
  [][report # None /\ report' # report /\ Sha(report'.snap) = Sha(report.snap) =>
       \A f \in Accepted : f \in DOMAIN report'.findings \/ report.by[f] \subseteq report'.ran]_vars

\* A round shows the change to somebody, and one that touches a high-risk path to everybody but
\* the seats that go by paths of their own, whatever the level is set to and however small it is.
PanelSits ==
  snap # None =>
    LET sits == Sits(setup.panel, setup.level, snap.change, Ask(snap, FALSE, {}, FALSE)) IN
    /\ sits # {}
    /\ snap.change.risky => \A s \in Seat : setup.panel[s].when # "paths" => s \in sits

\* An orchestrator that does as it is told comes to an end: it reports.
Concludes == setup.guided ~> over
=============================================================================
