-------------------------- MODULE ReviewLoopProofs --------------------------
(***************************************************************************)
(* Proofs about ReviewLoop, for any panel, findings, trees, bases and      *)
(* branches, any number of commands beside each other, and any order of    *)
(* snapshots, rounds, consolidations, triage, resets and deaths.           *)
(***************************************************************************)
EXTENDS ReviewLoop, FiniteSetTheorems, TLAPS

-----------------------------------------------------------------------------
(* The inductive invariant. *)

\* What a process is in the middle of: there is a snapshot, a round has a number and is within
\* the cap unless forced, and a consolidation runs no reviewer.
Started(p) ==
  LET w == work[p] IN
  /\ w.at # "idle" => target # None /\ w.it # 0
  /\ w.at = "review" => p \in Run /\ w.target # None
  /\ p \in Helper => \A r \in Reviewer : w.entries[r] = None
  /\ p \in Run /\ w.at # "idle" /\ ~w.force => w.it <= MaxRounds + 1

\* An entry that says its reviewer was handed a file, or came back having read it all.
Telling(e) == e # None /\ (e.delivery = "file" \/ e.status = "ok")

\* As long as no other snapshot was taken, what a process has is about the one on disk.
Current(p) ==
  LET w == work[p] IN
  w.at # "idle" /\ ~w.overtaken =>
    /\ w.at = "review" => w.target = target
    /\ \A r \in Reviewer : Telling(w.entries[r]) => w.entries[r].stamp = target.sha
    /\ ~torn => \A r \in Reviewer : w.entries[r] # None /\ w.entries[r].status = "ok"
                                      => w.entries[r].stamp \in read
    /\ ~torn /\ w.at = "build" => {target.sha} \X w.found \subseteq said

\* A snapshot that names its tree is a diff up to it.
TreeFits == target # None /\ target.tree # None => target.sha[2] = target.tree

\* The reviewers' files and the report hold what was said, of the snapshot they name.
WrittenSaid == ~torn => \A r \in Reviewer :
  written[r] # None => {written[r].stamp} \X written[r].findings \subseteq said
ReportSaid == ~torn /\ report # None => {report.sha} \X DOMAIN report.findings \subseteq said

\* Whose entry says it read all of a snapshot has, and a handed-over change keeps its mark.
ReportRead == ~torn /\ report # None => \A r \in Reviewer :
  report.reviewers[r] # None /\ report.reviewers[r].status = "ok" => report.reviewers[r].stamp \in read
MarkKept == ~torn /\ report # None /\ owed => report.coverage.change = "unverified"

\* The rounds counted, that of the report included, are no more than its number.
CountFits == ~torn /\ ~forced =>
  /\ IsFiniteSet(counted) /\ Cardinality(counted) <= MaxRounds + 1
  /\ report # None => Cardinality(counted \cup {report.sha}) <= report.it

Working == \A p \in Proc : Started(p) /\ Current(p)
Saved == TreeFits /\ WrittenSaid /\ ReportSaid /\ ReportRead /\ MarkKept /\ CountFits
RInv == TypeOK /\ Working /\ Saved

-----------------------------------------------------------------------------
(* Types of what the operators give. *)

\* A process that does nothing has a work of its type.
LEMMA IdleType == Idle \in Work /\ Idle.at = "idle" /\ Idle.it = 0 /\ ~Idle.force /\ ~Idle.overtaken
                  /\ Idle.entries = [r \in Reviewer |-> None] /\ Idle.target = None /\ Idle.found = {}
<1>1. (CHOOSE b \in Branch : TRUE) \in Branch
  BY ReviewLoopConstantsOK
<1>2. <<0, CHOOSE b \in Branch : TRUE, NoBase>> \in Lineage
  BY <1>1, ReviewLoopConstantsOK DEF Lineage
<1>3. [r \in Reviewer |-> None] \in Table
  BY DEF Table
<1> QED
  BY <1>2, <1>3 DEF Idle, Work

\* A process's work is set, and no other's changes.
LEMMA SetType ==
  ASSUME work \in [Proc -> Work], NEW p \in Proc, NEW w \in Work, Set(p, w)
  PROVE /\ work' \in [Proc -> Work] /\ work'[p] = w
        /\ \A q \in Proc : q # p => work'[q] = work[q]
BY DEF Set

\* The lineage and the number of the next round.
LEMMA RoundType ==
  ASSUME TypeOK, target # None
  PROVE /\ LineageNow \in Lineage
        /\ \A lineage \in Lineage : NextIteration(lineage) \in Nat \ {0}
        /\ RoundCap \in Nat /\ RoundCap <= MaxRounds + 1
<1>1. target \in Snapshot /\ (report # None => report \in Report)
  BY DEF TypeOK
<1>2. LineageNow \in Lineage
  BY <1>1 DEF TypeOK, LineageNow, Lineage, Snapshot
<1>3. report # None => report.it \in Nat \ {0}
  BY <1>1 DEF Report
<1>4. \A lineage \in Lineage : NextIteration(lineage) \in Nat \ {0}
  BY <1>3 DEF NextIteration
<1>5. RoundCap \in Nat /\ RoundCap <= MaxRounds + 1
  BY ReviewLoopConstantsOK DEF RoundCap
<1> QED
  BY <1>2, <1>4, <1>5

\* The reports that are read list findings.
LEMMA ReadType == ASSUME TypeOK PROVE ReportsRead \in SUBSET Finding
BY DEF TypeOK, ReportsRead

\* The coverage of a round and of the change.
LEMMA CoverageType ==
  ASSUME TypeOK, NEW table \in Table, NEW it \in Nat, NEW lineage \in Lineage
  PROVE CoverageOf(table, it, lineage) \in Coverage
<1>1. RoundCoverage(table) \in {"complete", "unverified", "none"}
  BY DEF RoundCoverage
<1>2. CarriedSince(lineage) \in Nat
  <2>1. report # None => report.coverage \in Coverage
    BY DEF TypeOK, Report
  <2> QED
    BY <2>1 DEF CarriedSince, Coverage
<1> QED
  BY <1>1, <1>2 DEF CoverageOf, Coverage

\* The decisions of the last report are decisions.
LEMMA CarriedType ==
  ASSUME TypeOK, NEW found \in SUBSET Finding, NEW lineage
  PROVE /\ Carried(found, lineage) \in Triaged
        /\ DOMAIN Carried(found, lineage) = found
<1>1. report # None => report.findings \in Triaged
  BY DEF TypeOK, Report
<1>2. report # None => \A k \in DOMAIN report.findings :
                         report.findings[k] \in {"needs-triage", "accepted", "rejected"}
  BY <1>1 DEF Triaged
<1>3. Carried(found, lineage) \in [found -> {"needs-triage", "accepted", "rejected"}]
  BY <1>2 DEF Carried
<1> QED
  BY <1>3 DEF Triaged

\* A report that is built is a report, on the snapshot at hand, of what was found.
LEMMA BuildType ==
  ASSUME TypeOK, target # None, NEW table \in Table, NEW found \in SUBSET Finding,
         NEW it \in Nat \ {0}, NEW lineage \in Lineage
  PROVE LET rep == Build(table, found, it, lineage) IN
        /\ rep \in Report /\ rep.sha = target.sha /\ rep.scope = target.scope
        /\ rep.it = it /\ rep.lineage = lineage /\ rep.reviewers = table
        /\ DOMAIN rep.findings = found
        /\ rep.coverage = CoverageOf(table, it, lineage)
<1>1. target.sha \in Sha /\ target.scope \in {"fix", "whole"}
  BY DEF TypeOK, Snapshot
<1>2. CoverageOf(table, it, lineage) \in Coverage
  BY CoverageType
<1> QED
  BY <1>1, <1>2, CarriedType DEF Build, Report

-----------------------------------------------------------------------------
(* Type correctness. *)

\* The initial state.
LEMMA InitType == Init => TypeOK
<1> SUFFICES ASSUME Init PROVE TypeOK
  OBVIOUS
<1>1. workflow \in 0 .. MaxResets /\ taken \in 0 .. MaxSnapshots
  BY ReviewLoopConstantsOK DEF Init
<1>2. work \in [Proc -> Work] /\ written \in [Reviewer -> [stamp: Sha, findings: SUBSET Finding] \cup {None}]
  BY IdleType DEF Init
<1>3. said \subseteq Sha \X Finding /\ read \subseteq Sha /\ counted \subseteq Sha
  BY DEF Init
<1> QED
  BY <1>1, <1>2, <1>3 DEF Init, TypeOK

\* What a reviewer's entry may say is an entry.
LEMMA OutcomesType ==
  ASSUME NEW w \in Work, w.target \in Snapshot, NEW e \in Outcomes(w)
  PROVE /\ e \in Entry /\ e.stamp \in {None, w.target.sha}
        /\ e.delivery # "none" => e.stamp = w.target.sha
        /\ e.status # "failed" => e.delivery # "none" /\ e.stamp = w.target.sha
        /\ e.delivery = "file" => e.status # "ok"
BY DEF Outcomes, Work, Snapshot, Entry

\* Taking a snapshot.
LEMMA SnapshotType == ASSUME TypeOK, ReviewSnapshot PROVE TypeOK' /\ target' \in Snapshot
<1>1. PICK b \in Base, full \in {FALSE} \cup {"--full" \in Flag}, tree \in Tree : TakeSnapshot(b, full, tree)
  BY DEF ReviewSnapshot
<1>2. CommitOf[b] \in Commit
  BY DEF Commit
<1>3. Narrows(b, tree) => target.tree \in Tree
  BY DEF Narrows, TypeOK, Snapshot
<1>4. target' \in Snapshot
  BY <1>1, <1>2, <1>3 DEF TakeSnapshot, Snapshot, Sha
<1>5. work' \in [Proc -> Work]
  <2> SUFFICES ASSUME NEW p \in Proc
               PROVE [work[p] EXCEPT !.overtaken = work[p].at # "idle" /\ (@ \/ target' # target)] \in Work
    BY DEF ReviewSnapshot
  <2>1. work[p] \in Work
    BY DEF TypeOK
  <2> QED
    BY <2>1 DEF Work
<1>6. taken' \in 0 .. MaxSnapshots
  BY ReviewLoopConstantsOK DEF ReviewSnapshot, TypeOK
<1> QED
  BY <1>4, <1>5, <1>6 DEF ReviewSnapshot, TypeOK, world, history

\* A reviewer comes back.
LEMMA ReturnsType == ASSUME TypeOK, NEW p \in Run, NEW r \in Reviewer, Returns(p, r),
                            work[p].target \in Snapshot
                     PROVE TypeOK'
<1>1. p \in Proc /\ work[p] \in Work
  BY DEF TypeOK, Proc
<1>2. PICK e \in Outcomes(work[p]) :
        /\ Set(p, [work[p] EXCEPT !.left = @ \ {r}, !.entries = [@ EXCEPT ![r] = e]])
        /\ \/ /\ e.status # "failed"
              /\ \E found \in SUBSET Finding :
                   /\ written' = [written EXCEPT ![r] = [stamp |-> e.stamp, findings |-> found]]
                   /\ said' = IF torn THEN {} ELSE said \cup ({e.stamp} \X found)
              /\ read' = IF ~torn /\ e.status = "ok" THEN read \cup {e.stamp} ELSE read
           \/ /\ e.status = "failed" /\ e.delivery # "none"
              /\ written' = [written EXCEPT ![r] = [stamp |-> e.stamp, findings |-> {}]]
              /\ UNCHANGED <<said, read>>
           \/ /\ e.status = "failed"
              /\ UNCHANGED <<written, said, read>>
  BY DEF Returns
<1>3. e \in Entry /\ (e.delivery # "none" => e.stamp \in Sha) /\ (e.status # "failed" => e.stamp \in Sha)
  BY <1>1, <1>2, OutcomesType DEF Snapshot
<1>4. [work[p] EXCEPT !.left = @ \ {r}, !.entries = [@ EXCEPT ![r] = e]] \in Work
  BY <1>1, <1>3 DEF Work, Table
<1>5. work' \in [Proc -> Work]
  BY <1>1, <1>2, <1>4, SetType DEF TypeOK
<1>6. /\ written' \in [Reviewer -> [stamp: Sha, findings: SUBSET Finding] \cup {None}]
      /\ said' \subseteq Sha \X Finding /\ read' \subseteq Sha
  <2>1. CASE e.status # "failed"
    BY <1>2, <1>3, <2>1 DEF TypeOK
  <2>2. CASE e.status = "failed"
    BY <1>2, <1>3, <2>2 DEF TypeOK
  <2> QED
    BY <2>1, <2>2
<1> QED
  BY <1>5, <1>6 DEF Returns, TypeOK, world

\* A report is saved.
LEMMA SaveType ==
  ASSUME TypeOK, target # None, NEW p \in Proc, NEW table \in Table, NEW snap \in SUBSET Sha,
         NEW rep, rep = Build(table, work[p].found, work[p].it, work[p].lineage),
         work[p].it \in Nat \ {0}, report' = rep, Record(p, rep, snap), Set(p, Idle),
         UNCHANGED <<world, target, written, taken>>
  PROVE TypeOK'
<1>1. work[p] \in Work
  BY DEF TypeOK
<1>2. rep \in Report
  BY <1>1, BuildType DEF Work
<1>3. work' \in [Proc -> Work]
  BY IdleType, SetType DEF TypeOK
<1>4. /\ said' \subseteq Sha \X Finding /\ read' \subseteq Sha /\ counted' \subseteq Sha
      /\ owed' \in BOOLEAN /\ forced' \in BOOLEAN /\ torn' \in BOOLEAN
  BY <1>1 DEF Record, TypeOK, Work
<1> QED
  BY <1>2, <1>3, <1>4 DEF TypeOK, world

-----------------------------------------------------------------------------
(* What a step leaves alone. *)

\* A process that stands still, while what was said and read only grows, stays as it is.
LEMMA StandsStill ==
  ASSUME Working, NEW q \in Proc, work'[q] = work[q], UNCHANGED target,
         ~torn' => ~torn /\ said \subseteq said' /\ read \subseteq read'
  PROVE Started(q)' /\ Current(q)'
<1>1. Started(q)'
  BY DEF Working, Started
<1>2. Current(q)'
  BY DEF Working, Current, Telling
<1> QED
  BY <1>1, <1>2

\* A step of one process that only sets its work.
LEMMA OnlySets ==
  ASSUME RInv, NEW p \in Proc, NEW w \in Work, Set(p, w), Started(p)', Current(p)',
         UNCHANGED <<world, target, written, report, history, taken>>
  PROVE RInv'
<1>1. work' \in [Proc -> Work] /\ \A q \in Proc : q # p => work'[q] = work[q]
  BY SetType DEF RInv, TypeOK
<1>2. TypeOK'
  BY <1>1 DEF RInv, TypeOK, world, history
<1>3. Working'
  <2> SUFFICES ASSUME NEW q \in Proc PROVE Started(q)' /\ Current(q)'
    BY DEF Working
  <2>1. CASE q = p
    BY <2>1
  <2>2. CASE q # p
    BY <1>1, <2>2, StandsStill DEF RInv, history
  <2> QED
    BY <2>1, <2>2
<1>4. Saved'
  BY DEF RInv, Saved, TreeFits, WrittenSaid, ReportSaid, ReportRead, MarkKept, CountFits, history
<1> QED
  BY <1>2, <1>3, <1>4 DEF RInv

\* A process that becomes idle has nothing in hand.
LEMMA IdleFits ==
  ASSUME NEW p \in Proc, work'[p] = Idle
  PROVE Started(p)' /\ Current(p)'
BY IdleType DEF Started, Current

-----------------------------------------------------------------------------
(* The steps, one by one. *)

\* Initially nobody works and nothing is saved.
LEMMA InitSafe == Init => RInv
<1> SUFFICES ASSUME Init PROVE RInv
  OBVIOUS
<1>1. \A p \in Proc : work[p] = Idle
  BY DEF Init
<1>2. Working
  BY <1>1, IdleType DEF Working, Started, Current
<1>3. Saved
  <2>1. IsFiniteSet({}) /\ Cardinality({}) = 0
    BY FS_EmptySet
  <2>2. CountFits
    BY <2>1, ReviewLoopConstantsOK DEF Init, CountFits
  <2> QED
    BY <2>2 DEF Init, Saved, TreeFits, WrittenSaid, ReportSaid, ReportRead, MarkKept
<1> QED
  BY <1>2, <1>3, InitType DEF RInv

\* A checkout of another tree touches no file of the loop.
LEMMA CheckoutSafe == ASSUME RInv, Checkout PROVE RInv'
<1>1. TypeOK'
  BY DEF RInv, Checkout, TypeOK, history
<1>2. Working'
  BY StandsStill DEF RInv, Checkout, Working, history
<1>3. Saved'
  BY DEF RInv, Checkout, Saved, TreeFits, WrittenSaid, ReportSaid, ReportRead, MarkKept, CountFits, history
<1> QED
  BY <1>1, <1>2, <1>3 DEF RInv

\* The owner's reset of the count touches the count only.
LEMMA BudgetResetSafe == ASSUME RInv, BudgetReset PROVE RInv'
<1>1. TypeOK'
  <2>1. workflow' \in 0 .. MaxResets
    BY ReviewLoopConstantsOK DEF RInv, BudgetReset, TypeOK
  <2> QED
    BY <2>1 DEF RInv, BudgetReset, TypeOK, history
<1>2. Working'
  BY StandsStill DEF RInv, BudgetReset, Working, history
<1>3. Saved'
  BY DEF RInv, BudgetReset, Saved, TreeFits, WrittenSaid, ReportSaid, ReportRead, MarkKept, CountFits, history
<1> QED
  BY <1>1, <1>2, <1>3 DEF RInv

\* Who has a round or a report in hand is overtaken by another snapshot; the same one again
\* changes nothing.
LEMMA ReviewSnapshotSafe == ASSUME RInv, ReviewSnapshot PROVE RInv'
<1>1. TypeOK'
  BY SnapshotType DEF RInv
<1>2. PICK b \in Base, full \in {FALSE} \cup {"--full" \in Flag}, tree \in Tree : TakeSnapshot(b, full, tree)
  BY DEF ReviewSnapshot
<1>3. target' # None
  BY SnapshotType, NoSnapshotOK DEF RInv
<1>4. Working'
  <2> SUFFICES ASSUME NEW q \in Proc PROVE Started(q)' /\ Current(q)'
    BY DEF Working
  <2>1. work[q] \in Work /\ Started(q) /\ Current(q)
    BY DEF RInv, TypeOK, Working
  <2>2. work'[q] = [work[q] EXCEPT !.overtaken = work[q].at # "idle" /\ (@ \/ target' # target)]
    BY DEF ReviewSnapshot
  <2>3. /\ work'[q].at = work[q].at /\ work'[q].target = work[q].target /\ work'[q].it = work[q].it
        /\ work'[q].entries = work[q].entries /\ work'[q].found = work[q].found /\ work'[q].force = work[q].force
        /\ work'[q].overtaken = (work[q].at # "idle" /\ (work[q].overtaken \/ target' # target))
    BY <2>1, <2>2 DEF Work
  <2>4. Started(q)'
    BY <1>3, <2>1, <2>3 DEF Started
  <2>5. Current(q)'
    <3> SUFFICES ASSUME work'[q].at # "idle", ~work'[q].overtaken PROVE Current(q)'
      BY DEF Current
    <3>1. target' = target /\ ~work[q].overtaken /\ work[q].at # "idle"
      BY <2>3
    <3> QED
      BY <2>1, <2>3, <3>1 DEF Current, Telling, ReviewSnapshot, history
  <2> QED
    BY <2>4, <2>5
<1>5. Saved'
  <2>1. TreeFits'
    BY <1>2 DEF TakeSnapshot, TreeFits
  <2> QED
    BY <2>1 DEF RInv, ReviewSnapshot, Saved, WrittenSaid, ReportSaid, ReportRead, MarkKept, CountFits, history
<1> QED
  BY <1>1, <1>4, <1>5 DEF RInv

\* A round begins on the snapshot at hand, its budget checked and counted.
LEMMA StartRoundSafe == ASSUME RInv, NEW p \in Run, StartRound(p) PROVE RInv'
<1>1. p \in Proc /\ p \notin Helper /\ target \in Snapshot /\ target # None
  BY ReviewLoopConstantsOK DEF RInv, TypeOK, StartRound, Proc
<1>2. PICK only \in (SUBSET Reviewer) \ {{}}, delivery \in {"inline", "file"} :
        /\ NextIteration(LineageNow) <= RoundCap \/ "--force" \in Flag
        /\ Set(p, [Idle EXCEPT !.at = "review", !.target = target, !.it = NextIteration(LineageNow),
                               !.lineage = LineageNow, !.delivery = delivery, !.left = only,
                               !.force = NextIteration(LineageNow) > RoundCap])
  BY DEF StartRound
<1> DEFINE it == NextIteration(LineageNow)
           force == it > RoundCap
           w == [Idle EXCEPT !.at = "review", !.target = target, !.it = it, !.lineage = LineageNow,
                             !.delivery = delivery, !.left = only, !.force = force]
<1>3. /\ LineageNow \in Lineage /\ it \in Nat \ {0} /\ force \in BOOLEAN
      /\ ~force => it <= MaxRounds + 1
  <2>1. LineageNow \in Lineage /\ it \in Nat \ {0} /\ RoundCap \in Nat /\ RoundCap <= MaxRounds + 1
    BY <1>1, RoundType DEF RInv
  <2> HIDE DEF it
  <2> QED
    BY <2>1, ReviewLoopConstantsOK
<1>4. /\ w \in Work /\ w.at = "review" /\ w.target = target /\ w.it = it /\ w.force = force
      /\ w.entries = [r \in Reviewer |-> None] /\ ~w.overtaken
  <2> HIDE DEF it, force
  <2> QED
    BY <1>1, <1>3, IdleType DEF Work
<1>5. work'[p] = w
  BY <1>1, <1>2, <1>4, SetType DEF RInv, TypeOK
<1>6. UNCHANGED <<world, target, written, report, history, taken>>
  BY DEF StartRound
<1> HIDE DEF w, it, force
<1>7. Started(p)'
  BY <1>1, <1>3, <1>4, <1>5, <1>6 DEF Started
<1>8. Current(p)'
  BY <1>4, <1>5, <1>6 DEF Current, Telling
<1>9. Set(p, w)
  BY <1>2 DEF w, it, force
<1> QED
  BY <1>1, <1>4, <1>6, <1>7, <1>8, <1>9, OnlySets

\* A consolidation begins: it reads which round it is and what the reviewers' files say.
LEMMA StartConsolidateSafe == ASSUME RInv, NEW p \in Helper, StartConsolidate(p) PROVE RInv'
<1>1. p \in Proc /\ p \notin Run /\ target \in Snapshot /\ target # None
  BY ReviewLoopConstantsOK DEF RInv, TypeOK, StartConsolidate, Proc
<1> DEFINE it == NextIteration(LineageNow)
           found == ReportsRead
           w == [Idle EXCEPT !.at = "build", !.it = it, !.lineage = LineageNow, !.found = found]
<1>2. LineageNow \in Lineage /\ it \in Nat \ {0} /\ found \in SUBSET Finding
  BY <1>1, RoundType, ReadType DEF RInv
<1>3. Set(p, w) /\ UNCHANGED <<world, target, written, report, history, taken>>
  BY DEF StartConsolidate
<1> HIDE DEF it, found
<1>4. /\ w \in Work /\ w.at = "build" /\ w.it = it /\ w.found = found
      /\ w.entries = [r \in Reviewer |-> None] /\ ~w.overtaken
  BY <1>1, <1>2, IdleType DEF Work
<1>5. work'[p] = w
  BY <1>1, <1>3, <1>4, SetType DEF RInv, TypeOK
<1> HIDE DEF w
<1>6. Started(p)'
  BY <1>1, <1>2, <1>3, <1>4, <1>5 DEF Started
<1>7. ~torn => {target.sha} \X found \subseteq said
  BY DEF RInv, Saved, WrittenSaid, ReportsRead, found
<1>8. Current(p)'
  BY <1>3, <1>4, <1>5, <1>7 DEF Current, Telling, history
<1> QED
  BY <1>1, <1>3, <1>4, <1>6, <1>8, OnlySets

\* A round that has all its reviewers back reads their files.
LEMMA ReadReportsSafe == ASSUME RInv, NEW p \in Run, ReadReports(p) PROVE RInv'
<1>1. p \in Proc /\ work[p] \in Work /\ Started(p) /\ Current(p) /\ p \notin Helper
  BY ReviewLoopConstantsOK DEF RInv, TypeOK, Proc, Working
<1> DEFINE found == ReportsRead
           w == [work[p] EXCEPT !.at = "build", !.target = None, !.delivery = "inline", !.found = found]
<1>2. found \in SUBSET Finding
  BY ReadType DEF RInv
<1>3. Set(p, w) /\ UNCHANGED <<world, target, written, report, history, taken>> /\ work[p].at = "review"
  BY DEF ReadReports
<1> HIDE DEF found
<1>4. /\ w \in Work /\ w.at = "build" /\ w.it = work[p].it /\ w.found = found /\ w.force = work[p].force
      /\ w.entries = work[p].entries /\ w.overtaken = work[p].overtaken
  BY <1>1, <1>2 DEF Work
<1>5. work'[p] = w
  BY <1>1, <1>3, <1>4, SetType DEF RInv, TypeOK
<1> HIDE DEF w
<1>6. Started(p)'
  BY <1>1, <1>3, <1>4, <1>5 DEF Started
<1>7. ~torn => {target.sha} \X found \subseteq said
  BY DEF RInv, Saved, WrittenSaid, ReportsRead, found
<1>8. Current(p)'
  BY <1>1, <1>3, <1>4, <1>5, <1>7 DEF Current, Telling, history
<1> QED
  BY <1>1, <1>3, <1>4, <1>6, <1>8, OnlySets

\* A process that dies leaves the files as they are.
LEMMA DiesSafe == ASSUME RInv, NEW p \in Proc, Dies(p) PROVE RInv'
<1>1. work'[p] = Idle
  BY IdleType, SetType DEF RInv, TypeOK, Dies
<1> QED
  BY <1>1, IdleType, IdleFits, OnlySets DEF Dies

\* A reviewer's file says what it says under the stamp it was handed, also when its round has
\* been overtaken.
LEMMA ReturnsSafe == ASSUME RInv, NEW p \in Run, NEW r \in Reviewer, Returns(p, r) PROVE RInv'
<1>1. /\ p \in Proc /\ p \notin Helper /\ work[p] \in Work /\ Started(p) /\ Current(p)
      /\ work[p].at = "review" /\ work[p].target \in Snapshot
  BY ReviewLoopConstantsOK DEF RInv, TypeOK, Proc, Working, Returns, Started, Work
<1>2. TypeOK'
  BY <1>1, ReturnsType DEF RInv
<1>3. PICK e \in Outcomes(work[p]) :
        /\ Set(p, [work[p] EXCEPT !.left = @ \ {r}, !.entries = [@ EXCEPT ![r] = e]])
        /\ \/ /\ e.status # "failed"
              /\ \E found \in SUBSET Finding :
                   /\ written' = [written EXCEPT ![r] = [stamp |-> e.stamp, findings |-> found]]
                   /\ said' = IF torn THEN {} ELSE said \cup ({e.stamp} \X found)
              /\ read' = IF ~torn /\ e.status = "ok" THEN read \cup {e.stamp} ELSE read
           \/ /\ e.status = "failed" /\ e.delivery # "none"
              /\ written' = [written EXCEPT ![r] = [stamp |-> e.stamp, findings |-> {}]]
              /\ UNCHANGED <<said, read>>
           \/ /\ e.status = "failed"
              /\ UNCHANGED <<written, said, read>>
  BY DEF Returns
<1>4. /\ e \in Entry
      /\ Telling(e) => e.stamp = work[p].target.sha
  BY <1>1, <1>3, OutcomesType DEF Telling
<1> DEFINE w == [work[p] EXCEPT !.left = @ \ {r}, !.entries = [@ EXCEPT ![r] = e]]
           table == [work[p].entries EXCEPT ![r] = e]
<1>5. /\ table \in Table /\ w = [work[p] EXCEPT !.left = work[p].left \ {r}, !.entries = table]
      /\ work[p].left \ {r} \in SUBSET Reviewer
  <2>1. work[p].entries \in Table /\ work[p].left \in SUBSET Reviewer
    BY <1>1 DEF Work
  <2>2. table \in Table
    BY <1>4, <2>1 DEF Table
  <2> QED
    BY <2>1, <2>2
<1> HIDE DEF table
<1>6. /\ w \in Work /\ w.at = work[p].at /\ w.target = work[p].target /\ w.it = work[p].it
      /\ w.force = work[p].force /\ w.overtaken = work[p].overtaken
      /\ w.entries = table
  BY <1>1, <1>5 DEF Work
<1>7. work'[p] = w /\ \A q \in Proc : q # p => work'[q] = work[q]
  BY <1>1, <1>3, <1>6, SetType DEF RInv, TypeOK
<1>8. /\ UNCHANGED <<target, report, owed, counted, forced, torn>>
      /\ ~torn => said \subseteq said' /\ read \subseteq read'
      /\ ~torn /\ e.status = "ok" => e.stamp \in read'
  BY <1>3 DEF Returns
<1> HIDE DEF w
<1>9. Started(p)'
  BY <1>1, <1>6, <1>7, <1>8 DEF Started
<1>10. Current(p)'
  <2> SUFFICES ASSUME ~w.overtaken PROVE Current(p)'
    BY <1>7 DEF Current
  <2>1. work[p].target = target /\ ~work[p].overtaken
    BY <1>1, <1>6 DEF Current
  <2>2. \A q \in Reviewer : w.entries[q] = IF q = r THEN e ELSE work[p].entries[q]
    BY <1>1, <1>6 DEF Work, Table, table
  <2>3. \A q \in Reviewer : Telling(w.entries[q]) => w.entries[q].stamp = target.sha
    <3> SUFFICES ASSUME NEW q \in Reviewer, Telling(w.entries[q]) PROVE w.entries[q].stamp = target.sha
      OBVIOUS
    <3>1. CASE q = r
      BY <1>4, <2>1, <2>2, <3>1 DEF Telling
    <3>2. CASE q # r
      BY <1>1, <2>1, <2>2, <3>2 DEF Current, Telling
    <3> QED
      BY <3>1, <3>2
  <2>4. ~torn => \A q \in Reviewer : w.entries[q] # None /\ w.entries[q].status = "ok" => w.entries[q].stamp \in read'
    BY <1>1, <1>8, <2>1, <2>2 DEF Current
  <2> QED
    BY <1>1, <1>6, <1>7, <1>8, <2>1, <2>3, <2>4 DEF Current, Telling
<1>11. Working'
  <2> SUFFICES ASSUME NEW q \in Proc, q # p PROVE Started(q)' /\ Current(q)'
    BY <1>9, <1>10 DEF Working
  <2> QED
    BY <1>7, <1>8, StandsStill DEF RInv
<1>12. WrittenSaid'
  <2> SUFFICES ASSUME ~torn, NEW q \in Reviewer, written'[q] # None
               PROVE {written'[q].stamp} \X written'[q].findings \subseteq said'
    BY <1>8 DEF WrittenSaid
  <2>1. written[q] # None => {written[q].stamp} \X written[q].findings \subseteq said
    BY DEF RInv, Saved, WrittenSaid
  <2>2. CASE written'[q] = written[q]
    BY <1>8, <2>1, <2>2
  <2>3. CASE written'[q] # written[q]
    <3>1. q = r
      BY <1>3, <2>3 DEF RInv, TypeOK
    <3> QED
      BY <1>3, <2>3, <3>1 DEF RInv, TypeOK
  <2> QED
    BY <2>2, <2>3
<1>13. Saved'
  BY <1>8, <1>12 DEF RInv, Saved, TreeFits, ReportSaid, ReportRead, MarkKept, CountFits
<1> QED
  BY <1>2, <1>11, <1>13 DEF RInv

\* The heart of it: the report a process saves under the lock, on a table of its own entries and,
\* for who did not run, of the last report's.
LEMMA SaveSafe ==
  ASSUME RInv, NEW p \in Proc, work[p].at = "build", NEW table \in Table,
         \A r \in Reviewer : table[r] = IF work[p].entries[r] # None THEN work[p].entries[r]
                                        ELSE IF report # None THEN report.reviewers[r] ELSE None,
         NEW rep, rep = Build(table, work[p].found, work[p].it, work[p].lineage), report' = rep,
         NEW snap \in {{}, {rep.sha}}, snap # {} => p \in Run, Record(p, rep, snap), Set(p, Idle),
         UNCHANGED <<world, target, written, taken>>
  PROVE RInv'
<1>1. /\ work[p] \in Work /\ Started(p) /\ Current(p) /\ target # None /\ target \in Snapshot
      /\ work[p].it \in Nat \ {0}
  BY DEF RInv, TypeOK, Working, Started, Work
<1>2. /\ rep \in Report /\ rep.sha = target.sha /\ rep.scope = target.scope
      /\ rep.it = work[p].it /\ rep.lineage = work[p].lineage /\ rep.reviewers = table
      /\ DOMAIN rep.findings = work[p].found
      /\ rep.coverage = CoverageOf(table, work[p].it, work[p].lineage)
  BY <1>1, BuildType DEF RInv, Work
<1>3. TypeOK'
  <2>1. snap \in SUBSET Sha
    BY <1>1, <1>2 DEF Snapshot
  <2> QED
    BY <1>1, <2>1, SaveType DEF RInv
<1>4. work'[p] = Idle /\ \A q \in Proc : q # p => work'[q] = work[q]
  BY IdleType, SetType DEF RInv, TypeOK
<1> DEFINE hand == {rep.sha} \cup {written[r].stamp : r \in {q \in Reviewer : written[q] # None}}
                     \cup {table[r].stamp : r \in {q \in Reviewer : table[q] # None}}
<1>5. /\ torn' = (torn \/ work[p].overtaken \/ work[p].it # NextIteration(work[p].lineage))
      /\ forced' = (forced \/ work[p].force)
      /\ ~torn' => said' = {s \in said : s[1] \in hand} /\ read' = read \cap hand
  BY <1>2 DEF Record
<1>6. ~torn' => ~torn /\ ~work[p].overtaken
  BY <1>5
<1>7. target.sha \in hand
  BY <1>2
<1>8. \A r \in Reviewer : (written[r] # None => written[r].stamp \in hand)
                           /\ (table[r] # None => table[r].stamp \in hand)
  OBVIOUS
<1> HIDE DEF hand
<1>9. Working'
  <2> SUFFICES ASSUME NEW q \in Proc PROVE Started(q)' /\ Current(q)'
    BY DEF Working
  <2>1. CASE q = p
    BY <1>4, <2>1, IdleFits
  <2>2. CASE q # p
    <3>1. work'[q] = work[q] /\ Started(q) /\ Current(q)
      BY <1>4, <2>2 DEF RInv, Working
    <3>2. Started(q)'
      BY <3>1 DEF Started
    <3>3. Current(q)'
      <4> SUFFICES ASSUME work[q].at # "idle", ~work[q].overtaken PROVE Current(q)'
        BY <3>1 DEF Current
      <4>1. ~torn' => \A r \in Reviewer : work[q].entries[r] # None /\ work[q].entries[r].status = "ok"
                                           => work[q].entries[r].stamp \in read'
        BY <1>5, <1>6, <1>7, <3>1 DEF Current, Telling
      <4>2. ~torn' /\ work[q].at = "build" => {target.sha} \X work[q].found \subseteq said'
        BY <1>5, <1>6, <1>7, <3>1 DEF Current
      <4> QED
        BY <3>1, <4>1, <4>2 DEF Current, Telling
    <3> QED
      BY <3>2, <3>3
  <2> QED
    BY <2>1, <2>2
<1>10. TreeFits'
  BY DEF RInv, Saved, TreeFits
<1>11. WrittenSaid'
  BY <1>5, <1>6, <1>8 DEF RInv, Saved, WrittenSaid
<1>12. ReportSaid'
  BY <1>1, <1>2, <1>5, <1>6, <1>7 DEF ReportSaid, Current
<1>13. \A r \in Reviewer : ~torn' /\ table[r] # None /\ table[r].status = "ok" => table[r].stamp \in read
  BY <1>1, <1>6 DEF Current, RInv, Saved, ReportRead
<1>14. ReportRead'
  BY <1>2, <1>5, <1>8, <1>13 DEF ReportRead
<1>15. MarkKept'
  <2> SUFFICES ASSUME ~torn', owed' PROVE rep.coverage.change = "unverified"
    BY DEF MarkKept
  <2>1. RoundCoverage(table) = "unverified" \/ (CarriedMark(rep.lineage) /\ ~ReadInFull(table))
        => rep.coverage.change = "unverified"
    BY <1>2 DEF CoverageOf
  <2>2. \/ Handed(work[p].entries)
        \/ /\ owed /\ report # None /\ Place(report.lineage) = Place(rep.lineage)
           /\ ~(rep.scope = "whole" /\ rep.sha \in read)
    BY DEF Record
  <2>3. CASE Handed(work[p].entries)
    <3>1. PICK r \in Reviewer : work[p].entries[r] # None /\ work[p].entries[r].delivery = "file"
      BY <2>3 DEF Handed
    <3>2. table[r] = work[p].entries[r] /\ table[r].stamp = target.sha
      BY <1>1, <1>6, <3>1 DEF Current, Telling
    <3>3. RoundCoverage(table) = "unverified"
      BY <3>1, <3>2 DEF RoundCoverage, CurrentRuns
    <3> QED
      BY <2>1, <3>3
  <2>4. CASE /\ owed /\ report # None /\ Place(report.lineage) = Place(rep.lineage)
             /\ ~(rep.scope = "whole" /\ rep.sha \in read)
    <3>1. CarriedMark(rep.lineage)
      BY <1>6, <2>4 DEF RInv, Saved, MarkKept, CarriedMark
    <3>2. ~ReadInFull(table)
      <4> SUFFICES ASSUME target.scope = "whole", NEW r \in CurrentRuns(table), table[r].status = "ok" PROVE FALSE
        BY DEF ReadInFull
      <4>1. table[r] # None /\ table[r].stamp = target.sha /\ r \in Reviewer
        BY DEF CurrentRuns
      <4> QED
        BY <1>2, <1>13, <2>4, <4>1
    <3> QED
      BY <2>1, <3>1, <3>2
  <2> QED
    BY <2>2, <2>3, <2>4
<1>16. CountFits'
  <2> SUFFICES ASSUME ~torn', ~forced'
               PROVE /\ IsFiniteSet(counted') /\ Cardinality(counted') <= MaxRounds + 1
                     /\ Cardinality(counted' \cup {rep.sha}) <= rep.it
    BY DEF CountFits
  <2> DEFINE same == report # None /\ report.lineage = rep.lineage
             old == IF same THEN counted ELSE {}
  <2>1. counted' = old \cup snap
    BY DEF Record
  <2>2. ~torn /\ ~forced /\ ~work[p].force /\ rep.it = NextIteration(rep.lineage)
    BY <1>2, <1>5
  <2>3. /\ IsFiniteSet(counted) /\ Cardinality(counted) <= MaxRounds + 1
        /\ report # None => Cardinality(counted \cup {report.sha}) <= report.it
    BY <2>2 DEF RInv, Saved, CountFits
  <2>4. /\ IsFiniteSet(old) /\ Cardinality(old) <= MaxRounds + 1
        /\ Cardinality(old \cup {rep.sha}) <= rep.it
    <3>1. CASE ~same
      <4>1. old = {} /\ rep.it = 1
        BY <2>2, <3>1 DEF NextIteration
      <4>2. IsFiniteSet({}) /\ Cardinality({}) = 0 /\ Cardinality({rep.sha}) = 1 /\ {} \cup {rep.sha} = {rep.sha}
        BY FS_EmptySet, FS_Singleton
      <4> HIDE DEF old, same
      <4> QED
        BY <4>1, <4>2, ReviewLoopConstantsOK
    <3>2. CASE same /\ report.sha = target.sha
      <4>1. old = counted /\ rep.it = report.it /\ rep.sha = report.sha
        BY <1>2, <2>2, <3>2 DEF NextIteration
      <4> QED
        BY <2>3, <3>2, <4>1
    <3>3. CASE same /\ report.sha # target.sha
      <4>1. old = counted /\ rep.it = report.it + 1 /\ report.it \in Nat
        BY <1>2, <2>2, <3>3 DEF NextIteration, RInv, TypeOK, Report
      <4>2. IsFiniteSet(counted \cup {report.sha}) /\ Cardinality(counted) <= Cardinality(counted \cup {report.sha})
        BY <2>3, FS_AddElement, FS_Subset
      <4>3. /\ Cardinality(counted) \in Nat /\ Cardinality(counted \cup {report.sha}) \in Nat
            /\ Cardinality(counted \cup {rep.sha}) \in Nat
            /\ Cardinality(counted \cup {rep.sha}) <= Cardinality(counted) + 1
        <5>1. /\ IsFiniteSet(counted \cup {rep.sha})
              /\ Cardinality(counted \cup {rep.sha}) = IF rep.sha \in counted THEN Cardinality(counted)
                                                      ELSE Cardinality(counted) + 1
          BY <2>3, FS_AddElement
        <5>2. Cardinality(counted) \in Nat /\ Cardinality(counted \cup {report.sha}) \in Nat
          BY <2>3, <4>2, FS_CardinalityType
        <5> QED
          BY <5>1, <5>2
      <4> HIDE DEF old
      <4> QED
        BY <2>3, <3>3, <4>1, <4>2, <4>3
    <3> QED
      BY <3>1, <3>2, <3>3
  <2>5. CASE snap = {}
    BY <2>1, <2>4, <2>5
  <2>6. CASE snap = {rep.sha}
    <3>1. counted' = old \cup {rep.sha} /\ counted' \cup {rep.sha} = old \cup {rep.sha}
      BY <2>1, <2>6
    <3>2. rep.it <= MaxRounds + 1
      BY <1>1, <1>2, <2>2, <2>6 DEF Started
    <3>3. IsFiniteSet(old \cup {rep.sha}) /\ Cardinality(old \cup {rep.sha}) \in Nat
      BY <2>4, FS_AddElement, FS_CardinalityType
    <3>4. Cardinality(old \cup {rep.sha}) <= MaxRounds + 1
      <4> HIDE DEF old
      <4> QED
        BY <1>1, <1>2, <2>4, <3>2, <3>3, ReviewLoopConstantsOK
    <3> QED
      BY <2>4, <3>1, <3>3, <3>4
  <2> QED
    BY <2>5, <2>6
<1> QED
  BY <1>3, <1>9, <1>10, <1>11, <1>12, <1>14, <1>15, <1>16 DEF RInv, Saved

\* A round saves its report.
LEMMA SaveRoundSafe == ASSUME RInv, NEW p \in Run, SaveRound(p) PROVE RInv'
<1>1. p \in Proc /\ work[p] \in Work /\ (report # None => report \in Report)
  BY DEF RInv, TypeOK, Proc
<1> DEFINE table == [r \in Reviewer |-> IF work[p].entries[r] # None THEN work[p].entries[r]
                                        ELSE IF report # None THEN report.reviewers[r] ELSE None]
           rep == Build(table, work[p].found, work[p].it, work[p].lineage)
<1>2. table \in Table
  BY <1>1 DEF Work, Report, Table
<1>3. report' = rep /\ Record(p, rep, {rep.sha}) /\ Set(p, Idle) /\ work[p].at = "build"
      /\ UNCHANGED <<world, target, written, taken>>
  BY DEF SaveRound
<1>4. \A r \in Reviewer : table[r] = IF work[p].entries[r] # None THEN work[p].entries[r]
                                     ELSE IF report # None THEN report.reviewers[r] ELSE None
  OBVIOUS
<1> HIDE DEF table
<1> QED
  BY <1>1, <1>2, <1>3, <1>4, SaveSafe

\* A consolidation saves its report.
LEMMA SaveConsolidationSafe == ASSUME RInv, NEW p \in Helper, SaveConsolidation(p) PROVE RInv'
<1>1. p \in Proc /\ Started(p) /\ (report # None => report \in Report)
  BY DEF RInv, TypeOK, Proc, Working
<1> DEFINE table == IF report # None THEN report.reviewers ELSE [r \in Reviewer |-> None]
           rep == Build(table, work[p].found, work[p].it, work[p].lineage)
<1>2. table \in Table
  BY <1>1 DEF Report, Table
<1>3. report' = rep /\ Record(p, rep, {}) /\ Set(p, Idle) /\ work[p].at = "build"
      /\ UNCHANGED <<world, target, written, taken>>
  BY DEF SaveConsolidation
<1>4. \A r \in Reviewer : table[r] = IF work[p].entries[r] # None THEN work[p].entries[r]
                                     ELSE IF report # None THEN report.reviewers[r] ELSE None
  BY <1>1 DEF Started
<1> HIDE DEF table
<1> QED
  BY <1>1, <1>2, <1>3, <1>4, SaveSafe

\* A decision changes nothing else of the report.
LEMMA TriageSafe ==
  ASSUME RInv, NEW k \in Finding, NEW status \in {"needs-triage", "accepted", "rejected"}, Triage(k, status)
  PROVE RInv'
<1>1. report \in Report /\ report # None
  BY DEF RInv, TypeOK, Triage
<1> DEFINE findings == [report.findings EXCEPT ![k] = status]
<1>2. findings \in Triaged /\ DOMAIN findings = DOMAIN report.findings
  BY <1>1 DEF Report, Triaged
<1>3. report' = [report EXCEPT !.findings = findings]
  BY DEF Triage
<1> HIDE DEF findings
<1>4. /\ report' \in Report /\ report'.sha = report.sha /\ report'.it = report.it
      /\ report'.reviewers = report.reviewers /\ report'.coverage = report.coverage
      /\ DOMAIN report'.findings = DOMAIN report.findings
  BY <1>1, <1>2, <1>3 DEF Report
<1>5. UNCHANGED <<world, target, written, work, history, taken>>
  BY DEF Triage
<1>6. TypeOK'
  BY <1>4, <1>5 DEF RInv, TypeOK, world, history
<1>7. Working'
  BY <1>5, StandsStill DEF RInv, Working, history
<1>8. Saved'
  BY <1>1, <1>4, <1>5 DEF RInv, Saved, TreeFits, WrittenSaid, ReportSaid, ReportRead, MarkKept, CountFits, history
<1> QED
  BY <1>6, <1>7, <1>8 DEF RInv

\* Every step preserves the invariant.
LEMMA NextSafe == RInv /\ [Next]_vars => RInv'
<1> SUFFICES ASSUME RInv, [Next]_vars PROVE RInv'
  OBVIOUS
<1>1. CASE Checkout
  BY <1>1, CheckoutSafe
<1>2. CASE BudgetReset
  BY <1>2, BudgetResetSafe
<1>3. CASE ReviewSnapshot
  BY <1>3, ReviewSnapshotSafe
<1>4. ASSUME NEW p \in Run, StartRound(p) \/ ReadReports(p) \/ SaveRound(p) PROVE RInv'
  BY <1>4, StartRoundSafe, ReadReportsSafe, SaveRoundSafe
<1>5. ASSUME NEW p \in Run, NEW r \in Reviewer, Returns(p, r) PROVE RInv'
  BY <1>5, ReturnsSafe
<1>6. ASSUME NEW p \in Helper, StartConsolidate(p) \/ SaveConsolidation(p) PROVE RInv'
  BY <1>6, StartConsolidateSafe, SaveConsolidationSafe
<1>7. ASSUME NEW p \in Proc, Dies(p) PROVE RInv'
  BY <1>7, DiesSafe
<1>8. ASSUME NEW k \in Finding, NEW status \in {"needs-triage", "accepted", "rejected"}, Triage(k, status)
      PROVE RInv'
  BY <1>8, TriageSafe
<1>9. CASE UNCHANGED vars
  <2>1. TypeOK'
    BY <1>9 DEF RInv, TypeOK, vars, world, history
  <2>2. Working'
    BY <1>9, StandsStill DEF RInv, Working, vars, history
  <2>3. Saved'
    BY <1>9 DEF RInv, Saved, TreeFits, WrittenSaid, ReportSaid, ReportRead, MarkKept, CountFits, vars, history
  <2> QED
    BY <2>1, <2>2, <2>3 DEF RInv
<1> QED
  BY <1>1, <1>2, <1>3, <1>4, <1>5, <1>6, <1>7, <1>8, <1>9 DEF Next

-----------------------------------------------------------------------------
(* The theorems. *)

\* The inductive invariant holds.
LEMMA LoopInvariant == Spec => []RInv
BY InitSafe, NextSafe, PTL DEF Spec

\* What the loop keeps on disk and in its processes has its type.
THEOREM LoopTypeCorrect == Spec => []TypeOK
<1>1. RInv => TypeOK
  BY DEF RInv
<1> QED
  BY <1>1, LoopInvariant, PTL

\* A report lists only what was said of the snapshot it is about, however snapshots, rounds and
\* consolidations cross, unless it was saved over another snapshot than it was begun on.
THEOREM ReportIsOfItsSnapshot == Spec => []FindingsOfThisSnapshot
<1>1. RInv => FindingsOfThisSnapshot
  BY DEF RInv, Saved, ReportSaid, FindingsOfThisSnapshot
<1> QED
  BY <1>1, LoopInvariant, PTL

\* A change handed over as a file stays unverified until somebody has read the whole of it.
THEOREM MarkStays == Spec => []MarkNotLaundered
<1>1. RInv => MarkNotLaundered
  BY DEF RInv, Saved, MarkKept, MarkNotLaundered
<1> QED
  BY <1>1, LoopInvariant, PTL

\* One count of rounds never pays for more snapshots than the limit and the spare round.
THEOREM RoundsAreBounded == Spec => []RoundsBounded
<1>1. RInv => RoundsBounded
  BY DEF RInv, Saved, CountFits, RoundsBounded
<1> QED
  BY <1>1, LoopInvariant, PTL

\* A snapshot narrows to a fix only from a tree a reviewer reported findings on.
THEOREM NarrowsFromReviewed == Spec => NothingSkipped
<1>1. RInv /\ [Next]_vars => (target' # target /\ target'.scope = "fix" /\ ~torn =>
                               \E s \in said : s[1][2] = target'.sha[1])
  <2> SUFFICES ASSUME RInv, [Next]_vars, target' # target, target'.scope = "fix", ~torn
               PROVE \E s \in said : s[1][2] = target'.sha[1]
    OBVIOUS
  <2>1. ReviewSnapshot
    BY DEF Next, vars, Checkout, BudgetReset, StartRound, ReadReports, SaveRound, Returns, StartConsolidate,
           SaveConsolidation, Dies, Triage
  <2>2. PICK b \in Base, full \in {FALSE} \cup {"--full" \in Flag}, tree \in Tree : TakeSnapshot(b, full, tree)
    BY <2>1 DEF ReviewSnapshot
  <2>3. Narrows(b, tree) /\ target'.sha = <<target.tree, tree>>
    BY <2>2 DEF TakeSnapshot
  <2>4. PICK k \in DOMAIN report.findings : report.findings[k] = "accepted"
    BY <2>3 DEF Narrows, Accepted
  <2>5. <<report.sha, k>> \in said
    BY <2>3, <2>4 DEF RInv, Saved, ReportSaid, Narrows
  <2>6. report.sha[2] = target.tree
    BY <2>3 DEF RInv, Saved, TreeFits, Narrows
  <2> QED
    BY <2>3, <2>5, <2>6
<1> QED
  BY <1>1, LoopInvariant, PTL DEF Spec, NothingSkipped

\* A finding that stays in the report keeps its decision through every step but a triage.
THEOREM TriageStands == Spec => DecisionsKept
<1>1. [Next]_vars => (report # None /\ report' # report =>
        \/ \E k \in Finding, status \in {"accepted", "rejected", "needs-triage"} : Triage(k, status)
        \/ \A k \in DOMAIN report.findings \cap DOMAIN report'.findings :
             report'.findings[k] = report.findings[k])
  <2> SUFFICES ASSUME [Next]_vars, report # None, report' # report,
                      ~ \E k \in Finding, status \in {"accepted", "rejected", "needs-triage"} : Triage(k, status)
               PROVE \A k \in DOMAIN report.findings \cap DOMAIN report'.findings :
                       report'.findings[k] = report.findings[k]
    OBVIOUS
  <2>1. PICK p \in Proc : SaveRound(p) \/ SaveConsolidation(p)
    BY DEF Next, Proc, vars, Checkout, BudgetReset, ReviewSnapshot, StartRound, ReadReports, Returns,
           StartConsolidate, Dies
  <2>2. PICK table : report' = Build(table, work[p].found, work[p].it, work[p].lineage)
    BY <2>1 DEF SaveRound, SaveConsolidation
  <2>3. report'.findings = Carried(work[p].found, work[p].lineage)
    BY <2>2 DEF Build
  <2> QED
    BY <2>3 DEF Carried
<1> QED
  BY <1>1, PTL DEF Spec, DecisionsKept

=============================================================================
