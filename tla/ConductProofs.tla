--------------------------- MODULE ConductProofs ---------------------------
(* Proofs about who sits on a review round and how a review is conducted: the *)
(* panel of a round is never empty and is whole on a high-risk path, a round  *)
(* that is recommended fits in the rounds there are, and a rerun drops no     *)
(* accepted finding unfixed.                                                  *)
(*                                                                            *)
(* What the panel's policy picks is proved for every panel and every change,  *)
(* from what config validate asks of a panel: a seat that always runs.  The   *)
(* rest needs of the state only that a report is on a snapshot, and that who  *)
(* reported a finding is among those the report has heard from.               *)
EXTENDS Conduct, FiniteSetTheorems, WellFoundedInduction, TLAPS

-----------------------------------------------------------------------------
(* The panel of a round. *)

\* A set of numbers that is not empty has a least.
LEMMA LeastOf == ASSUME NEW S \in SUBSET Nat, S # {} PROVE \E m \in S : \A k \in S : m <= k
<1> DEFINE less == {p \in Nat \X Nat : p[1] < p[2]}
<1>1. IsWellFoundedOn(less, Nat)
  <2>1. less = OpToRel(<, Nat)
    BY DEF OpToRel
  <2> QED
    BY <2>1, NatLessThanWellFounded
<1>2. PICK m \in S : \A k \in S : <<k, m>> \notin less
  <2> HIDE DEF less
  <2> QED
    BY <1>1, WFMin
<1>3. ASSUME NEW k \in S
      PROVE  m <= k
  <2>1. ~(k < m)
    BY <1>2
  <2> QED
    BY <2>1
<1> QED
  BY <1>3

\* Seats are numbers.
LEMMA SeatsAreNumbers == Seat \subseteq Nat
<1>1. Cardinality(Seat) \in Nat
  BY SeatsOK, FS_CardinalityType
<1> QED
  BY <1>1, SeatsOK

\* Of seats, one is first; and it is one of them.
LEMMA FirstSits ==
  ASSUME NEW panel, NEW seats \in SUBSET Seat
  PROVE  /\ FirstOf(panel, seats) \subseteq seats
         /\ seats # {} => FirstOf(panel, seats) # {}
<1> DEFINE general == {s \in seats : panel[s].role = "general"}
           among == IF general # {} THEN general ELSE seats
<1>1. among \subseteq seats /\ (seats # {} => among # {})
  OBVIOUS
<1>2. FirstOf(panel, seats) = {s \in among : \A t \in among : s <= t}
  BY DEF FirstOf
<1> HIDE DEF among
<1>3. among # {} => \E s \in among : \A t \in among : s <= t
  BY <1>1, SeatsAreNumbers, LeastOf
<1> QED
  BY <1>1, <1>2, <1>3

\* Whom the policy keeps are seats it was asked about.
LEMMA QualifiedSits ==
  ASSUME NEW panel, NEW seats \in SUBSET Seat, NEW ch, NEW ask
  PROVE  Qualified(panel, seats, ch, ask) \subseteq seats
BY FirstSits DEF Qualified

\* A round asks nobody but the panel's seats.
LEMMA SitsAreSeats ==
  ASSUME NEW panel, NEW level, NEW ch, NEW ask, ask.named \subseteq Seat
  PROVE  Sits(panel, level, ch, ask) \subseteq Seat
<1> DEFINE seats == IF ask.only THEN ask.named ELSE Seat
           in == IF ask.only THEN seats ELSE Qualified(panel, seats, ch, ask)
<1>1. seats \subseteq Seat
  OBVIOUS
<1>2. in \subseteq Seat
  BY <1>1, QualifiedSits
<1>3. Sits(panel, level, ch, ask) \in {in, FirstOf(panel, in)}
  BY DEF Sits
<1> HIDE DEF in
<1> QED
  BY <1>2, <1>3, FirstSits

\* A panel with a seat that always runs leaves no round with nobody.
LEMMA SomebodyQualifies ==
  ASSUME NEW panel, NEW ch, NEW ask, \E s \in Seat : panel[s].when = "always"
  PROVE  Qualified(panel, Seat, ch, ask) # {}
<1> DEFINE wanted == {s \in Seat : Wanted(panel, s, ch, ask)}
<1>1. ASSUME wanted = {}
      PROVE  \E s \in Seat : Judged(panel, s, ch)
  BY <1>1 DEF Wanted
<1>2. FirstOf(panel, Seat) # {}
  BY FirstSits, SeatsOK
<1> QED
  BY <1>1, <1>2 DEF Qualified

\* A seat the round has to hear, because of a finding of its own, is not left out.
LEMMA CarriedQualifies ==
  ASSUME NEW panel, NEW seats, NEW ch, NEW ask, NEW s \in seats, s \in ask.carried
  PROVE  s \in Qualified(panel, seats, ch, ask)
<1>1. Wanted(panel, s, ch, ask)
  BY DEF Wanted, Joins, Needed
<1> QED
  BY <1>1 DEF Qualified

\* On a high-risk path every seat but those that go by paths qualifies, and the panel is not cut.
LEMMA RiskyIsWhole ==
  ASSUME NEW panel, NEW level, NEW ch, NEW ask, ch.risky, ~ask.only,
         NEW s \in Seat, panel[s].when \in {"always", "high-risk"}
  PROVE  s \in Sits(panel, level, ch, ask)
<1>1. Wanted(panel, s, ch, ask)
  BY DEF Wanted, Joins, Needed
<1>2. s \in Qualified(panel, Seat, ch, ask)
  BY <1>1 DEF Qualified
<1>3. LevelOf(level, ch) = "quality"
  BY DEF LevelOf
<1> QED
  BY <1>2, <1>3 DEF Sits

\* A round that --only does not narrow has somebody on it.
LEMMA SomebodySits ==
  ASSUME NEW panel, NEW level, NEW ch, NEW ask, ~ask.only, \E s \in Seat : panel[s].when = "always"
  PROVE  Sits(panel, level, ch, ask) # {}
<1> DEFINE in == Qualified(panel, Seat, ch, ask)
<1>1. in # {} /\ in \subseteq Seat
  BY SomebodyQualifies, QualifiedSits
<1>2. Sits(panel, level, ch, ask) \in {in, FirstOf(panel, in)}
  BY DEF Sits
<1> HIDE DEF in
<1> QED
  BY <1>1, <1>2, FirstSits

-----------------------------------------------------------------------------
(* The invariant: types, and what a report says it rests on. *)

\* A report is on a snapshot, and snapshots are replaced, never removed.
OnASnapshot == report # None => snap # None

\* Who reported a finding has come back.
Heard == report # None => \A f \in Finding : report.by[f] \subseteq report.back

CInv == TypeOK /\ OnASnapshot /\ Heard

\* The settings, as config validate leaves them.
LEMMA SetupType ==
  ASSUME TypeOK
  PROVE  /\ setup.panel \in [Seat -> Reviewer] /\ setup.level \in Level
         /\ \E s \in Seat : setup.panel[s].when = "always"
         /\ setup.recheck \in BOOLEAN /\ setup.alongside \in BOOLEAN
         /\ setup.changes \subseteq Change /\ setup.sized \subseteq BOOLEAN
BY ConductConstantsOK DEF TypeOK

\* A new event is one, and the log only grows.
LEMMA LogType ==
  ASSUME TypeOK, NEW stage \in {"review", "review_fixer", "test"}, NEW ok \in BOOLEAN,
         NEW by \in {"none", "gate", "context"}, NEW t \in (0 .. MaxTree) \cup {None}, Log(stage, ok, by, t)
  PROVE  log' \in Seq(Event)
<1>1. [stage |-> stage, ok |-> ok, by |-> by, tree |-> t] \in Event
  BY DEF Event
<1> QED
  BY <1>1 DEF TypeOK, Log

\* The number of a round.
LEMMA IterationType ==
  ASSUME TypeOK, NEW s
  PROVE  /\ Iteration(s) \in Nat \ {0}
         /\ report = None => Iteration(s) = 1
         /\ report # None => report.it \in Nat \ {0} /\ Iteration(s) <= report.it + 1
BY DEF TypeOK, Report, Iteration

\* How many rounds there are for a snapshot.
LEMMA CapType ==
  ASSUME NEW s
  PROVE  /\ MaxRounds \in Nat \ {0} /\ Cap(s) \in Nat
         /\ Cap(s) >= MaxRounds
         /\ setup.recheck /\ s.recheck => Cap(s) = MaxRounds + 1
BY ConductConstantsOK DEF Cap

\* The findings that are accepted are findings of the report.
LEMMA AcceptedType ==
  ASSUME TypeOK
  PROVE  /\ Accepted \subseteq Finding
         /\ report = None => Accepted = {}
         /\ report # None => Accepted \subseteq DOMAIN report.findings
<1>1. CASE report = None
  BY <1>1 DEF Accepted, With
<1>2. CASE report # None
  <2>1. PICK F \in SUBSET Finding : report.findings \in [F -> Status]
    BY <1>2 DEF TypeOK, Report
  <2> QED
    BY <1>2, <2>1 DEF Accepted, With
<1> QED
  BY <1>1, <1>2

\* The initial state.
LEMMA InitHolds == Init => CInv
<1> SUFFICES ASSUME Init PROVE CInv
  OBVIOUS
<1>1. <<>> \in Seq(Event) /\ 0 \in 0 .. MaxTree /\ 0 \in 0 .. Attempts
  BY ConductConstantsOK
<1> QED
  BY <1>1 DEF Init, CInv, TypeOK, OnASnapshot, Heard

\* A snapshot that is taken.
LEMMA TakeSnapshotHolds == ASSUME CInv, TakeSnapshot PROVE CInv'
<1>1. PICK full \in BOOLEAN, ch \in setup.changes, big \in setup.sized :
        snap' = [from |-> NextSnapshot(full, tree).from, tree |-> tree,
                 recheck |-> NextSnapshot(full, tree).recheck, change |-> ch, over |-> big, taken |-> Len(log)]
  BY DEF TakeSnapshot
<1>2. /\ NextSnapshot(full, tree).from \in (0 .. MaxTree) \cup {None}
      /\ NextSnapshot(full, tree).recheck \in BOOLEAN
  <2>1. snap # None => snap.tree \in 0 .. MaxTree
    BY DEF CInv, TypeOK, Snapshot
  <2> QED
    BY <2>1, SetupType DEF CInv, NextSnapshot, Decision
<1>3. Len(log) \in Nat
  BY DEF CInv, TypeOK
<1>4. snap' \in Snapshot
  BY <1>1, <1>2, <1>3, SetupType DEF CInv, TypeOK, Snapshot
<1>5. UNCHANGED <<setup, tree, log, report, fixes, repeats, over>>
  BY DEF TakeSnapshot
<1> QED
  BY <1>4, <1>5, NoSnapshotOK DEF CInv, TypeOK, OnASnapshot, Heard

\* The commands that only write to the log, or end the review.
LEMMA LogsHold == ASSUME CInv, RunRefused \/ RunGated \/ RunDies \/ RecordTest \/ Conclude PROVE CInv'
<1>1. UNCHANGED <<setup, tree, snap, report, fixes, repeats>> /\ over' \in {over, TRUE}
  BY DEF RunRefused, RunGated, RunDies, RecordTest, Conclude
<1>2. log' \in Seq(Event)
  <2>1. CASE RunGated \/ RunDies
    BY <2>1, LogType DEF CInv, RunGated, RunDies
  <2>2. CASE RecordTest
    <3>1. PICK ok \in BOOLEAN : Log("test", ok, "none", tree)
      BY <2>2 DEF RecordTest
    <3> QED
      BY <3>1, LogType DEF CInv, TypeOK
  <2>3. CASE RunRefused \/ Conclude
    BY <2>3 DEF CInv, TypeOK, RunRefused, Conclude
  <2> QED
    BY <2>1, <2>2, <2>3
<1> QED
  BY <1>1, <1>2 DEF CInv, TypeOK, OnASnapshot, Heard

\* The fixer, and an edit.
LEMMA TreeHolds == ASSUME CInv, Fix \/ Edit PROVE CInv'
<1>1. tree' \in 0 .. MaxTree
  <2>1. tree \in 0 .. MaxTree /\ MaxTree \in Nat
    BY ConductConstantsOK DEF CInv, TypeOK
  <2>2. tree' \in {tree} \cup {t \in 0 .. MaxTree : t = tree + 1} \/ (tree < MaxTree /\ tree' = tree + 1)
    BY DEF Fix, Edit
  <2> QED
    BY <2>1, <2>2
<1>2. fixes' \in 0 .. Attempts
  BY ConductConstantsOK DEF CInv, TypeOK, Fix, Edit
<1>3. log' \in Seq(Event)
  <2>1. CASE Fix
    <3>1. PICK ok \in BOOLEAN : Log("review_fixer", ok, "none", None)
      BY <2>1 DEF Fix
    <3> QED
      BY <3>1, LogType DEF CInv
  <2> QED
    BY <2>1 DEF CInv, TypeOK, Edit
<1>4. UNCHANGED <<setup, snap, report, repeats, over>>
  BY DEF Fix, Edit
<1> QED
  BY <1>1, <1>2, <1>3, <1>4 DEF CInv, TypeOK, OnASnapshot, Heard

\* A decision on a finding changes what the report says of it, and nothing else.
LEMMA TriageHolds ==
  ASSUME CInv, Triage
  PROVE  CInv' /\ report # None /\ DOMAIN report'.findings = DOMAIN report.findings
<1>1. PICK f \in DOMAIN report.findings, status \in Status :
        report' = [report EXCEPT !.findings = [@ EXCEPT ![f] = status]]
  BY DEF Triage
<1>a. report # None
  BY DEF Triage
<1>b. report \in Report
  BY <1>a DEF CInv, TypeOK
<1>2. PICK F \in SUBSET Finding : report.findings \in [F -> Status]
  BY <1>b DEF Report
<1> DEFINE findings == [report.findings EXCEPT ![f] = status]
<1>3. findings \in [F -> Status]
  BY <1>2
<1>4. report' = [report EXCEPT !.findings = findings]
  BY <1>1
<1> HIDE DEF findings
<1>5. report \in Report /\ report # None
  BY <1>a, <1>b
<1>6. /\ report' \in Report /\ report'.by = report.by /\ report'.back = report.back
      /\ report'.findings = findings
  BY <1>2, <1>3, <1>4, <1>5 DEF Report
<1>7. UNCHANGED <<setup, tree, log, snap, fixes, repeats, over>>
  BY DEF Triage
<1> QED
  BY <1>2, <1>3, <1>5, <1>6, <1>7 DEF CInv, TypeOK, OnASnapshot, Heard

\* Who a round asks, and which earlier reports stand beside it.
LEMMA StandsType ==
  ASSUME CInv, NEW ask
  PROVE  /\ Stands(ask) \subseteq Seat
         /\ report = None => Stands(ask) = {}
BY DEF CInv, TypeOK, Report, Stands

\* What a round leaves: a report on the snapshot, with what came back and, of those who did not,
\* what stands.
Reports(rep, ask, back) ==
  /\ rep \in Report /\ rep.snap = snap /\ rep.ran = back
  /\ \A f \in Finding : /\ rep.by[f] \subseteq rep.back
                        /\ rep.by[f] # {} => f \in DOMAIN rep.findings
                        /\ (Stands(ask) \ back) \cap report.by[f] \subseteq rep.by[f]

\* The report of a round is what it should be.
LEMMA RoundReportType ==
  ASSUME CInv, snap # None, NEW ask, NEW back \in SUBSET Seat, NEW says \in [Finding -> SUBSET back]
  PROVE  Reports(RoundReport(ask, back, says), ask, back)
<1> DEFINE old == Stands(ask) \ back
           by == [f \in Finding |-> says[f] \cup (IF old = {} THEN {} ELSE old \cap report.by[f])]
           decided == IF report = None THEN {} ELSE DOMAIN report.findings
           found == {g \in Finding : by[g] # {}}
           findings == [f \in found |-> IF f \in decided THEN report.findings[f] ELSE "needs-triage"]
           it == Iteration(snap)
<1>1. RoundReport(ask, back, says) = [it |-> it, snap |-> snap, by |-> by, ran |-> back, back |-> old \cup back,
                                      findings |-> findings]
  BY DEF RoundReport
<1>2. snap \in Snapshot /\ it \in Nat \ {0} /\ old \in SUBSET Seat
  BY IterationType, StandsType DEF CInv, TypeOK
<1>3. by \in [Finding -> SUBSET Seat] /\ \A f \in Finding : by[f] \subseteq old \cup back
  <2>1. \A f \in Finding : says[f] \subseteq back
    OBVIOUS
  <2> HIDE DEF old
  <2> QED
    BY <1>2, <2>1
<1>4. findings \in [found -> Status] /\ found \subseteq Finding
  <2>1. \A f \in decided : report.findings[f] \in Status
    BY DEF CInv, TypeOK, Report
  <2> HIDE DEF found, decided
  <2>2. findings \in [found -> Status]
    BY <2>1 DEF Status
  <2>3. found \subseteq Finding
    BY DEF found
  <2> QED
    BY <2>2, <2>3
<1>6. \A f \in Finding : by[f] = says[f] \cup (IF old = {} THEN {} ELSE old \cap report.by[f])
  OBVIOUS
<1>7. found = {g \in Finding : by[g] # {}}
  OBVIOUS
<1>8. old = Stands(ask) \ back
  OBVIOUS
<1> HIDE DEF old, by, found, findings, it
<1>9. old \cup back \in SUBSET Seat
  BY <1>2
<1>10. findings \in UNION {[F -> Status] : F \in SUBSET Finding} /\ DOMAIN findings = found
  BY <1>4
<1>11. RoundReport(ask, back, says) \in Report
  BY <1>1, <1>2, <1>3, <1>9, <1>10 DEF Report
<1>12. \A f \in Finding : /\ by[f] # {} => f \in DOMAIN findings
                          /\ (Stands(ask) \ back) \cap report.by[f] \subseteq by[f]
  BY <1>6, <1>7, <1>8, <1>10
<1> QED
  BY <1>1, <1>3, <1>11, <1>12 DEF Reports

\* A round, whoever directs it.
LEMMA ReviewRunIs ==
  ASSUME ReviewRun
  PROVE  \E named \in SUBSET Seat, declared \in BOOLEAN, invoked \in BOOLEAN :
           LET ask == Ask(snap, named # {}, named, declared) IN
           /\ \E back \in SUBSET Sits(setup.panel, setup.level, snap.change, ask) :
                \E says \in [Finding -> SUBSET back] : report' = RoundReport(ask, back, says)
           /\ repeats' = Registered({f \in DOMAIN report'.findings : report'.findings[f] # "rejected"})
           /\ Log("review", invoked, "none", None)
<1> DEFINE N == IF setup.guided THEN {{}} ELSE SUBSET Seat
           D == IF setup.guided THEN {FALSE} ELSE BOOLEAN
           R(ask) ==
             \E back \in SUBSET Sits(setup.panel, setup.level, snap.change, ask), invoked \in BOOLEAN :
               /\ back # {} => invoked
               /\ \E says \in [Finding -> SUBSET back] : report' = RoundReport(ask, back, says)
               /\ repeats' = Registered({f \in DOMAIN report'.findings : report'.findings[f] # "rejected"})
               /\ Log("review", invoked, "none", None)
<1>1. N \subseteq SUBSET Seat /\ D \subseteq BOOLEAN
  OBVIOUS
<1>2. \E named \in N, declared \in D : R(Ask(snap, named # {}, named, declared))
  BY Zenon DEF ReviewRun
<1> HIDE DEF N, D, R
<1>3. PICK named \in N, declared \in D : R(Ask(snap, named # {}, named, declared))
  BY <1>2
<1>4. named \in SUBSET Seat /\ declared \in BOOLEAN
  BY <1>1, <1>3
<1> DEFINE ask == Ask(snap, named # {}, named, declared)
<1>5. \E invoked \in BOOLEAN :
        /\ \E back \in SUBSET Sits(setup.panel, setup.level, snap.change, ask) :
             \E says \in [Finding -> SUBSET back] : report' = RoundReport(ask, back, says)
        /\ repeats' = Registered({f \in DOMAIN report'.findings : report'.findings[f] # "rejected"})
        /\ Log("review", invoked, "none", None)
  <2>1. R(ask)
    BY <1>3
  <2> HIDE DEF ask
  <2> QED
    BY <2>1, Zenon DEF R
<1> QED
  BY <1>4, <1>5, Zenon

\* A round preserves the invariant.
LEMMA ReviewRunHolds == ASSUME CInv, ReviewRun PROVE CInv'
<1>1. ASSUME NEW named \in SUBSET Seat, NEW declared \in BOOLEAN,
             NEW back \in SUBSET Sits(setup.panel, setup.level, snap.change, Ask(snap, named # {}, named, declared)),
             NEW says \in [Finding -> SUBSET back],
             report' = RoundReport(Ask(snap, named # {}, named, declared), back, says)
      PROVE  report' \in Report /\ \A f \in Finding : report'.by[f] \subseteq report'.back
  <2>1. back \in SUBSET Seat
    BY SitsAreSeats DEF Ask
  <2>2. snap # None
    BY DEF ReviewRun
  <2> DEFINE ask == Ask(snap, named # {}, named, declared)
  <2>3. Reports(RoundReport(ask, back, says), ask, back)
    <3> HIDE DEF ask
    <3> QED
      BY <2>1, <2>2, RoundReportType
  <2>4. Reports(report', ask, back)
    BY <1>1, <2>3
  <2> QED
    BY <2>4 DEF Reports
<1>2. PICK named \in SUBSET Seat, declared \in BOOLEAN, invoked \in BOOLEAN :
        /\ \E back \in SUBSET Sits(setup.panel, setup.level, snap.change, Ask(snap, named # {}, named, declared)) :
             \E says \in [Finding -> SUBSET back] :
                 report' = RoundReport(Ask(snap, named # {}, named, declared), back, says)
        /\ repeats' = Registered({f \in DOMAIN report'.findings : report'.findings[f] # "rejected"})
        /\ Log("review", invoked, "none", None)
  BY ReviewRunIs, Zenon
<1>3. report' \in Report /\ \A f \in Finding : report'.by[f] \subseteq report'.back
  BY <1>1, <1>2
<1>4. log' \in Seq(Event)
  BY <1>2, LogType DEF CInv
<1>5. repeats' \in [value: SUBSET Finding, count: Nat]
  <2>1. DOMAIN report'.findings \subseteq Finding
    BY <1>3 DEF Report
  <2> DEFINE sig == {f \in DOMAIN report'.findings : report'.findings[f] # "rejected"}
  <2>2. sig \in SUBSET Finding
    BY <2>1
  <2>3. repeats' = Registered(sig)
    BY <1>2
  <2> HIDE DEF sig
  <2> QED
    BY <2>2, <2>3 DEF CInv, TypeOK, Registered
<1>6. UNCHANGED <<setup, tree, snap, fixes, over>> /\ snap # None
  BY DEF ReviewRun
<1> QED
  BY <1>3, <1>4, <1>5, <1>6 DEF CInv, TypeOK, OnASnapshot, Heard

\* Every step preserves the invariant.
LEMMA NextHolds == CInv /\ [Next]_vars => CInv'
<1> SUFFICES ASSUME CInv, [Next]_vars PROVE CInv'
  OBVIOUS
<1>1. CASE UNCHANGED vars
  BY <1>1 DEF vars, CInv, TypeOK, OnASnapshot, Heard
<1>2. CASE Next
  <2>1. \/ TakeSnapshot \/ ReviewRun \/ Triage \/ Fix \/ Edit
        \/ RunRefused \/ RunGated \/ RunDies \/ RecordTest \/ Conclude
    BY <1>2 DEF Next
  <2> QED
    BY <2>1, TakeSnapshotHolds, ReviewRunHolds, TriageHolds, TreeHolds, LogsHold
<1> QED
  BY <1>1, <1>2

\* The invariant holds.
LEMMA ConductInvariant == Spec => []CInv
<1> QED
  BY InitHolds, NextHolds, PTL DEF Spec

-----------------------------------------------------------------------------

\* The log, the snapshot, the report and the settings keep their types.
THEOREM ConductTypeCorrect == Spec => []TypeOK
<1>1. CInv => TypeOK
  BY DEF CInv
<1> QED
  BY <1>1, ConductInvariant, PTL

\* A round shows the change to somebody, and a change to a high-risk path to every seat that does
\* not go by paths, for every panel that config validate accepts and every change.
THEOREM RoundsHaveAPanel == Spec => []PanelSits
<1>1. CInv => PanelSits
  <2> SUFFICES ASSUME CInv, snap # None
               PROVE  LET sits == Sits(setup.panel, setup.level, snap.change, Ask(snap, FALSE, {}, FALSE)) IN
                      /\ sits # {}
                      /\ snap.change.risky => \A s \in Seat : setup.panel[s].when # "paths" => s \in sits
    BY DEF PanelSits
  <2> DEFINE ask == Ask(snap, FALSE, {}, FALSE)
  <2>1. ~ask.only
    BY DEF Ask
  <2>2. \E s \in Seat : setup.panel[s].when = "always"
    BY SetupType DEF CInv
  <2>3. \A s \in Seat : setup.panel[s].when # "paths" => setup.panel[s].when \in {"always", "high-risk"}
    BY SetupType DEF CInv, Reviewer
  <2> HIDE DEF ask
  <2>4. Sits(setup.panel, setup.level, snap.change, ask) # {}
    BY <2>1, <2>2, SomebodySits
  <2>5. ASSUME snap.change.risky, NEW s \in Seat, setup.panel[s].when # "paths"
        PROVE  s \in Sits(setup.panel, setup.level, snap.change, ask)
    BY <2>1, <2>3, <2>5, RiskyIsWhole
  <2> QED
    BY <2>4, <2>5 DEF ask
<1> QED
  BY <1>1, ConductInvariant, PTL

\* A round that review status recommends is not refused for the rounds it is over, unless the last
\* round was thrown away by its tests.
THEOREM RecommendedRoundsRun == Spec => []RecommendedRuns
<1>1. CInv => RecommendedRuns
  <2> SUFFICES ASSUME CInv, Recommended, ~ThrownAway, NEW t \in 0 .. MaxTree
               PROVE  ~RoundsSpent(NextSnapshot(FALSE, t))
    BY DEF RecommendedRuns
  <2> DEFINE next == NextSnapshot(FALSE, t)
             number == Iteration(next)
             most == Cap(next)
  <2>1. /\ number \in Nat \ {0}
        /\ report = None => number = 1
        /\ report # None => report.it \in Nat \ {0} /\ number <= report.it + 1
    BY IterationType DEF CInv
  <2>2. /\ MaxRounds \in Nat \ {0} /\ most \in Nat
        /\ most >= MaxRounds
        /\ setup.recheck /\ next.recheck => most = MaxRounds + 1
    BY CapType
  <2>3. report = None \/ report.it < MaxRounds \/ (report.it <= MaxRounds /\ setup.recheck /\ next.recheck)
    <3> SUFFICES ASSUME report # None, ~(report.it < MaxRounds)
                 PROVE  report.it <= MaxRounds /\ setup.recheck /\ next.recheck
      OBVIOUS
    <3>1. Decision.recheck /\ setup.recheck /\ report.it <= MaxRounds
      BY DEF Recommended, Decision
    <3>2. next.recheck
      BY <3>1 DEF CInv, OnASnapshot, NextSnapshot
    <3> QED
      BY <3>1, <3>2
  <2> HIDE DEF number, most
  <2>4. number <= most
    <3> HIDE DEF next
    <3> QED
      BY <2>1, <2>2, <2>3
  <2> QED
    <3>1. ~(number > most)
      BY <2>1, <2>2, <2>4
    <3> QED
      BY <3>1 DEF RoundsSpent, number, most
<1> QED
  BY <1>1, ConductInvariant, PTL

\* A rerun of a snapshot asks everybody who reported an accepted finding again.
LEMMA CarriedStand ==
  ASSUME CInv, snap # None, report # None, Sha(report.snap) = Sha(snap),
         NEW f \in Accepted, NEW named, NEW only, NEW declared
  PROVE  report.by[f] \subseteq Stands(Ask(snap, only, named, declared))
<1> DEFINE ask == Ask(snap, only, named, declared)
<1>1. ask.carried = Carried(snap)
  BY DEF Ask
<1>2. report.by[f] \subseteq Carried(snap)
  BY DEF Carried
<1>3. report.by[f] \subseteq report.back
  BY AcceptedType DEF CInv, Heard
<1> HIDE DEF ask
<1>4. ASSUME NEW s \in report.by[f]
      PROVE  s \notin Excluded(setup.panel, snap.change, ask)
  BY <1>1, <1>2, CarriedQualifies DEF Excluded
<1> QED
  BY <1>3, <1>4 DEF Stands, ask

\* An accepted finding leaves the report of a snapshot only once everybody who reported it has
\* looked at that snapshot again.
THEOREM AcceptedFindingsStay == Spec => AcceptedStays
<1> DEFINE Stay == \A f \in Accepted : f \in DOMAIN report'.findings \/ report.by[f] \subseteq report'.ran
           Same == report # None /\ report' # report /\ Sha(report'.snap) = Sha(report.snap)
<1>1. ASSUME CInv, [Next]_vars, Same
      PROVE  Stay
  <2>1. Triage \/ ReviewRun
    BY <1>1 DEF Next, vars, TakeSnapshot, RunRefused, RunGated, RunDies, Fix, RecordTest, Edit, Conclude
  <2>2. CASE Triage
    BY <1>1, <2>2, TriageHolds, AcceptedType DEF CInv
  <2>3. CASE ReviewRun
    <3>1. PICK named \in SUBSET Seat, declared \in BOOLEAN :
            \E back \in SUBSET Sits(setup.panel, setup.level, snap.change, Ask(snap, named # {}, named, declared)) :
              \E says \in [Finding -> SUBSET back] :
                report' = RoundReport(Ask(snap, named # {}, named, declared), back, says)
      BY <2>3, ReviewRunIs, Zenon
    <3> DEFINE ask == Ask(snap, named # {}, named, declared)
    <3>2. ask.named \subseteq Seat
      BY DEF Ask
    <3>3. PICK back \in SUBSET Sits(setup.panel, setup.level, snap.change, ask) :
            \E says \in [Finding -> SUBSET back] : report' = RoundReport(ask, back, says)
      BY <3>1
    <3>4. PICK says \in [Finding -> SUBSET back] : report' = RoundReport(ask, back, says)
      BY <3>3
    <3> HIDE DEF ask
    <3>5. back \in SUBSET Seat
      BY <3>2, SitsAreSeats
    <3>6. snap # None
      BY <2>3 DEF ReviewRun
    <3>9. Reports(RoundReport(ask, back, says), ask, back)
      BY <1>1, <3>5, <3>6, RoundReportType
    <3>7. Reports(report', ask, back)
      BY <3>4, <3>9
    <3>8. ASSUME NEW f \in Accepted, f \notin DOMAIN report'.findings
          PROVE  report.by[f] \subseteq back
      <4>1. report'.snap = snap
        BY <3>7 DEF Reports
      <4>2. report.by[f] \subseteq Stands(ask)
        BY <1>1, <3>6, <4>1, CarriedStand DEF ask
      <4>3. f \in Finding
        BY <1>1, AcceptedType DEF CInv
      <4>4. (Stands(ask) \ back) \cap report.by[f] = {}
        BY <3>7, <3>8, <4>3 DEF Reports
      <4> QED
        BY <4>2, <4>4
    <3> QED
      BY <3>7, <3>8 DEF Reports
  <2> QED
    BY <2>1, <2>2, <2>3
<1>2. CInv /\ [Next]_vars => [Same => Stay]_vars
  BY <1>1
<1> QED
  BY <1>2, ConductInvariant, PTL DEF Spec, AcceptedStays
=============================================================================
