------------------------------ MODULE Approval ------------------------------
(* The user's approval of the plan (approval, approval_auto, questions and     *)
(* design approve): a plan is written, design questions are asked and          *)
(* answered, design rounds review the plan, the user approves it, and          *)
(* run implementer goes ahead or is refused. Every command reads its files     *)
(* one by one while the others go on.                                          *)
(*                                                                             *)
(* A text stands for its digest. A command loads its configuration when it     *)
(* starts, so two commands may see different ones.                             *)
EXTENDS Naturals, Sequences, SequencesExt

CONSTANTS
  None,
  Plan,         \* plan texts
  Token,        \* what high-risk patterns match: path tokens a plan names
  Names,        \* the tokens of a plan
  Start,        \* what plan.md may hold when the behaviour begins
  Answer,       \* what a question may be answered with
  Reports,      \* what a design review may come to: its findings, and whether it was short of the whole plan
  Contained,    \* plans whose Files to Modify is short and certain (plan_files)
  Setting,      \* the configurations a command may load: see SettingType
  MaxQuestions, \* bound: design questions
  MaxAnswers,   \* bound: answers of one question
  MaxEdits,     \* bound: plans written, questions, answers and triages
  MaxDesign     \* bound: design review rounds

Mode == {"on", "off", "auto"}
Finding == {"low", "high"}

\* What the global file says, what the project file says, and the environment. A project file
\* does not say design.require_approval: it is not taken from there (config_trust).
SettingType ==
  [approval: Mode, ask: Mode, unattended: BOOLEAN,
   design: Mode, risky: SUBSET Token, blocks: SUBSET Finding,
   projectDesign: Mode \cup {None}, projectRisky: (SUBSET Token) \cup {None}, projectPanel: BOOLEAN,
   projectBlocks: (SUBSET Finding) \cup {None}]

ASSUME ApprovalConstantsOK ==
  /\ None \notin Plan /\ Names \in [Plan -> SUBSET Token]
  /\ Contained \subseteq Plan /\ Start \subseteq Plan \cup {None}
  /\ Reports \subseteq [found : SUBSET Finding, short : BOOLEAN]
  /\ Setting \subseteq SettingType
  /\ {MaxQuestions, MaxAnswers, MaxEdits, MaxDesign} \subseteq Nat

VARIABLES
  plan,       \* plan.md, None when there is none
  questions,  \* state.json: each question's answers, the last one standing
  approval,   \* state.json: the approval recorded, or None; shown (history) is what the user saw
  target,     \* the frozen plan and decisions (review-target.md), and who froze them
  latest,     \* review-target.json: the latest design round and whether one was --high-risk
  report,     \* the consolidated design report, and the plan and decisions its reviewer's file is of
  architect,  \* the run that writes the plan
  review,     \* review run --design
  approve,    \* design approve
  gate,       \* run implementer, up to its go
  edits,      \* plans written, questions, answers and triages so far
  declared,   \* history: the first design round run with --high-risk, 0 for none
  found       \* history: what the latest round found, once it has ended

state == <<questions, approval>>
disk == <<target, latest, report>>
history == <<edits, declared, found>>
approvalVars == <<plan, state, disk, architect, review, approve, gate, history>>

Idle == [at |-> "idle"]
DesignRound == 0 .. MaxDesign

\* A plan may be there, and a question asked, before anything the model is about.
ApprovalInit ==
  /\ plan \in Start /\ questions \in {<<>>, << <<>> >>} /\ approval = None
  /\ target = [plan |-> None, decisions |-> <<>>, of |-> 0]
  /\ latest = [round |-> 0, declared |-> FALSE]
  /\ report = [round |-> 0, unreviewed |-> 0, plan |-> None, decisions |-> <<>>,
               found |-> {}, open |-> {}, short |-> TRUE, again |-> {}]
  /\ architect = Idle /\ review = Idle /\ approve = Idle /\ gate = Idle
  /\ edits = 0 /\ declared = 0 /\ found = {}

Edit == edits < MaxEdits /\ edits' = edits + 1

-----------------------------------------------------------------------------
(* The questions of state.json, as each reader reads them. *)

\* decisions_text shows every answer a question has had; decisions_digest only the last.
DecisionsText(qs) == qs
AnswerGiven(q) == IF q = <<>> THEN None ELSE Last(q)
DecisionsDigest(qs) == [i \in DOMAIN qs |-> AnswerGiven(qs[i])]

OpenIds(qs) == {i \in DOMAIN qs : qs[i] = <<>>}
Asking(c) == c.ask # "off"

NobodyWatching(c) == c.approval = "off" \/ (c.approval = "auto" /\ c.unattended)

\* design questions record.
RecordQuestions ==
  /\ Edit
  /\ Len(questions) < MaxQuestions /\ questions' = Append(questions, <<>>)
  /\ UNCHANGED <<plan, approval, disk, architect, review, approve, gate, declared, found>>

\* design questions answer: a second answer only with --revise, the first kept in its history.
AnswerQuestion ==
  /\ Edit
  /\ \E i \in DOMAIN questions, a \in Answer :
       Len(questions[i]) < MaxAnswers /\ questions' = [questions EXCEPT ![i] = Append(@, a)]
  /\ UNCHANGED <<plan, approval, disk, architect, review, approve, gate, declared, found>>

-----------------------------------------------------------------------------
(* The run that writes the plan, and a plan written by hand. *)

\* _refuse_unless_questions_answered: with questions open, only a run nobody watches goes ahead.
\* (A run with none open only writes the plan.)
StartArchitect ==
  /\ architect = Idle /\ architect' = [at |-> "leave"]
  /\ OpenIds(questions) # {} /\ (\E c \in Setting : Asking(c) /\ NobodyWatching(c)) = TRUE
  /\ UNCHANGED <<plan, state, disk, review, approve, gate, history>>

\* delegate_unattended: every question open by now is left to the architect.
LeftToArchitect(qs) == [i \in DOMAIN qs |-> IF qs[i] = <<>> THEN <<"left">> ELSE qs[i]]

LeaveToArchitect ==
  /\ architect.at = "leave" /\ architect' = Idle
  /\ questions' = LeftToArchitect(questions)
  /\ UNCHANGED <<plan, approval, disk, review, approve, gate, history>>

WritePlan ==
  /\ Edit
  /\ \E p \in Plan : p # plan /\ plan' = p
  /\ UNCHANGED <<state, disk, architect, review, approve, gate, declared, found>>

-----------------------------------------------------------------------------
(* review run --design: freezes the plan, then its reviewer reports. *)

\* It reads the plan and the decisions, and what earlier rounds declared; then
\* write_design_snapshot writes one file after another: the plan, the decisions, then the round.
StartReview ==
  /\ review = Idle /\ plan # None /\ latest.round < MaxDesign
  /\ \E high \in BOOLEAN :
       review' = [at |-> "decisions", decisions |-> DecisionsText(questions),
                  high |-> high, before |-> latest.declared]
  /\ target' = [target EXCEPT !.plan = plan, !.of = latest.round + 1]
  /\ UNCHANGED <<plan, state, latest, report, architect, approve, gate, history>>

FreezeDecisions ==
  /\ review.at = "decisions" /\ review' = [review EXCEPT !.at = "round", !.decisions = <<>>]
  /\ target' = [target EXCEPT !.decisions = review.decisions]
  /\ UNCHANGED <<plan, state, latest, report, architect, approve, gate, history>>

\* Mutant of KeptDeclared: a round forgets what an earlier one declared.
DeclaredNow(high, before) == high

\* Declared once, a workflow stays high-risk.
KeptDeclared(high, before) == high \/ before

FreezeRound ==
  /\ review.at = "round" /\ review' = [at |-> "reviewing"]
  /\ latest' = [round |-> latest.round + 1, declared |-> KeptDeclared(review.high, review.before)]
  /\ declared' = IF review.high /\ declared = 0 THEN latest.round + 1 ELSE declared
  /\ found' = {}
  /\ UNCHANGED <<plan, state, target, report, architect, approve, gate, edits>>

\* The reviewer answers, having read the whole frozen plan or part of it, and its report is consolidated:
\* only a round that was reviewed publishes its id.
EndReview ==
  /\ review.at = "reviewing" /\ review' = Idle
  /\ \E came \in Reports :
       /\ report' = [round |-> latest.round, unreviewed |-> 0,
                     plan |-> target.plan, decisions |-> target.decisions,
                     found |-> came.found, open |-> came.found, short |-> came.short, again |-> came.found]
       /\ found' = came.found
  /\ UNCHANGED <<plan, state, target, latest, architect, approve, gate, edits, declared>>

\* No reviewer came back with a review: the file of an earlier one of the same plan and decisions
\* is read again, and the report keeps the round of the last one.
EndUnreviewed ==
  /\ review.at = "reviewing" /\ review' = Idle
  /\ found' = IF report.plan = target.plan /\ report.decisions = target.decisions THEN report.again ELSE {}
  /\ report' = [report EXCEPT !.unreviewed = latest.round, !.found = found', !.open = found', !.short = TRUE]
  /\ UNCHANGED <<plan, state, target, latest, architect, approve, gate, edits, declared>>

ReviewDies ==
  /\ review # Idle /\ review' = Idle
  /\ UNCHANGED <<plan, state, disk, architect, approve, gate, history>>

\* review triage --design: a finding is rejected, or taken back.
Triage ==
  /\ Edit
  /\ \E open \in SUBSET report.found : open # report.open /\ report' = [report EXCEPT !.open = open]
  /\ UNCHANGED <<plan, state, target, latest, architect, review, approve, gate, declared, found>>

-----------------------------------------------------------------------------
(* design approve, run once the user has said yes to the plan on disk. *)

StartApprove ==
  /\ approve = Idle /\ plan # None
  /\ approve' = [at |-> "report", plan |-> plan]
  /\ UNCHANGED <<plan, state, disk, architect, review, gate, history>>

ApproveReport ==
  /\ approve.at = "report"
  /\ approve' = [at |-> "round", plan |-> approve.plan, round |-> report.round,
                unreviewed |-> report.unreviewed, found |-> report.found]
  /\ UNCHANGED <<plan, state, disk, architect, review, gate, history>>

\* Mutant of ApprovalRound: the approval is of the latest round, whatever was read.
LatestAlways(rep, now) == [round |-> now, refused |-> FALSE]

\* _approval_round: the reported round, when it is the latest one, or the latest, when it ended
\* with no review; otherwise the latest has no report yet and nothing is recorded.
ApprovalRound(rep, now) ==
  IF now # rep.round /\ now # 0 /\ now = rep.unreviewed
  THEN [round |-> now, refused |-> FALSE]
  ELSE [round |-> rep.round, refused |-> now # rep.round]

ApproveRound ==
  /\ approve.at = "round"
  /\ LET over == ApprovalRound(approve, latest.round)
     IN approve' = IF over.refused THEN Idle
                   ELSE [at |-> "state", plan |-> approve.plan,
                         round |-> over.round, shown |-> approve.found]
  /\ UNCHANGED <<plan, state, disk, architect, review, gate, history>>

\* The state read before the lock: the same approval, already recorded, is left as it is.
AlreadyApproved ==
  /\ approval # None
  /\ approval.plan = approve.plan /\ approval.round = approve.round
  /\ approval.answers = DecisionsDigest(questions)

ApproveState ==
  /\ approve.at = "state"
  /\ \E ask \in {Asking(c) : c \in Setting} :
       approve' = IF ~(ask /\ OpenIds(questions) # {}) /\ AlreadyApproved THEN Idle
                  ELSE [approve EXCEPT !.at = IF ask THEN "record" ELSE "record unasked"]
  /\ UNCHANGED <<plan, state, disk, architect, review, gate, history>>

\* record: the questions are read again under the lock the approval is written under.
RecordApproval ==
  /\ approve.at \in {"record", "record unasked"} /\ approve' = Idle
  /\ approval' = IF approve.at = "record" /\ OpenIds(questions) # {} THEN approval
                 ELSE [plan |-> approve.plan, round |-> approve.round, shown |-> approve.shown,
                       answers |-> DecisionsDigest(questions)]
  /\ UNCHANGED <<plan, questions, disk, architect, review, gate, history>>

-----------------------------------------------------------------------------
(* Whether the plan needs approving (approval_auto.requirement). *)

ProjectAdds(c) == IF c.projectRisky = None THEN {} ELSE c.projectRisky

\* trusted_risk_settings: the patterns without the project file, and what it adds.
TrustedRisky(c) == c.risky \cup ProjectAdds(c)

DesignMode(c) == IF c.projectDesign = None THEN c.design ELSE c.projectDesign

WithoutProject(c) ==
  [c EXCEPT !.projectDesign = None, !.projectRisky = None, !.projectPanel = FALSE, !.projectBlocks = None]

\* Mutant of SkipsWithoutProject: the project's file has its say.
SkipsAlways(c) == TRUE

SkipsWithoutProject(c) == DesignMode(WithoutProject(c)) = "auto"

PanelFromProject(c) == c.projectPanel

\* decide_design, for a plan that touches nothing high-risk.
DesignReviewRuns(c, p, roundRan) == DesignMode(c) = "on" \/ roundRan \/ p \notin Contained

ShortCoverage(rep) == rep.short

\* blocking_severities: a project's list of review.re_review_severities replaces the global one,
\* and one that names nothing is read as the default.
Listed(c) == IF c.projectBlocks = None THEN c.blocks ELSE c.projectBlocks
Blocking(c) == IF Listed(c) = {} THEN {"high"} ELSE Listed(c)

\* above_low_severities.
AboveLow(c) == {"high"} \cup Blocking(c)

\* Before the design review is asked about: a plan decided on its text alone.
Touches(c, p) == Names[p] \cap TrustedRisky(c) # {}

\* _by_design_review, up to what it reads of the frozen plan.
RoundClears(c, rep, round) ==
  /\ DesignMode(c) # "off" /\ round # 0 /\ round = rep.round
  /\ ~PanelFromProject(c) /\ ~ShortCoverage(rep)

SkipClears(c, p, rep, round) ==
  /\ DesignMode(c) # "off" /\ round = 0 /\ rep.round = 0 /\ rep.unreviewed = 0
  /\ ~DesignReviewRuns(c, p, FALSE) /\ SkipsWithoutProject(c)

NothingAboveLow(c, rep) == rep.open \cap AboveLow(c) = {}

\* Mutant of OfCurrentPlan: the decisions that went with the plan are not compared.
PlanAlone(p, text) == target.plan = p

\* findings_of_current_plan: the frozen plan and decisions are these.
OfCurrentPlan(p, text) == target.plan = p /\ target.decisions = text

\* The answer, were everything read at once.
Required(c, p, text) ==
  \/ c.approval = "on"
  \/ /\ c.approval = "auto"
     /\ \/ ~c.unattended \/ Touches(c, p) \/ latest.declared
        \/ /\ ~SkipClears(c, p, report, latest.round)
           /\ ~(RoundClears(c, report, latest.round) /\ OfCurrentPlan(p, text) /\ NothingAboveLow(c, report))

-----------------------------------------------------------------------------
(* run implementer: the question gate, then approval_auto.current. *)

\* What the gate goes by; a field is set once it is read.
Gating(c) ==
  [at |-> "state", c |-> c, approval |-> None, qs |-> <<>>, plan |-> None, first |-> 0, rep |-> None,
   round |-> 0, ask |-> FALSE, why |-> "none", asking |-> FALSE, torn |-> FALSE]

StartGate ==
  /\ gate = Idle
  /\ \E c \in Setting :
       /\ ~(Asking(c) /\ OpenIds(questions) # {})
       /\ gate' = Gating(c)
  /\ UNCHANGED <<plan, state, disk, architect, review, approve, history>>

\* state.json is read once.
GateState ==
  /\ gate.at = "state"
  /\ gate' = [gate EXCEPT !.at = "plan", !.approval = approval, !.qs = questions]
  /\ UNCHANGED <<plan, state, disk, architect, review, approve, history>>

\* The requirement is decided: the approval is needed, or not.
Asks == gate' = [Gating(None) EXCEPT !.at = "verdict", !.ask = TRUE, !.asking = Asking(gate.c),
                                     !.approval = gate.approval, !.qs = gate.qs]
NeedsNot(why) == gate' = [gate EXCEPT !.at = "verdict", !.why = why, !.asking = Asking(gate.c),
                                      !.torn = why = "reviewed" /\ target.of # gate.round]

\* The plan the requirement is decided on; an empty or unreadable one asks without a digest.
GatePlan ==
  /\ gate.at = "plan"
  /\ LET c == gate.c
     IN IF c.approval = "off" THEN NeedsNot("off")
        ELSE IF c.approval = "on" \/ ~c.unattended \/ plan = None \/ Touches(c, plan) THEN Asks
        ELSE gate' = [gate EXCEPT !.at = "declared", !.plan = plan]
  /\ UNCHANGED <<plan, state, disk, architect, review, approve, history>>

\* _declared_high_risk: the round's file, read for the first time.
GateDeclared ==
  /\ gate.at = "declared"
  /\ IF latest.declared \/ DesignMode(gate.c) = "off" THEN Asks
     ELSE gate' = [gate EXCEPT !.at = "report", !.first = latest.round]
  /\ UNCHANGED <<plan, state, disk, architect, review, approve, history>>

GateReport ==
  /\ gate.at = "report" /\ gate' = [gate EXCEPT !.at = "latest", !.rep = report]
  /\ UNCHANGED <<plan, state, disk, architect, review, approve, history>>

\* The round's file, read for the second time.
GateLatest ==
  /\ gate.at = "latest"
  /\ CASE SkipClears(gate.c, gate.plan, gate.rep, latest.round) -> NeedsNot("skipped")
       [] RoundClears(gate.c, gate.rep, latest.round) -> gate' = [gate EXCEPT !.at = "frozen", !.round = latest.round]
       [] OTHER -> Asks
  /\ UNCHANGED <<plan, state, disk, architect, review, approve, history>>

\* The frozen plan and decisions, read after the round they belong to was.
GateFrozen ==
  /\ gate.at = "frozen"
  /\ IF OfCurrentPlan(gate.plan, DecisionsText(gate.qs)) /\ NothingAboveLow(gate.c, gate.rep)
     THEN NeedsNot("reviewed")
     ELSE Asks
  /\ UNCHANGED <<plan, state, disk, architect, review, approve, history>>

\* A plan that is not the one decided on any more needs approving after all.
Unchanged(now) == gate.plan \in {None, now}

\* The approval recorded is of this plan, this round and, where questions are asked, these answers.
Approves(a, p, round, qs, asking) ==
  /\ a # None /\ a.plan = p /\ a.round = round
  /\ asking => a.answers = DecisionsDigest(qs)

\* approval.current reads the plan and the round again: the implementer goes ahead in this step
\* (Waived, Approved), or is refused.
GateVerdict ==
  /\ gate.at = "verdict" /\ gate' = Idle
  /\ UNCHANGED <<plan, state, disk, architect, review, approve, history>>

Waived(why) == gate.at = "verdict" /\ ~gate.ask /\ gate.why = why /\ Unchanged(plan)
Approved ==
  /\ gate.at = "verdict" /\ (gate.ask \/ ~Unchanged(plan))
  /\ Approves(gate.approval, plan, latest.round, gate.qs, gate.asking)

-----------------------------------------------------------------------------

User == RecordQuestions \/ AnswerQuestion \/ WritePlan \/ Triage
Architect == StartArchitect \/ LeaveToArchitect
Review ==
  \/ StartReview \/ FreezeDecisions \/ FreezeRound
  \/ EndReview \/ EndUnreviewed \/ ReviewDies
Approve == StartApprove \/ ApproveReport \/ ApproveRound \/ ApproveState \/ RecordApproval
Gate ==
  \/ StartGate \/ GateState \/ GatePlan \/ GateDeclared
  \/ GateReport \/ GateLatest \/ GateFrozen \/ GateVerdict

ApprovalNext == User \/ Architect \/ Review \/ Approve \/ Gate

ApprovalSpec == ApprovalInit /\ [][ApprovalNext]_approvalVars

-----------------------------------------------------------------------------
(* Properties *)

Decisions == Seq(Seq(Answer \cup {"left"}))
Report ==
  [round: DesignRound, unreviewed: DesignRound, plan: Plan \cup {None}, decisions: Decisions,
   found: SUBSET Finding, open: SUBSET Finding, short: BOOLEAN, again: SUBSET Finding]
Recorded ==
  [plan: Plan, round: DesignRound, shown: SUBSET Finding, answers: Seq(Answer \cup {"left", None})]
Reviewing ==
  [at: {"decisions", "round"}, decisions: Decisions, high: BOOLEAN, before: BOOLEAN] \cup [at: {"reviewing"}]
AtReport == [at: {"report"}, plan: Plan]
AtRound == [at: {"round"}, plan: Plan, round: DesignRound, unreviewed: DesignRound, found: SUBSET Finding]
AtState ==
  [at: {"state", "record", "record unasked"}, plan: Plan, round: DesignRound, shown: SUBSET Finding]
GateType ==
  [at: {"state", "plan", "declared", "report", "latest", "frozen", "verdict"}, c: Setting \cup {None},
   approval: Recorded \cup {None}, qs: Decisions, plan: Plan \cup {None}, first: DesignRound,
   rep: Report \cup {None}, round: DesignRound, ask: BOOLEAN,
   why: {"none", "off", "skipped", "reviewed"}, asking: BOOLEAN, torn: BOOLEAN]

\* Every file holds what its commands write to it, and every command what it has read.
ApprovalTypeOK ==
  /\ plan \in Plan \cup {None} /\ questions \in Decisions /\ approval \in Recorded \cup {None}
  /\ target \in [plan: Plan \cup {None}, decisions: Decisions, of: 0 .. MaxDesign + 1]
  /\ latest \in [round: DesignRound, declared: BOOLEAN] /\ report \in Report
  /\ architect \in {Idle, [at |-> "leave"]} /\ review \in Reviewing \cup {Idle}
  /\ approve \in AtReport \cup AtRound \cup AtState \cup {Idle} /\ gate \in GateType \cup {Idle}
  /\ edits \in 0 .. MaxEdits /\ declared \in DesignRound /\ found \subseteq Finding

\* An implementer that goes ahead as approved goes ahead on a plan a user said yes to as it is
\* now: the same text, over the round that is the latest, shown the findings that round came to,
\* and with the answers there were when the gate read them (approval.record, approval.current).
ApprovedAsSeen ==
  [][GateVerdict /\ Approved =>
       LET y == gate.approval
       IN /\ y.plan = plan /\ y.round = latest.round /\ y.shown = found
          /\ gate.asking => y.answers = DecisionsDigest(gate.qs)]_approvalVars

\* An implementer that goes ahead with nobody asked goes ahead on a plan that touches no
\* high-risk path, whatever the project file says, and no design round begun by then had
\* --high-risk, in however many rounds without it since (approval_auto.requirement).
UnattendedUnrisky ==
  [][GateVerdict /\ (Waived("skipped") \/ Waived("reviewed")) =>
       ~Touches(gate.c, plan) /\ (declared = 0 \/ gate.first < declared)]_approvalVars

ReadInFull(rep) == ~rep.short /\ rep.plan = plan /\ rep.decisions = DecisionsText(gate.qs)

\* With nobody asked because the design review left nothing above Low, a design reviewer has read
\* that whole plan, with the decisions as they are (approval_auto.py:12). Not so of a gate that
\* read the frozen plan of a round that had not begun yet (torn).
AutoReviewed ==
  [][GateVerdict /\ Waived("reviewed") /\ ~gate.torn => ReadInFull(gate.rep)]_approvalVars

\* A design review that is off without the project file, which turns it on, has read the whole plan.
TurnedOnAndRead(c) == c.design = "off" /\ RoundClears(c, report, latest.round)

\* An open Low the project's list of severities leaves out is not waited for: references/configuration.md
\* lists such a list among what a project file makes looser (_GATES), and says so to the user.
LeavesLowOut(c) ==
  /\ "low" \in report.open /\ "low" \in Blocking(WithoutProject(c)) \ Blocking(c)
  /\ RoundClears(c, report, latest.round)

\* What a project file says makes no plan go without approval that would need it without the
\* file (config_trust, trusted_risk_settings, _skips_without_project, _panel_from_project), but
\* that the file may ask for a design review where there would be none, and may leave Low out of
\* the severities that block.
ProjectCannotLoosen ==
  plan # None =>
    \A c \in Setting :
      ~Required(c, plan, DecisionsText(questions)) /\ ~TurnedOnAndRead(c) /\ ~LeavesLowOut(c) =>
        ~Required(WithoutProject(c), plan, DecisionsText(questions))

=============================================================================
