----------------------------- MODULE MCApproval -----------------------------
(* A small instance of Approval: one plan within the patterns and one outside them. *)
EXTENDS Approval, TLC

MCNames == [p \in Plan |-> IF p = "risky" THEN {"auth"} ELSE {}]
MCContained == {"small", "risky"}

Base == [approval |-> "auto", ask |-> "auto", unattended |-> TRUE, design |-> "on",
         risky |-> {"auth"}, blocks |-> {"high"},
         projectDesign |-> None, projectRisky |-> None, projectPanel |-> FALSE, projectBlocks |-> None]

\* Nobody watching; approval asked for; a project file that loosens all it can; one that turns the
\* design review on and lists Low alone; and one that leaves Low out.
MCSetting ==
  {[Base EXCEPT !.design = "auto"],
   [Base EXCEPT !.approval = "on", !.ask = "off"],
   [Base EXCEPT !.projectDesign = "auto", !.projectRisky = {}, !.projectPanel = TRUE],
   [Base EXCEPT !.design = "off", !.projectDesign = "on", !.projectBlocks = {"low"}],
   [Base EXCEPT !.blocks = {"low", "high"}, !.projectBlocks = {"high"}]}

MCStart == {"small"}

MCReports ==
  {[found |-> {"low"}, short |-> FALSE], [found |-> {"high"}, short |-> FALSE], [found |-> {}, short |-> TRUE]}

\* Bounds: no gate beside an approval being given (the one writes state.json in one step, the
\* other reads it in one), and neither beside an architect's run that is about to take over the open
\* questions; and a gate that asks about the design review is in a workflow with no approval.
Apart ==
  /\ gate = Idle \/ approve = Idle
  /\ architect # Idle => gate = Idle /\ approve = Idle
Unattended == gate.at \in {"declared", "report", "latest", "frozen"} => approval = None

\* No gate goes by the last two configurations, which are there for ProjectCannotLoosen.  A gate that asks
\* for an approval there is none of is not followed: it is refused, whatever comes.  A second round
\* finds something above Low, or comes to nothing.
Compared ==
  gate # Idle /\ gate.c # None =>
    gate.c.design # "off" /\ gate.c.blocks = {"high"} /\ gate.c.projectBlocks = None
Followed ==
  gate.at \in {"plan", "verdict"} =>
    gate.approval # None \/ (~gate.ask /\ (gate.c # None => gate.c.approval # "on"))
Fewer == report.round = 2 => report.found # {"low"}

Bound == Apart /\ Unattended /\ Compared /\ Followed /\ Fewer

=============================================================================
