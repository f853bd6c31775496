------------------------------- MODULE Panel -------------------------------
(***************************************************************************)
(* Who sits on a review round, and whether the round runs at all: the     *)
(* level a change is given, the test gate, the reviewers that join only   *)
(* some rounds, the roles with nothing to read, and the cut of the panel  *)
(* on a small change.                                                     *)
(*                                                                         *)
(* A change is what the policy can tell of it: whether a path is          *)
(* high-risk, whose own patterns match, which role rules found their      *)
(* evidence, whether that evidence is in doubt, and whether it is small.  *)
(* Patterns, reasons and notes are left out.                              *)
(***************************************************************************)
EXTENDS Naturals, FiniteSets

CONSTANTS Seat      \* positions in the configured panel: 1 .. n

ASSUME SeatsOK == IsFiniteSet(Seat) /\ Seat # {} /\ Seat = 1 .. Cardinality(Seat)

Rule == {"security", "test", "architecture"}
Level == {"aggressive", "balanced", "quality"}
Reviewer == [role: Rule \cup {"general"}, when: {"always", "high-risk", "paths"},
             relevance: Rule \cup {"unset", "always"}]
Change == [risky: BOOLEAN, own: SUBSET Seat, evidence: SUBSET Rule, doubt: BOOLEAN, small: BOOLEAN]
\* What is asked of a round: --high-risk, --only (and the seats it names), and the seats that
\* reported a finding the round has to re-check.
Asked == [declared: BOOLEAN, only: BOOLEAN, named: SUBSET Seat, carried: SUBSET Seat]

-----------------------------------------------------------------------------
(* The level and the gate. *)

\* at_least(level, "quality") on a high-risk path.
LevelOf(level, ch) == IF ch.risky THEN "quality" ELSE level

\* Only a recorded failure is worth refusing on; the quality level never refuses.
Gate(level, ch, status) ==
  IF LevelOf(level, ch) = "quality" \/ status = "ok" THEN "allow"
  ELSE IF status = "failed" THEN "refuse" ELSE "warn"

-----------------------------------------------------------------------------
(* Who qualifies. *)

\* condition_reviewers: a seat with a condition joins a round that calls for it.
Joins(panel, s, ch, ask) ==
  \/ panel[s].when = "high-risk" /\ (ch.risky \/ ask.declared)
  \/ panel[s].when = "paths" /\ s \in ch.own
  \/ s \in ask.carried \/ ask.only

\* relevance_rule: a general seat is never judged, a security seat only when it asks to be.
RuleOf(seat) ==
  IF seat.role = "general" THEN "none"
  ELSE IF seat.relevance # "unset" THEN (IF seat.relevance \in Rule THEN seat.relevance ELSE "none")
  ELSE IF seat.role = "security" THEN "none" ELSE seat.role

\* relevance_records: a seat that always runs is judged, unless the evidence is in doubt.
Judged(panel, s, ch) == panel[s].when = "always" /\ RuleOf(panel[s]) # "none" /\ ~ch.doubt

\* Only evidence of absence leaves a judged seat out.
Needed(panel, s, ch, ask) ==
  ch.risky \/ ask.declared \/ s \in ask.carried \/ ask.only \/ RuleOf(panel[s]) \in ch.evidence

Wanted(panel, s, ch, ask) ==
  IF panel[s].when # "always" THEN Joins(panel, s, ch, ask)
  ELSE Judged(panel, s, ch) => Needed(panel, s, ch, ask)

\* choose_reviewers with a limit of one: a general reviewer first, then configuration order.
FirstOf(panel, seats) ==
  LET general == {s \in seats : panel[s].role = "general"}
      among == IF general # {} THEN general ELSE seats
  IN {s \in among : \A t \in among : s <= t}

\* Mutant of Qualified: nobody is kept when the rules leave everybody out.
QualifiedByRules(panel, seats, ch, ask) == {s \in seats : Wanted(panel, s, ch, ask)}

\* join_relevance, _keep_one: when the rules leave nobody, one seat runs after all.
Qualified(panel, seats, ch, ask) ==
  LET wanted == {s \in seats : Wanted(panel, s, ch, ask)} IN
  IF wanted = {} /\ \E s \in seats : Judged(panel, s, ch) THEN FirstOf(panel, seats) ELSE wanted

\* keeps_whole: a seat with a condition that qualified, or one kept by its own finding.
KeepsWhole(panel, seats, ch, ask) ==
  \/ ask.declared
  \/ \E s \in Qualified(panel, seats, ch, ask) :
       \/ panel[s].when # "always"
       \/ Judged(panel, s, ch) /\ ~ch.risky /\ s \in ask.carried

\* decide, and the limit cmd_review_run applies: a small change short of quality gets one seat.
Sits(panel, level, ch, ask) ==
  LET seats == IF ask.only THEN ask.named ELSE Seat
      in == IF ask.only THEN seats ELSE Qualified(panel, seats, ch, ask)
  IN IF /\ LevelOf(level, ch) # "quality" /\ ch.small /\ Cardinality(in) > 1
        /\ ~ask.only /\ ~KeepsWhole(panel, seats, ch, ask)
       THEN FirstOf(panel, in) ELSE in

\* The seats a round's records leave out: their earlier reports are not read either.
Excluded(panel, ch, ask) ==
  LET seats == IF ask.only THEN ask.named ELSE Seat IN
  {s \in seats : (panel[s].when # "always" \/ Judged(panel, s, ch))
                   /\ s \notin Qualified(panel, seats, ch, ask)}
=============================================================================
