----------------------------- MODULE MCConduct -----------------------------
(* A small instance of Conduct: two seats, among a general reviewer who always runs, one who    *)
(* joins a high-risk round only, and a tester judged by what the change holds.                  *)
EXTENDS Conduct, TLC

MCSeat == 1 .. 2

General == [role |-> "general", when |-> "always", relevance |-> "unset"]
RiskOnly == [role |-> "security", when |-> "high-risk", relevance |-> "unset"]
Tester == [role |-> "test", when |-> "always", relevance |-> "unset"]

Plain == [risky |-> FALSE, own |-> {}, evidence |-> {}, doubt |-> FALSE, small |-> FALSE]
Tested == [Plain EXCEPT !.evidence = {"test"}, !.small = TRUE]
Risky == [Plain EXCEPT !.risky = TRUE, !.small = TRUE]

Base == [panel |-> <<Tester, General>>, level |-> "balanced", alongside |-> FALSE, recheck |-> TRUE,
         guided |-> TRUE, changes |-> {Plain, Tested, Risky}, sized |-> BOOLEAN]

\* As advised: with the loop that closes on the whole change, before the tests or beside them,
\* and without it.  As it likes: a panel the rules may leave empty, and no change too large.
MCSetups ==
  {Base,
   [Base EXCEPT !.alongside = TRUE, !.panel = <<RiskOnly, General>>, !.changes = {Plain, Risky}],
   [Base EXCEPT !.recheck = FALSE, !.panel = <<Tester, RiskOnly>>],
   [Base EXCEPT !.guided = FALSE, !.panel = <<Tester, RiskOnly>>, !.changes = {Plain, Risky},
                !.sized = {FALSE}]}
=============================================================================
