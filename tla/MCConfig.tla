------------------------------ MODULE MCConfig ------------------------------
(* The panels of the configuration files, or the hooks that follow their language. *)
EXTENDS Seats, Hooks, TLC

CONSTANTS de, topics
VARIABLE topic

\* Seats: presets and files.
Fitted(who, id, warned, cond) == [who |-> who, id |-> id, warned |-> warned, cond |-> cond]

MCFits ==
  {[code |-> <<Fitted(-1, 1, FALSE, FALSE), Fitted(-2, 2, TRUE, TRUE)>>, design |-> None],
   [code |-> <<Fitted(-1, 1, FALSE, FALSE)>>, design |-> <<Fitted(-3, 1, FALSE, FALSE)>>]}

Some == [Empty EXCEPT !.extra = <<Fitted(-4, 1, FALSE, FALSE), Fitted(-5, 2, TRUE, TRUE)>>]
Listed == [Empty EXCEPT !.list = <<Fitted(-6, 2, TRUE, FALSE), Fitted(-7, 1, FALSE, TRUE)>>,
                        !.dextra = <<Fitted(-8, 1, FALSE, TRUE)>>]
Own == [Empty EXCEPT !.extra = <<Fitted(-9, 3, FALSE, TRUE)>>]
OwnDesign == [Empty EXCEPT !.dlist = <<Fitted(-10, 2, FALSE, FALSE)>>]

MCStarts == {[s \in Scope |-> IF s = "global" THEN g ELSE p] : g \in {Empty, Some, Listed},
                                                              p \in {Empty, Own, OwnDesign}}

\* Hooks: languages.
NoLanguage == [l \in Layer |-> Unset]
MCConfigured == {NoLanguage, [NoLanguage EXCEPT !["project"] = de]}
Symm == Permutations(Proc)

\* A behaviour is about one of the two, and the other is as it is before anything was configured.
Init ==
  /\ SeatsInit /\ HooksInit
  /\ topic \in topics
  /\ topic # "panels" => file = [s \in Scope |-> Empty] /\ fit.design = None
  /\ topic # "hooks" => settings.ours = "none" /\ lang = NoLanguage
Next ==
  /\ UNCHANGED topic
  /\ \/ topic = "panels" /\ SeatsNext /\ UNCHANGED hooksVars
     \/ topic = "hooks" /\ HooksNext /\ UNCHANGED seatVars
Spec == Init /\ [][Next]_<<topic, seatVars, hooksVars>>
=============================================================================
