---------------------------- MODULE AbstractLock ----------------------------
(***************************************************************************)
(* What file_lock promises those who use it: one process at a time is      *)
(* inside, every process that asks gets inside, and the death of one never *)
(* keeps the others out.  It is a best effort: two may be inside together  *)
(* after a death, and after one went in that could not read whose the lock *)
(* is.                                                                     *)
(***************************************************************************)
EXTENDS FiniteSets

CONSTANT Proc

VARIABLES
  waiting,  \* the processes that ask for the lock
  inside,   \* those that go on as if they had it
  lapsed    \* whether one died, or went in past another

vars == <<waiting, inside, lapsed>>

Init == waiting = {} /\ inside = {} /\ lapsed = FALSE

Ask(p) ==
  /\ p \notin waiting \cup inside
  /\ waiting' = waiting \cup {p} /\ UNCHANGED <<inside, lapsed>>

Enter(p) ==
  /\ p \in waiting /\ (inside = {} \/ lapsed)
  /\ waiting' = waiting \ {p} /\ inside' = inside \cup {p} /\ UNCHANGED lapsed

Overtake(p) ==
  /\ p \in waiting /\ lapsed' = TRUE
  /\ waiting' = waiting \ {p} /\ inside' = inside \cup {p}

Leave(p) ==
  /\ p \in inside
  /\ inside' = inside \ {p} /\ UNCHANGED <<waiting, lapsed>>

Die(p) ==
  /\ p \in waiting \cup inside
  /\ waiting' = waiting \ {p} /\ inside' = inside \ {p} /\ lapsed' = TRUE

Next == \E p \in Proc : Ask(p) \/ Enter(p) \/ Overtake(p) \/ Leave(p) \/ Die(p)
Fairness == \A p \in Proc : WF_vars(Leave(p)) /\ SF_vars(Enter(p))
Spec == Init /\ [][Next]_vars
FairSpec == Spec /\ Fairness

\* Two processes are never inside together, unless it has lapsed.
Exclusive == ~lapsed => \A p, q \in inside : p = q
=============================================================================
