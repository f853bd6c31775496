------------------------------ MODULE FileLock ------------------------------
(***************************************************************************)
(* file_lock of workspace.py: a lock file made with O_EXCL, a bounded wait *)
(* that a change of hands extends, and the breaking of a lock that looks   *)
(* abandoned.  Each system call on the lock file is an action.  Time goes  *)
(* on in ticks: the sleep between two polls.                               *)
(***************************************************************************)
EXTENDS Naturals, FiniteSets

CONSTANTS
  Proc,        \* processes, or threads, that use the lock
  Timeout,     \* timeout: ticks a waiter bears with one holder
  MaxWait,     \* max_wait: ticks it waits in all
  StaleAfter,  \* stale_after: the age at which a lock file counts as abandoned
  Hold,        \* bound: ticks a process stays inside
  Prompt,      \* whether a process at work takes no time between two calls
  MaxEntries,  \* bound: how often the lock is asked for
  MaxDeaths,   \* bound: how many processes die
  NoFile       \* no lock file

ASSUME LockConstantsOK ==
  /\ Timeout \in Nat \ {0} /\ MaxWait \in Nat /\ StaleAfter \in Nat /\ Hold \in Nat
  /\ Prompt \in BOOLEAN /\ MaxEntries \in Nat /\ MaxDeaths \in Nat

VARIABLES
  file,     \* the lock file: whose it is, whether its token is in it yet, and its age
  pc,       \* where each process is
  token,    \* the token of its __enter__, 0 outside
  acquired, \* whether it made the lock file
  seen,     \* the holder it saw last; 0 for ""
  left,     \* ticks to its deadline
  waited,   \* ticks since it asked
  held,     \* ticks it has been inside
  entries,  \* how often the lock was asked for: the tokens given out
  deaths,   \* how many processes died
  broken,   \* whether a lock file was removed for stale (history)
  blind     \* whether one gave up on a lock it read nobody in (history)

timers == <<left, waited, held>>
vars == <<file, pc, token, acquired, seen, timers, entries, deaths, broken, blind>>

Tokens == 1 .. MaxEntries
File   == [by: Tokens, written: BOOLEAN, age: 0 .. StaleAfter + 1]
ASSUME NoFileOK == NoFile \notin File
Label  == {"idle", "try", "write", "look", "break", "poll", "sleep", "in", "dead"}
Asking == {"try", "write", "look", "break", "poll", "sleep"}

Goto(p, label) == pc' = [pc EXCEPT ![p] = label]
At(p, label) == pc[p] = label

Init ==
  /\ file = NoFile
  /\ pc = [p \in Proc |-> "idle"] /\ token = [p \in Proc |-> 0]
  /\ acquired = [p \in Proc |-> FALSE] /\ seen = [p \in Proc |-> 0]
  /\ left = [p \in Proc |-> 0] /\ waited = [p \in Proc |-> 0] /\ held = [p \in Proc |-> 0]
  /\ entries = 0 /\ deaths = 0 /\ broken = FALSE /\ blind = FALSE

-----------------------------------------------------------------------------
(* A process. *)

\* __init__ and the start of __enter__.  Mutant: stale_after taken for the deadline.
EnterStaleTimeout(p) ==
  /\ At(p, "idle") /\ entries < MaxEntries /\ Goto(p, "try")
  /\ entries' = entries + 1 /\ token' = [token EXCEPT ![p] = entries + 1]
  /\ left' = [left EXCEPT ![p] = StaleAfter]
  /\ UNCHANGED <<file, acquired, seen, waited, held, deaths, broken, blind>>
Enter(p) ==
  /\ At(p, "idle") /\ entries < MaxEntries /\ Goto(p, "try")
  /\ entries' = entries + 1 /\ token' = [token EXCEPT ![p] = entries + 1]
  /\ left' = [left EXCEPT ![p] = Timeout]
  /\ UNCHANGED <<file, acquired, seen, waited, held, deaths, broken, blind>>

\* The return from __enter__, with its locals.
GoIn(p) ==
  /\ Goto(p, "in") /\ seen' = [seen EXCEPT ![p] = 0]
  /\ left' = [left EXCEPT ![p] = 0] /\ waited' = [waited EXCEPT ![p] = 0]

\* os.open with O_CREAT and O_EXCL.  Mutant: an existing file is opened too.
CreateOver(p) ==
  /\ At(p, "try") /\ file' = [by |-> token[p], written |-> FALSE, age |-> 0] /\ Goto(p, "write")
  /\ UNCHANGED <<token, acquired, seen, timers, entries, deaths, broken, blind>>
Create(p) ==
  /\ At(p, "try")
  /\ \/ /\ file = NoFile /\ file' = [by |-> token[p], written |-> FALSE, age |-> 0]
        /\ Goto(p, "write")
     \/ file # NoFile /\ Goto(p, "look") /\ UNCHANGED file
  /\ UNCHANGED <<token, acquired, seen, timers, entries, deaths, broken, blind>>

\* The token is written into the file that was made, which may not be the one of that name by now.
\* Mutant: the lock is not recorded as acquired.
WriteIn(p) ==
  /\ At(p, "write") /\ GoIn(p)
  /\ file' = IF file # NoFile /\ file.by = token[p] THEN [by |-> token[p], written |-> TRUE, age |-> 0] ELSE file
  /\ UNCHANGED <<token, held, entries, deaths, broken, blind>>
WriteUnrecorded(p) == WriteIn(p) /\ UNCHANGED acquired
WriteToken(p) == WriteIn(p) /\ acquired' = [acquired EXCEPT ![p] = TRUE]

\* _break_if_stale: the age of the file, and then its removal.
Look(p) ==
  /\ At(p, "look")
  /\ Goto(p, IF file = NoFile THEN "try" ELSE IF file.age <= StaleAfter THEN "poll" ELSE "break")
  /\ UNCHANGED <<file, token, acquired, seen, timers, entries, deaths, broken, blind>>

Break(p) ==
  /\ At(p, "break")
  /\ IF file = NoFile THEN Goto(p, "poll") /\ UNCHANGED <<file, broken>>
     ELSE Goto(p, "try") /\ file' = NoFile /\ broken' = TRUE
  /\ UNCHANGED <<token, acquired, seen, timers, entries, deaths, blind>>

\* _holder: nobody while there is no file, or no token in it.
Holder == IF file = NoFile THEN 0 ELSE IF file.written THEN file.by ELSE 0

\* The wait: a new holder puts the deadline off; past it, or past max_wait, the process goes on
\* without the lock.  Mutant: the wait is bounded in all, not per holder.
PollTill(p, deadline, holder) ==
  /\ At(p, "poll")
  /\ IF deadline = 0 \/ waited[p] >= MaxWait
     THEN GoIn(p) /\ blind' = (blind \/ Holder = 0)
     ELSE /\ Goto(p, "sleep") /\ left' = [left EXCEPT ![p] = deadline]
          /\ seen' = [seen EXCEPT ![p] = holder] /\ UNCHANGED <<waited, blind>>
  /\ UNCHANGED <<file, token, acquired, held, entries, deaths, broken>>
PollPatiently(p) == PollTill(p, left[p], Holder)
Poll(p) ==
  IF Holder \notin {0, seen[p]} THEN PollTill(p, Timeout, Holder) ELSE PollTill(p, left[p], seen[p])

\* __exit__: who acquired the lock removes the lock file, whosever it is by now.
Leave(p) ==
  /\ At(p, "in") /\ Goto(p, "idle")
  /\ file' = IF acquired[p] THEN NoFile ELSE file
  /\ acquired' = [acquired EXCEPT ![p] = FALSE] /\ token' = [token EXCEPT ![p] = 0]
  /\ held' = [held EXCEPT ![p] = 0]
  /\ UNCHANGED <<seen, left, waited, entries, deaths, broken, blind>>

-----------------------------------------------------------------------------
(* The rest of the world. *)

Kill(p) ==
  /\ pc[p] \in Asking \cup {"in"} /\ deaths < MaxDeaths
  /\ deaths' = deaths + 1 /\ Goto(p, "dead")
  /\ UNCHANGED <<file, token, acquired, seen, timers, entries, broken, blind>>

\* Time: a tick wakes those that sleep.  When processes are prompt it stands still while one is
\* between two calls.
Tick ==
  /\ \A p \in Proc : /\ Prompt => pc[p] \in {"idle", "sleep", "in", "dead"}
                     /\ At(p, "in") => held[p] < Hold
  /\ left' = [p \in Proc |-> IF pc[p] \in Asking /\ left[p] > 0 THEN left[p] - 1 ELSE left[p]]
  /\ waited' = [p \in Proc |-> IF pc[p] \in Asking /\ waited[p] < MaxWait THEN waited[p] + 1 ELSE waited[p]]
  /\ held' = [p \in Proc |-> IF At(p, "in") THEN held[p] + 1 ELSE held[p]]
  /\ pc' = [p \in Proc |-> IF At(p, "sleep") THEN "try" ELSE pc[p]]
  /\ file' = IF file # NoFile /\ file.age <= StaleAfter THEN [file EXCEPT !.age = @ + 1] ELSE file
  /\ UNCHANGED <<token, acquired, seen, entries, deaths, broken, blind>>

-----------------------------------------------------------------------------

Step(p) == Create(p) \/ WriteToken(p) \/ Look(p) \/ Break(p) \/ Poll(p) \/ Leave(p)
Next ==
  \/ \E p \in Proc : Enter(p) \/ Step(p) \/ Kill(p)
  \/ Tick

Spec == Init /\ [][Next]_vars
\* A process that can go on does, a section ends, and time passes.
FairSpec == Spec /\ WF_vars(Tick) /\ \A p \in Proc : WF_vars(Step(p))

-----------------------------------------------------------------------------
(* What should hold. *)

TypeOK ==
  /\ file \in File \cup {NoFile}
  /\ pc \in [Proc -> Label] /\ token \in [Proc -> 0 .. MaxEntries]
  /\ acquired \in [Proc -> BOOLEAN] /\ seen \in [Proc -> 0 .. MaxEntries]
  /\ left \in [Proc -> 0 .. Timeout] /\ waited \in [Proc -> 0 .. MaxWait] /\ held \in [Proc -> 0 .. Hold]
  /\ entries \in 0 .. MaxEntries /\ deaths \in 0 .. MaxDeaths /\ broken \in BOOLEAN /\ blind \in BOOLEAN

Inside == {p \in Proc : At(p, "in")}

\* A lock file outlasts nobody but the dead: the process that made it is inside, or was killed,
\* so that a lock that does not move is one to be broken.
LockHasHolder ==
  file # NoFile => \E p \in Proc : token[p] = file.by /\ pc[p] \in {"write", "in", "dead"}

\* However slow and however long inside, two processes have the lock together only after a lock
\* was taken for stale: not by a queue, by a wait given up, or by a death.
BrokenOrExclusive ==
  broken \/ \A p, q \in Proc : acquired[p] /\ acquired[q] /\ At(p, "in") /\ At(q, "in") => p = q

\* To those who use it, it is the abstract lock: nobody goes in past another but after a death or
\* by giving up at a moment the lock file is absent or empty, and whoever asks gets in.
Abstract == INSTANCE AbstractLock WITH
  waiting <- {p \in Proc : pc[p] \in Asking}, inside <- Inside, lapsed <- deaths > 0 \/ blind
ImplementsLock == Abstract!FairSpec
=============================================================================
