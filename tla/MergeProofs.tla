---------------------------- MODULE MergeProofs -----------------------------
(***************************************************************************)
(* Proofs about what a merge of units rests on: the lock that keeps one    *)
(* alone, and what it does to the files.                                   *)
(*                                                                         *)
(* FileLock.  For any number of processes and any timing: what the lock    *)
(* file stands for, and that only the breaking of a stale lock lets two    *)
(* processes have it together.                                             *)
(*                                                                         *)
(* UnitsMerge.  For any files, units and edits of the user: a merge that   *)
(* fails leaves every file as it was, but for what it says it could not    *)
(* put back, and nothing a unit made is dropped.  The argument: a result   *)
(* is one of what was read, a file that was written is as its result says, *)
(* each once, and what is not taken in the files is in a copy.             *)
(***************************************************************************)
EXTENDS FileLock, UnitsMerge, SequenceTheorems, TLAPS

-----------------------------------------------------------------------------
(* What the lock file stands for: the invariant of FileLock. *)

\* Whether a process made the lock file and has not removed it yet.
Owns(p) == pc[p] = "write" \/ (pc[p] = "in" /\ acquired[p])

\* A process has a token while it is in the lock's code, one that was given out.
TokensGiven == \A p \in Proc : token[p] <= entries /\ (token[p] = 0 <=> pc[p] = "idle")

\* No two processes have the same token.
TokensDiffer == \A p, q \in Proc : token[p] # 0 /\ token[p] = token[q] => p = q

\* The lock file was made by a process that has not left, or by a dead one.
FileOwned == file # NoFile => \E p \in Proc : token[p] = file.by /\ (Owns(p) \/ pc[p] = "dead")

\* While no lock file was broken, the owner's is the one there is.
OwnerHasFile == broken \/ \A p \in Proc : Owns(p) => file # NoFile /\ file.by = token[p]

\* Only inside is a process marked as having acquired the lock.
AcquiredInside == \A p \in Proc : acquired[p] => pc[p] \in {"in", "dead"}

LockInv == TypeOK /\ TokensGiven /\ AcquiredInside /\ TokensDiffer /\ FileOwned /\ OwnerHasFile

-----------------------------------------------------------------------------
(* Types. *)

\* Every step keeps the types, given that a process has a token while it is in the lock's code.
LEMMA TypeStep == TypeOK /\ TokensGiven /\ [Next]_vars => TypeOK'
<1> USE LockConstantsOK DEF File, Tokens, Label, At, Goto, timers
<1> SUFFICES ASSUME TypeOK, TokensGiven, [Next]_vars PROVE TypeOK'
  OBVIOUS
<1>1. ASSUME NEW p \in Proc, Enter(p) PROVE TypeOK'
  BY <1>1 DEF TypeOK, Enter
<1>2. ASSUME NEW p \in Proc, Create(p) PROVE TypeOK'
  <2>1. token[p] \in 1 .. MaxEntries
    BY <1>2 DEF Create, TypeOK, TokensGiven
  <2>2. [by |-> token[p], written |-> FALSE, age |-> 0] \in File
    BY <2>1
  <2>3. file' \in File \cup {NoFile} /\ pc' \in [Proc -> Label]
    BY <1>2, <2>2 DEF TypeOK, Create
  <2> QED
    BY <1>2, <2>3 DEF TypeOK, Create
<1>3. ASSUME NEW p \in Proc, WriteToken(p) PROVE TypeOK'
  <2>1. file' \in File \cup {NoFile}
    <3>1. CASE file = NoFile
      BY <1>3, <3>1 DEF WriteToken, WriteIn
    <3>2. CASE file # NoFile
      BY <1>3, <3>2 DEF WriteToken, WriteIn, TypeOK
    <3> QED
      BY <3>1, <3>2
  <2> QED
    BY <1>3, <2>1 DEF TypeOK, WriteToken, WriteIn, GoIn
<1>4. ASSUME NEW p \in Proc, Look(p) PROVE TypeOK'
  BY <1>4 DEF TypeOK, Look
<1>5. ASSUME NEW p \in Proc, Break(p) PROVE TypeOK'
  BY <1>5 DEF TypeOK, Break
<1>6. ASSUME NEW p \in Proc, Poll(p) PROVE TypeOK'
  <2>1. Holder \in 0 .. MaxEntries
    BY DEF Holder, TypeOK
  <2>2. PICK deadline \in 0 .. Timeout, holder \in 0 .. MaxEntries : PollTill(p, deadline, holder)
    <3>1. left[p] \in 0 .. Timeout /\ seen[p] \in 0 .. MaxEntries /\ Timeout \in 0 .. Timeout
      BY DEF TypeOK
    <3> QED
      BY <1>6, <2>1, <3>1 DEF Poll
  <2>3. CASE deadline = 0 \/ waited[p] >= MaxWait
    <3>1. blind' \in BOOLEAN
      BY <2>2, <2>3 DEF TypeOK, PollTill
    <3> QED
      BY <2>2, <2>3, <3>1 DEF TypeOK, PollTill, GoIn
  <2>4. CASE ~(deadline = 0 \/ waited[p] >= MaxWait)
    BY <2>2, <2>4 DEF TypeOK, PollTill
  <2> QED
    BY <2>3, <2>4
<1>7. ASSUME NEW p \in Proc, Leave(p) PROVE TypeOK'
  BY <1>7 DEF TypeOK, Leave
<1>8. ASSUME NEW p \in Proc, Kill(p) PROVE TypeOK'
  BY <1>8 DEF TypeOK, Kill
<1>9. CASE Tick
  <2>1. file' \in File \cup {NoFile}
    <3>1. CASE file = NoFile
      BY <1>9, <3>1 DEF Tick
    <3>2. CASE file # NoFile
      BY <1>9, <3>2 DEF Tick, TypeOK
    <3> QED
      BY <3>1, <3>2
  <2>2. left' \in [Proc -> 0 .. Timeout] /\ waited' \in [Proc -> 0 .. MaxWait]
    BY <1>9 DEF Tick, TypeOK
  <2>3. held' \in [Proc -> 0 .. Hold]
    BY <1>9 DEF Tick, TypeOK
  <2>4. pc' \in [Proc -> Label]
    BY <1>9 DEF Tick, TypeOK
  <2> QED
    BY <1>9, <2>1, <2>2, <2>3, <2>4 DEF Tick, TypeOK
<1>10. CASE UNCHANGED vars
  BY <1>10 DEF vars, TypeOK
<1> QED
  BY <1>1, <1>2, <1>3, <1>4, <1>5, <1>6, <1>7, <1>8, <1>9, <1>10 DEF Next, Step

-----------------------------------------------------------------------------
(* Tokens and marks. *)

\* Every step keeps tokens given once, and acquired a mark of those inside.
LEMMA TokenStep ==
  LockInv /\ [Next]_vars => TokensGiven' /\ TokensDiffer' /\ AcquiredInside'
<1> USE LockConstantsOK DEF Label, At, Goto, timers, TokensGiven, TokensDiffer, AcquiredInside
<1> SUFFICES ASSUME LockInv, [Next]_vars PROVE TokensGiven' /\ TokensDiffer' /\ AcquiredInside'
  OBVIOUS
<1>t. TypeOK /\ TokensGiven /\ TokensDiffer /\ AcquiredInside
  BY DEF LockInv
<1>1. ASSUME NEW p \in Proc, Enter(p) PROVE TokensGiven' /\ TokensDiffer' /\ AcquiredInside'
  <2>1. \A q \in Proc : token'[q] = IF q = p THEN entries + 1 ELSE token[q]
    BY <1>1, <1>t DEF Enter, TypeOK
  <2>2. \A q \in Proc : pc'[q] = IF q = p THEN "try" ELSE pc[q]
    BY <1>1, <1>t DEF Enter, TypeOK
  <2>3. entries \in Nat /\ entries' = entries + 1 /\ acquired' = acquired
    BY <1>1, <1>t DEF Enter, TypeOK
  <2>4. \A q \in Proc : token[q] \in Nat
    BY <1>t DEF TypeOK
  <2>5. TokensGiven'
    BY <2>1, <2>2, <2>3, <2>4, <1>t
  <2>6. TokensDiffer'
    BY <2>1, <2>3, <2>4, <1>t
  <2>7. AcquiredInside'
    BY <1>1, <2>2, <2>3, <1>t DEF Enter
  <2> QED
    BY <2>5, <2>6, <2>7
<1>2. ASSUME NEW p \in Proc, Create(p) PROVE TokensGiven' /\ TokensDiffer' /\ AcquiredInside'
  BY <1>2, <1>t DEF Create, TypeOK
<1>3. ASSUME NEW p \in Proc, WriteToken(p) PROVE TokensGiven' /\ TokensDiffer' /\ AcquiredInside'
  BY <1>3, <1>t DEF WriteToken, WriteIn, GoIn, TypeOK
<1>4. ASSUME NEW p \in Proc, Look(p) PROVE TokensGiven' /\ TokensDiffer' /\ AcquiredInside'
  BY <1>4, <1>t DEF Look, TypeOK
<1>5. ASSUME NEW p \in Proc, Break(p) PROVE TokensGiven' /\ TokensDiffer' /\ AcquiredInside'
  BY <1>5, <1>t DEF Break, TypeOK
<1>6. ASSUME NEW p \in Proc, Poll(p) PROVE TokensGiven' /\ TokensDiffer' /\ AcquiredInside'
  <2>1. /\ pc[p] = "poll" /\ UNCHANGED <<token, acquired, entries>>
        /\ pc' = [pc EXCEPT ![p] = "in"] \/ pc' = [pc EXCEPT ![p] = "sleep"]
    BY <1>6 DEF Poll, PollTill, GoIn
  <2> QED
    BY <2>1, <1>t DEF TypeOK
<1>7. ASSUME NEW p \in Proc, Leave(p) PROVE TokensGiven' /\ TokensDiffer' /\ AcquiredInside'
  BY <1>7, <1>t DEF Leave, TypeOK
<1>8. ASSUME NEW p \in Proc, Kill(p) PROVE TokensGiven' /\ TokensDiffer' /\ AcquiredInside'
  BY <1>8, <1>t DEF Kill, TypeOK, Asking
<1>9. CASE Tick
  BY <1>9, <1>t DEF Tick, TypeOK
<1>10. CASE UNCHANGED vars
  BY <1>10, <1>t DEF vars
<1> QED
  BY <1>1, <1>2, <1>3, <1>4, <1>5, <1>6, <1>7, <1>8, <1>9, <1>10 DEF Next, Step

-----------------------------------------------------------------------------
(* The lock file and its owner. *)

\* A lock file that a step leaves alone keeps its owner if the step takes ownership from nobody.
LEMMA OwnedKept ==
  ASSUME FileOwned, file' # NoFile => file # NoFile /\ file'.by = file.by, token' = token,
         \A q \in Proc : Owns(q) \/ pc[q] = "dead" => Owns(q)' \/ pc'[q] = "dead"
  PROVE FileOwned'
BY DEF FileOwned

\* An owner that a step leaves alone keeps its lock file if the step makes no other owner.
LEMMA OwnerKept ==
  ASSUME OwnerHasFile, broken' = broken, token' = token,
         file # NoFile => file' # NoFile /\ file'.by = file.by,
         \A q \in Proc : Owns(q)' => Owns(q)
  PROVE OwnerHasFile'
BY DEF OwnerHasFile

\* Every step keeps the lock file owned, and what its owner relies on.
LEMMA OwnerStep == LockInv /\ [Next]_vars => FileOwned' /\ OwnerHasFile'
<1> USE LockConstantsOK DEF Label, At, Goto, timers
<1> SUFFICES ASSUME LockInv, [Next]_vars PROVE FileOwned' /\ OwnerHasFile'
  OBVIOUS
<1>t. TypeOK /\ TokensGiven /\ TokensDiffer /\ AcquiredInside /\ FileOwned /\ OwnerHasFile
  BY DEF LockInv
<1>1. ASSUME NEW p \in Proc, Enter(p) PROVE FileOwned' /\ OwnerHasFile'
  <2>1. /\ file' = file /\ acquired' = acquired /\ broken' = broken
        /\ \A q \in Proc : pc'[q] = IF q = p THEN "try" ELSE pc[q]
        /\ \A q \in Proc : q # p => token'[q] = token[q]
    BY <1>1, <1>t DEF Enter, TypeOK
  <2>2. pc[p] = "idle" /\ \A q \in Proc : Owns(q)' => Owns(q) /\ q # p
    BY <1>1, <2>1 DEF Owns, Enter
  <2>3. FileOwned'
    BY <2>1, <2>2, <1>t DEF FileOwned, Owns
  <2>4. OwnerHasFile'
    BY <2>1, <2>2, <1>t DEF OwnerHasFile
  <2> QED
    BY <2>3, <2>4
<1>2. ASSUME NEW p \in Proc, Create(p) PROVE FileOwned' /\ OwnerHasFile'
  <2>1. CASE file = NoFile
    <3>1. token[p] \in Tokens
      BY <1>2, <1>t DEF Create, TypeOK, TokensGiven, Tokens
    <3>0. [by |-> token[p], written |-> FALSE, age |-> 0] \in File
      BY <3>1 DEF File
    <3>2. file' = [by |-> token[p], written |-> FALSE, age |-> 0] /\ file' \in File
      BY <1>2, <2>1, <3>0 DEF Create
    <3>3. file' # NoFile /\ file'.by = token[p]
      BY <3>2, NoFileOK
    <3>4. /\ token' = token /\ acquired' = acquired /\ broken' = broken
          /\ pc'[p] = "write" /\ \A q \in Proc : q # p => pc'[q] = pc[q]
      BY <1>2, <2>1, <1>t DEF Create, TypeOK
    <3>5. FileOwned'
      BY <3>3, <3>4 DEF FileOwned, Owns
    <3>6. OwnerHasFile'
      BY <2>1, <3>3, <3>4, <1>t DEF OwnerHasFile, Owns
    <3> QED
      BY <3>5, <3>6
  <2>2. CASE file # NoFile
    <3>1. /\ UNCHANGED <<file, token, acquired, broken>> /\ pc[p] = "try"
          /\ \A q \in Proc : pc'[q] = IF q = p THEN "look" ELSE pc[q]
      BY <1>2, <2>2, <1>t DEF Create, TypeOK
    <3>2. \A q \in Proc : (Owns(q)' <=> Owns(q)) /\ (pc[q] = "dead" => pc'[q] = "dead")
      BY <3>1 DEF Owns
    <3> QED
      BY <3>1, <3>2, <1>t, OwnedKept, OwnerKept
  <2> QED
    BY <2>1, <2>2
<1>3. ASSUME NEW p \in Proc, WriteToken(p) PROVE FileOwned' /\ OwnerHasFile'
  <2>1. /\ UNCHANGED <<token, broken>> /\ pc[p] = "write"
        /\ \A q \in Proc : pc'[q] = IF q = p THEN "in" ELSE pc[q]
        /\ \A q \in Proc : acquired'[q] = IF q = p THEN TRUE ELSE acquired[q]
    BY <1>3, <1>t DEF WriteToken, WriteIn, GoIn, TypeOK
  <2>2. file = NoFile <=> file' = NoFile
    <3>1. CASE file # NoFile /\ file.by = token[p]
      <4>1. file' = [by |-> token[p], written |-> TRUE, age |-> 0]
        BY <1>3, <3>1 DEF WriteToken, WriteIn
      <4>2. file' \in File
        BY <3>1, <4>1, <1>t DEF TypeOK, File
      <4> QED
        BY <3>1, <4>2, NoFileOK
    <3>2. CASE ~(file # NoFile /\ file.by = token[p])
      BY <1>3, <3>2 DEF WriteToken, WriteIn
    <3> QED
      BY <3>1, <3>2
  <2>3. file # NoFile => file'.by = file.by
    BY <1>3 DEF WriteToken, WriteIn
  <2>4. \A q \in Proc : (Owns(q)' <=> Owns(q)) /\ (pc[q] = "dead" => pc'[q] = "dead")
    BY <2>1 DEF Owns
  <2> QED
    BY <2>1, <2>2, <2>3, <2>4, <1>t, OwnedKept, OwnerKept
<1>4. ASSUME NEW p \in Proc, Look(p) PROVE FileOwned' /\ OwnerHasFile'
  <2>1. /\ UNCHANGED <<file, token, acquired, broken>> /\ pc[p] = "look"
        /\ \A q \in Proc : q # p => pc'[q] = pc[q]
        /\ pc'[p] \in {"try", "poll", "break"}
    BY <1>4, <1>t DEF Look, TypeOK
  <2>2. \A q \in Proc : (Owns(q)' <=> Owns(q)) /\ (pc[q] = "dead" => pc'[q] = "dead")
    BY <2>1 DEF Owns
  <2> QED
    BY <2>1, <2>2, <1>t, OwnedKept, OwnerKept
<1>5. ASSUME NEW p \in Proc, Break(p) PROVE FileOwned' /\ OwnerHasFile'
  <2>1. CASE file = NoFile
    <3>1. /\ UNCHANGED <<file, token, acquired, broken>> /\ pc[p] = "break"
          /\ \A q \in Proc : pc'[q] = IF q = p THEN "poll" ELSE pc[q]
      BY <1>5, <2>1, <1>t DEF Break, TypeOK
    <3>2. \A q \in Proc : (Owns(q)' <=> Owns(q)) /\ (pc[q] = "dead" => pc'[q] = "dead")
      BY <3>1 DEF Owns
    <3> QED
      BY <3>1, <3>2, <1>t, OwnedKept, OwnerKept
  <2>2. CASE file # NoFile
    BY <1>5, <2>2 DEF Break, FileOwned, OwnerHasFile
  <2> QED
    BY <2>1, <2>2
<1>6. ASSUME NEW p \in Proc, Poll(p) PROVE FileOwned' /\ OwnerHasFile'
  <2>1. /\ pc[p] = "poll" /\ UNCHANGED <<file, token, acquired, broken>>
        /\ pc' = [pc EXCEPT ![p] = "in"] \/ pc' = [pc EXCEPT ![p] = "sleep"]
    BY <1>6, <1>t DEF Poll, PollTill, GoIn, TypeOK, AcquiredInside
  <2>2. ~acquired[p]
    BY <2>1, <1>t DEF AcquiredInside
  <2>3. \A q \in Proc : (Owns(q)' <=> Owns(q)) /\ (pc[q] = "dead" => pc'[q] = "dead")
    BY <2>1, <2>2, <1>t DEF Owns, TypeOK
  <2> QED
    BY <2>1, <2>3, <1>t, OwnedKept, OwnerKept
<1>7. ASSUME NEW p \in Proc, Leave(p) PROVE FileOwned' /\ OwnerHasFile'
  <2>1. /\ pc[p] = "in" /\ broken' = broken
        /\ \A q \in Proc : /\ pc'[q] = IF q = p THEN "idle" ELSE pc[q]
                           /\ token'[q] = IF q = p THEN 0 ELSE token[q]
                           /\ acquired'[q] = IF q = p THEN FALSE ELSE acquired[q]
    BY <1>7, <1>t DEF Leave, TypeOK
  <2>2. \A q \in Proc : Owns(q)' => Owns(q) /\ q # p
    BY <2>1 DEF Owns
  <2>3. CASE acquired[p]
    <3>1. file' = NoFile /\ Owns(p)
      BY <1>7, <2>1, <2>3 DEF Leave, Owns
    <3>2. token[p] # 0
      BY <2>1, <1>t DEF TokensGiven
    <3>3. broken \/ \A q \in Proc : Owns(q) => q = p
      BY <3>1, <3>2, <1>t DEF OwnerHasFile, TokensDiffer
    <3> QED
      BY <2>1, <2>2, <3>1, <3>3 DEF FileOwned, OwnerHasFile
  <2>4. CASE ~acquired[p]
    <3>1. file' = file
      BY <1>7, <2>4 DEF Leave
    <3>2. ~Owns(p) /\ pc[p] # "dead"
      BY <2>1, <2>4 DEF Owns
    <3>3. FileOwned'
      BY <2>1, <3>1, <3>2, <1>t DEF FileOwned, Owns
    <3>4. OwnerHasFile'
      BY <2>1, <2>2, <3>1, <1>t DEF OwnerHasFile
    <3> QED
      BY <3>3, <3>4
  <2> QED
    BY <2>3, <2>4
<1>8. ASSUME NEW p \in Proc, Kill(p) PROVE FileOwned' /\ OwnerHasFile'
  <2>1. /\ UNCHANGED <<file, token, acquired, broken>>
        /\ \A q \in Proc : pc'[q] = IF q = p THEN "dead" ELSE pc[q]
    BY <1>8, <1>t DEF Kill, TypeOK
  <2>2. \A q \in Proc : /\ Owns(q)' => Owns(q)
                        /\ Owns(q) \/ pc[q] = "dead" => Owns(q)' \/ pc'[q] = "dead"
    BY <2>1 DEF Owns
  <2> QED
    BY <2>1, <2>2, <1>t, OwnedKept, OwnerKept
<1>9. CASE Tick
  <2>1. /\ UNCHANGED <<token, acquired, broken>>
        /\ \A q \in Proc : pc'[q] = IF pc[q] = "sleep" THEN "try" ELSE pc[q]
    BY <1>9, <1>t DEF Tick, TypeOK
  <2>2. /\ file = NoFile => file' = NoFile
        /\ file # NoFile => file' # NoFile /\ file'.by = file.by
    <3>1. CASE file = NoFile
      BY <1>9, <3>1 DEF Tick
    <3>2. CASE file # NoFile
      <4>1. file \in File
        BY <3>2, <1>t DEF TypeOK
      <4>2. file' \in File /\ file'.by = file.by
        BY <1>9, <3>2, <4>1 DEF Tick, File, Tokens
      <4> QED
        BY <3>2, <4>2, NoFileOK
    <3> QED
      BY <3>1, <3>2
  <2>3. \A q \in Proc : (Owns(q)' <=> Owns(q)) /\ (pc[q] = "dead" => pc'[q] = "dead")
    BY <2>1 DEF Owns
  <2> QED
    BY <2>1, <2>2, <2>3, <1>t, OwnedKept, OwnerKept
<1>10. CASE UNCHANGED vars
  BY <1>10, <1>t DEF vars, FileOwned, OwnerHasFile, Owns
<1> QED
  BY <1>1, <1>2, <1>3, <1>4, <1>5, <1>6, <1>7, <1>8, <1>9, <1>10 DEF Next, Step

\* What follows for every behaviour.
LEMMA LockInvInductive == Spec => []LockInv
<1>1. Init => LockInv
  <2> SUFFICES ASSUME Init PROVE LockInv
    OBVIOUS
  <2>1. TypeOK
    <3>1. /\ 0 \in 0 .. MaxEntries /\ 0 \in 0 .. Timeout /\ 0 \in 0 .. MaxWait /\ 0 \in 0 .. Hold
          /\ 0 \in 0 .. MaxDeaths /\ FALSE \in BOOLEAN
      BY LockConstantsOK
    <3> QED
      BY <3>1 DEF Init, TypeOK, Label
  <2>2. TokensGiven /\ TokensDiffer /\ AcquiredInside
    BY DEF Init, TokensGiven, TokensDiffer, AcquiredInside
  <2>3. FileOwned /\ OwnerHasFile
    BY DEF Init, FileOwned, OwnerHasFile, Owns
  <2> QED
    BY <2>1, <2>2, <2>3 DEF LockInv
<1>2. LockInv /\ [Next]_vars => LockInv'
  BY TypeStep, TokenStep, OwnerStep DEF LockInv
<1> QED
  BY <1>1, <1>2, PTL DEF Spec

-----------------------------------------------------------------------------
(* The theorems. *)

\* The variables keep their types: no deadline or wait passes its bound (workspace.py: file_lock).
THEOREM FileLockTypeCorrect == Spec => []TypeOK
<1>1. LockInv => TypeOK
  BY DEF LockInv
<1> QED
  BY <1>1, LockInvInductive, PTL

\* A lock file is never left behind by a process that lives: the one that made it is writing its
\* token, inside, or dead (workspace.py: file_lock.__enter__ and __exit__).
THEOREM LockFileHasHolder == Spec => []LockHasHolder
<1>1. LockInv => LockHasHolder
  BY DEF LockInv, FileOwned, Owns, LockHasHolder
<1> QED
  BY <1>1, LockInvInductive, PTL

\* Whatever the timing, two processes have acquired the lock together only after a lock file was
\* removed for stale (workspace.py: file_lock, O_EXCL and _break_if_stale).
THEOREM AcquiredAlone == Spec => []BrokenOrExclusive
<1>1. LockInv => BrokenOrExclusive
  BY DEF LockInv, OwnerHasFile, Owns, TokensDiffer, TokensGiven, BrokenOrExclusive, At
<1> QED
  BY <1>1, LockInvInductive, PTL

-----------------------------------------------------------------------------
(* What a merge does to the files: the invariant of UnitsMerge. *)

On(steps) == merge.at \in steps
Begun == On({"read", "copies", "apply", "move", "undo", "back", "failed", "record"})
\* Past the reading, when every file has its result, and while files are still being written.
Planned == On({"copies", "apply", "move", "record"})
Writing == On({"apply", "move", "record"})
\* The merge is of the plan units.json is for.
OfPlan == merge.plan = record.plan

\* What each file came to is one of what it may come to, of what was read.
ResultsTrue ==
  Begun => /\ \A p \in Read : merge.results[p] \in MergeFile(p, merge.results[p].current)
           /\ Planned => Read = Path

\* What is done is of files to write, as their results say, and each but once.
DoneTrue ==
  Begun =>
    /\ \A i \in DOMAIN merge.done :
         /\ merge.done[i].path \in Read /\ Writes(merge.done[i].path)
         /\ merge.done[i].written = merge.results[merge.done[i].path].content
    /\ \A i, j \in DOMAIN merge.done : merge.done[i].path = merge.done[j].path => i = j
    /\ On({"read", "copies"}) => merge.done = <<>>
    /\ On({"move", "back"}) => merge.next \in Read /\ Writes(merge.next) /\ merge.next \notin Done
    /\ On({"move"}) => merge.seen = merge.results[merge.next].current
    /\ On({"back"}) => merge.seen = merge.results[merge.next].content

\* A file as it was read, or as the user made it since; one written, or made something of since; and
\* one that is out of the merge's hands.
AsRead(p) == tree[p] = edit[p] \/ (edit[p] = Unedited /\ tree[p] = merge.results[p].current)
AsWritten(p) ==
  tree[p] = edit[p] \/ (edit[p] \in {Unedited, merge.results[p].current} /\ tree[p] = merge.results[p].content)
AsLeft(p) ==
  \/ tree[p] = edit[p]
  \/ /\ edit[p] \in {Unedited, merge.results[p].current, Written(p)}
     /\ p \in merge.left \/ tree[p] = merge.results[p].current

Undoing == On({"undo", "back"})
ToPutBack == Done \cup (IF On({"back"}) THEN {merge.next} ELSE {})

FilesTrue ==
  /\ On({"read", "copies", "apply", "move"}) =>
       \A p \in Read \ lost : IF p \in Done THEN AsWritten(p) ELSE AsRead(p)
  /\ Undoing => \A p \in Read \ lost : IF p \in ToPutBack THEN AsWritten(p) ELSE AsLeft(p)
  /\ On({"failed"}) => \A p \in Read \ lost : AsLeft(p)

\* Only the merge under way moves the record on; a plan that came since has a record of its own.
RecordTrue ==
  /\ merge # Idle => merge.plan <= record.plan
  /\ Begun /\ OfPlan => record.status = "succeeded"
  /\ On({"resolved"}) /\ OfPlan => record.status = "conflicted"
  /\ merge # Idle /\ ~OfPlan => record.status \in {"pending", "succeeded"}
  /\ DOMAIN record.kept \subseteq record.conflicts

\* What the merge has put beside, and what a recorded conflict has.
Beside(p) == p \in theirs \/ ~CopyOwed(p)
CopiesKept ==
  /\ Writing => \A p \in Read : merge.results[p].theirs => p \in theirs
  /\ On({"record"}) => DOMAIN merge.kept \subseteq Conflicts /\ \A p \in DOMAIN merge.kept : Beside(p)
  /\ \A p \in DOMAIN record.kept : Beside(p)

\* What has become of each file of the unit whose record this is.
TakenIn ==
  /\ Writing /\ OfPlan => \A p \in Done : tree[p] = merge.results[p].content \/ p \in acted
  /\ On({"record"}) /\ OfPlan =>
       /\ Path \ Conflicts \subseteq in
       /\ \A p \in Conflicts : p \in acted \/ tree[p] = IF p \in DOMAIN merge.kept THEN merge.kept[p] ELSE "marked"
  /\ record.status = "conflicted" /\ ~record.torn =>
       /\ Path \ record.conflicts \subseteq in
       /\ \A p \in record.conflicts :
            p \in acted \/ tree[p] = IF p \in DOMAIN record.kept THEN record.kept[p] ELSE "marked"
       /\ On({"resolved"}) /\ OfPlan => record.conflicts \subseteq acted
  /\ record.status = "merged" /\ ~record.torn => Path \subseteq in \cup acted

MergeInv == MergeTypeOK /\ ResultsTrue /\ DoneTrue /\ FilesTrue /\ RecordTrue /\ CopiesKept /\ TakenIn

-----------------------------------------------------------------------------
(* What the operators give. *)

LEMMA FrontFacts ==
  ASSUME NEW S, NEW s \in Seq(S), s # <<>>
  PROVE  /\ Len(s) \in Nat \ {0} /\ DOMAIN s = 1 .. Len(s)
         /\ Front(s) \in Seq(S) /\ DOMAIN Front(s) = 1 .. Len(s) - 1
         /\ \A i \in 1 .. Len(s) - 1 : Front(s)[i] = s[i]
         /\ Last(s) = s[Len(s)] /\ Last(s) \in S
<1>1. Len(s) \in Nat \ {0} /\ DOMAIN s = 1 .. Len(s)
  BY EmptySeq, LenProperties
<1>2. /\ Front(s) \in Seq(S) /\ Len(Front(s)) = Len(s) - 1
      /\ \A i \in 1 .. Len(s) - 1 : Front(s)[i] = s[i]
  BY <1>1, SubSeqProperties DEF Front
<1>3. DOMAIN Front(s) = 1 .. Len(s) - 1
  BY <1>2, LenProperties
<1>4. Last(s) = s[Len(s)] /\ s[Len(s)] \in S
  BY <1>1, ElementOfSeq DEF Last
<1> QED
  BY <1>1, <1>2, <1>3, <1>4

\* What a file may come to: of what was read of it; a conflict leaves markers, or the file as it
\* is, with the unit's version to keep beside it where it has one.
LEMMA MergeFileGives ==
  ASSUME NEW p \in Path, NEW current \in Content, NEW r \in MergeFile(p, current)
  PROVE  /\ r \in ResultType /\ r.current = current
         /\ r.action = "conflict" => r.content \in {None, "marked"}
         /\ r.action = "conflict" /\ r.content = None => r.theirs \/ ~CopyOwed(p)
<1> USE DEF Result
<1>1. /\ BaseOf[p] \in {"base", "link", "submodule", None} /\ UnitOf[p] \in {"unit", "link", "submodule", None}
      /\ "link" # None /\ "unit" # None
  BY MergeConstantsOK
<1>2. None \in Content /\ "marked" \in Content /\ "merged" \in Content /\ None # "marked"
  BY <1>1, MergeConstantsOK DEF Content, UserContent
<1>3. CASE r = Kept(p, current)
  <2>1. r = [action |-> "conflict", content |-> None, theirs |-> HasCopy(p), current |-> current]
    BY <1>3 DEF Kept
  <2>2. HasCopy(p) \in BOOLEAN
    BY DEF HasCopy
  <2>3. r \in ResultType
    BY <1>2, <2>1, <2>2 DEF ResultType
  <2>4. CopyOwed(p) => HasCopy(p)
    BY <1>1 DEF CopyOwed, HasCopy
  <2> QED
    BY <2>1, <2>3, <2>4
<1>4. CASE r = Result("conflict", None, UnitOf[p] = "link", current) /\ {BaseOf[p], UnitOf[p]} \cap Unwritten # {}
  <2>1. (UnitOf[p] = "link") \in BOOLEAN
    OBVIOUS
  <2>2. r \in ResultType
    BY <1>2, <1>4, <2>1 DEF ResultType
  <2>3. CopyOwed(p) => UnitOf[p] = "link"
    BY <1>1, <1>4 DEF CopyOwed, Unwritten
  <2> QED
    BY <1>4, <2>2, <2>3
<1>5. CASE /\ {BaseOf[p], UnitOf[p]} \cap Unwritten = {}
           /\ r = Result(IF UnitOf[p] = None THEN "delete" ELSE "write", UnitOf[p], FALSE, current)
  <2>1. UnitOf[p] \in Content
    BY <1>1, <1>5 DEF Unwritten, Content, UserContent
  <2> QED
    BY <1>2, <1>5, <2>1 DEF ResultType
<1>6. CASE r = Result("same", None, FALSE, current)
  BY <1>2, <1>6 DEF ResultType
<1>7. CASE r \in MergeText(current)
  <2>1. r = Result("conflict", "marked", FALSE, current) \/ r = Result("write", "merged", FALSE, current)
    BY <1>7 DEF MergeText
  <2>2. CASE r = Result("conflict", "marked", FALSE, current)
    BY <1>2, <2>2 DEF ResultType
  <2>3. CASE r = Result("write", "merged", FALSE, current)
    BY <1>2, <2>3 DEF ResultType
  <2> QED
    BY <2>1, <2>2, <2>3
<1>8. r \in BothChanged(p, current) => r = Kept(p, current) \/ r \in MergeText(current)
  BY DEF BothChanged
<1> DEFINE linked == {BaseOf[p], UnitOf[p]} \cap Unwritten # {}
<1>9. \/ r = Kept(p, current)
      \/ linked /\ r = Result("conflict", None, UnitOf[p] = "link", current)
      \/ ~linked /\ r = Result(IF UnitOf[p] = None THEN "delete" ELSE "write", UnitOf[p], FALSE, current)
      \/ r = Result("same", None, FALSE, current)
      \/ r \in MergeText(current)
  BY <1>8 DEF MergeFile
<1> QED
  BY <1>3, <1>4, <1>5, <1>6, <1>7, <1>9

-----------------------------------------------------------------------------
(* Types. *)

\* A merge that has begun, by its fields.
LEMMA MergeTyped ==
  ASSUME MergeTypeOK, Begun
  PROVE  \E R, K \in SUBSET Path : merge \in Merging(R, K)
  BY DEF MergeTypeOK, Begun, On, Resolving, Idle

LEMMA MergeFields ==
  ASSUME MergeTypeOK, Begun
  PROVE  /\ merge.plan \in 1 .. MaxPlans + 1 /\ Read \subseteq Path /\ merge.results \in [Read -> ResultType]
         /\ merge.done \in Seq(DoneType) /\ DOMAIN merge.done = 1 .. Len(merge.done) /\ Len(merge.done) \in Nat
         /\ merge.left \subseteq Path /\ merge.next \in Path \cup {None} /\ merge.seen \in Content
         /\ Done \subseteq Path
<1>1. PICK R \in SUBSET Path, K \in SUBSET Path : merge \in Merging(R, K)
  BY MergeTyped
<1>2. Read = R
  BY <1>1 DEF Merging, Read
<1>3. /\ merge.plan \in 1 .. MaxPlans + 1 /\ merge.results \in [R -> ResultType] /\ merge.done \in Seq(DoneType)
      /\ merge.left \subseteq Path /\ merge.next \in Path \cup {None} /\ merge.seen \in Content
  BY <1>1 DEF Merging
<1>4. DOMAIN merge.done = 1 .. Len(merge.done) /\ Len(merge.done) \in Nat
  BY <1>3, LenProperties
<1>5. \A i \in DOMAIN merge.done : merge.done[i].path \in Path
  <2> SUFFICES ASSUME NEW i \in DOMAIN merge.done PROVE merge.done[i].path \in Path
    OBVIOUS
  <2>1. merge.done[i] \in DoneType
    BY <1>3, <1>4, ElementOfSeq
  <2> QED
    BY <2>1 DEF DoneType
<1> QED
  BY <1>2, <1>3, <1>4, <1>5 DEF Done

-----------------------------------------------------------------------------
(* What each step of a merge does to what it goes by. *)

SamePlan == merge'.plan = merge.plan /\ merge'.results = merge.results
SameFiles == merge'.done = merge.done /\ merge'.left = merge.left
TypedAfter == \E R, K \in SUBSET Path : merge' \in Merging(R, K)

LEMMA NoneIsContent == None \in Content
  BY DEF Content, UserContent

\* A merge that only goes to its next step, with what it looks at, or nothing.
LEMMA StepFields ==
  ASSUME MergeTypeOK, Begun,
         NEW to \in {"read", "copies", "apply", "move", "undo", "back", "failed", "record"},
         NEW next \in Path \cup {None}, NEW saw \in Content,
         \/ Goes(to) /\ next = merge.next /\ saw = merge.seen
         \/ merge' = [merge EXCEPT !.at = to, !.next = next, !.seen = saw]
  PROVE  /\ merge'.at = to /\ merge'.next = next /\ merge'.seen = saw
         /\ SamePlan /\ SameFiles /\ TypedAfter
<1>1. PICK R \in SUBSET Path, K \in SUBSET Path : merge \in Merging(R, K)
  BY MergeTyped
<1>2. merge' = [merge EXCEPT !.at = to, !.next = next, !.seen = saw]
  BY <1>1 DEF Goes, Merging
<1>3. merge' \in Merging(R, K)
  BY <1>1, <1>2 DEF Merging
<1>4. merge'.at = to /\ merge'.next = next /\ merge'.seen = saw /\ SamePlan /\ SameFiles
  BY <1>1, <1>2 DEF Merging, SamePlan, SameFiles
<1> QED
  BY <1>3, <1>4 DEF TypedAfter

\* A merge begins on what is recorded, having read nothing.
LEMMA StartFields ==
  ASSUME MergeTypeOK, StartMerge
  PROVE  /\ merge'.at = "read" /\ merge'.plan = record.plan /\ Read' = {} /\ merge'.done = <<>>
         /\ TypedAfter
<1> DEFINE nothing == [p \in {} |-> None]
<1>1. merge' = [at |-> "read", plan |-> record.plan, results |-> nothing, done |-> <<>>, left |-> {},
                next |-> None, seen |-> None, kept |-> nothing]
  BY DEF StartMerge
<1>2. nothing \in [{} -> ResultType] /\ nothing \in [{} -> Content] /\ DOMAIN nothing = {}
  OBVIOUS
<1>3. record.plan \in 1 .. MaxPlans + 1
  BY DEF MergeTypeOK, RecordType
<1>4. <<>> \in Seq(DoneType)
  BY EmptySeq
<1> HIDE DEF nothing
<1>5. merge' \in Merging({}, {})
  BY <1>1, <1>2, <1>3, <1>4, NoneIsContent DEF Merging
<1> QED
  BY <1>1, <1>2, <1>5 DEF Read, TypedAfter

\* A file is read: what it comes to is added.
ReadsOf(p) ==
  /\ p \in Path \ Read
  /\ merge'.at = "read" /\ merge'.plan = merge.plan /\ SameFiles
  /\ \E r \in MergeFile(p, tree[p]) :
       merge'.results = [q \in Read \cup {p} |-> IF q = p THEN r ELSE merge.results[q]]
  /\ edit' = [edit EXCEPT ![p] = Unedited] /\ acted' = acted \ {p}

LEMMA ReadFields ==
  ASSUME MergeTypeOK, ReadFile
  PROVE  /\ TypedAfter
         /\ \/ merge'.at = "copies" /\ Read = Path /\ SamePlan /\ SameFiles /\ UNCHANGED <<edit, acted>>
            \/ \E p \in Path : ReadsOf(p)
<1>1. Begun /\ merge.at = "read"
  BY DEF ReadFile, Begun, On
<1>2. merge.next \in Path \cup {None} /\ merge.seen \in Content
  BY <1>1, MergeFields
<1>3. CASE Read = Path
  <2>1. Goes("copies") /\ UNCHANGED <<edit, acted>>
    BY <1>3 DEF ReadFile
  <2>2. merge'.at = "copies" /\ SamePlan /\ SameFiles /\ TypedAfter
    BY <1>1, <1>2, <2>1, StepFields
  <2> QED
    BY <1>3, <2>1, <2>2
<1>4. CASE Read # Path
  <2> DEFINE p == CHOOSE q \in Path \ Read : TRUE
  <2>1. p \in Path \ Read
    BY <1>1, <1>4, MergeFields
  <2>2. PICK r \in MergeFile(p, tree[p]) :
          merge' = [merge EXCEPT !.results = [q \in Read \cup {p} |-> IF q = p THEN r ELSE @[q]]]
    BY <1>4 DEF ReadFile
  <2>3. edit' = [edit EXCEPT ![p] = Unedited] /\ acted' = acted \ {p}
    BY <1>4 DEF ReadFile
  <2> HIDE DEF p
  <2> DEFINE to == [q \in Read \cup {p} |-> IF q = p THEN r ELSE merge.results[q]]
  <2>4. PICK R \in SUBSET Path, K \in SUBSET Path : merge \in Merging(R, K)
    BY <1>1, MergeTyped
  <2>5. merge.results \in [Read -> ResultType] /\ R = Read
    BY <1>1, <2>4, MergeFields DEF Merging, Read
  <2>6. r \in ResultType
    BY <2>1, MergeFileGives DEF MergeTypeOK
  <2>7. to \in [Read \cup {p} -> ResultType]
    BY <2>5, <2>6
  <2>8. merge' = [merge EXCEPT !.results = to]
    BY <2>2
  <2>12. merge'.results = to
    BY <2>4, <2>8 DEF Merging
  <2> HIDE DEF to
  <2>9. merge' \in Merging(Read \cup {p}, K)
    BY <2>4, <2>7, <2>8 DEF Merging
  <2>10. merge'.at = "read" /\ merge'.plan = merge.plan /\ SameFiles
    BY <1>1, <2>4, <2>8 DEF Merging, SameFiles
  <2>11. Read \cup {p} \in SUBSET Path
    BY <1>1, <2>1, MergeFields
  <2>13. ReadsOf(p)
    BY <2>1, <2>3, <2>10, <2>12 DEF ReadsOf, to
  <2> QED
    BY <2>1, <2>9, <2>11, <2>13 DEF TypedAfter
<1> QED
  BY <1>3, <1>4

LEMMA CopiesFields ==
  ASSUME MergeTypeOK, KeepCopies
  PROVE  merge'.at = "apply" /\ SamePlan /\ SameFiles /\ TypedAfter
<1>1. Begun
  BY DEF KeepCopies, Begun, On
<1> QED
  BY <1>1, MergeFields, StepFields DEF KeepCopies

\* The next file to write, if it is still what was read.
ChecksOf(p) ==
  /\ p \in ToWrite /\ tree[p] = merge.results[p].current
  /\ merge'.at = "move" /\ merge'.next = p /\ merge'.seen = tree[p]

LEMMA CheckFields ==
  ASSUME MergeTypeOK, CheckFile
  PROVE  /\ SamePlan /\ SameFiles /\ TypedAfter
         /\ merge'.at = "undo" \/ \E p \in Path : ChecksOf(p)
<1>1. Begun
  BY DEF CheckFile, Begun, On
<1> DEFINE p == CHOOSE q \in ToWrite : TRUE
<1>2. p \in ToWrite /\ p \in Path
  BY DEF CheckFile, ToWrite
<1>3. \/ tree[p] = merge.results[p].current /\ merge' = [merge EXCEPT !.at = "move", !.next = p, !.seen = tree[p]]
      \/ Goes("undo")
  BY DEF CheckFile
<1> HIDE DEF p
<1>4. CASE Goes("undo")
  BY <1>1, <1>4, MergeFields, StepFields
<1>5. CASE tree[p] = merge.results[p].current /\ merge' = [merge EXCEPT !.at = "move", !.next = p, !.seen = tree[p]]
  <2>1. tree[p] \in Content
    BY <1>2 DEF MergeTypeOK
  <2>2. merge'.at = "move" /\ merge'.next = p /\ merge'.seen = tree[p] /\ SamePlan /\ SameFiles /\ TypedAfter
    BY <1>1, <1>2, <1>5, <2>1, StepFields
  <2> QED
    BY <1>2, <1>5, <2>2 DEF ChecksOf
<1> QED
  BY <1>3, <1>4, <1>5

LEMMA MoveFields ==
  ASSUME MergeTypeOK, DoneTrue, MoveFile
  PROVE  LET p == merge.next
         IN /\ p \in Read /\ p \in Path /\ p \notin Done
            /\ merge'.at = "apply" /\ SamePlan /\ merge'.left = merge.left /\ TypedAfter
            /\ merge'.done = Append(merge.done, [path |-> p, previous |-> merge.results[p].current,
                                                 written |-> merge.results[p].content])
            /\ tree' = [tree EXCEPT ![p] = merge.results[p].content] /\ merge.results[p].content \in Content
            /\ lost' = IF tree[p] = merge.seen THEN lost ELSE lost \cup {p}
<1> DEFINE p == merge.next
           entry == [path |-> p, previous |-> merge.results[p].current, written |-> merge.results[p].content]
<1>1. Begun /\ On({"move"}) /\ On({"move", "back"})
  BY DEF MoveFile, Begun, On
<1>2. p \in Read /\ p \in Path /\ p \notin Done
  BY <1>1, MergeFields DEF DoneTrue
<1>3. merge' = [merge EXCEPT !.at = "apply", !.next = None, !.seen = None, !.done = Append(@, entry)]
  BY DEF MoveFile
<1>4. merge.results[p] \in ResultType
  BY <1>1, <1>2, MergeFields
<1>5. entry \in DoneType
  BY <1>2, <1>4 DEF ResultType, DoneType
<1>6. PICK R \in SUBSET Path, K \in SUBSET Path : merge \in Merging(R, K)
  BY <1>1, MergeTyped
<1>7. /\ tree' = [tree EXCEPT ![p] = merge.results[p].content]
      /\ lost' = IF tree[p] = merge.seen THEN lost ELSE lost \cup {p}
  BY DEF MoveFile, Over
<1>8. merge.results[p].content \in Content
  BY <1>4 DEF ResultType
<1> HIDE DEF entry, p
<1>9. merge.done \in Seq(DoneType)
  BY <1>6 DEF Merging
<1>10. Append(merge.done, entry) \in Seq(DoneType)
  BY <1>5, <1>9, AppendProperties
<1>11. /\ merge'.at = "apply" /\ SamePlan /\ merge'.left = merge.left /\ merge'.done = Append(merge.done, entry)
  BY <1>3, <1>6 DEF Merging, SamePlan
<1>12. merge' \in Merging(R, K)
  BY <1>3, <1>6, <1>10, NoneIsContent DEF Merging
<1> QED
  BY <1>2, <1>7, <1>8, <1>11, <1>12 DEF TypedAfter, p, entry

LEMMA FailFields ==
  ASSUME MergeTypeOK, FailMerge
  PROVE  /\ SamePlan /\ SameFiles /\ TypedAfter
         /\ \/ merge.at \in {"apply", "move"} /\ merge'.at = "undo"
            \/ merge.at \in {"read", "copies"} /\ merge'.at = "failed"
<1>1. Begun
  BY DEF FailMerge, Begun, On
<1>2. CASE merge.at \in {"apply", "move"}
  <2>1. merge' = [merge EXCEPT !.at = "undo", !.next = None, !.seen = None]
    BY <1>2 DEF FailMerge
  <2> QED
    BY <1>1, <1>2, <2>1, NoneIsContent, StepFields
<1>3. CASE merge.at \in {"read", "copies"}
  <2>1. merge' = [merge EXCEPT !.at = "failed", !.next = None, !.seen = None]
    BY <1>3 DEF FailMerge
  <2> QED
    BY <1>1, <1>3, <2>1, NoneIsContent, StepFields
<1> QED
  BY <1>2, <1>3 DEF FailMerge

\* The last file done is about to be put back, or is left as it is.
LEMMA UndoFields ==
  ASSUME MergeTypeOK, UndoFile
  PROVE  LET p == Last(merge.done).path
         IN /\ p \in Path /\ SamePlan /\ merge'.done = Front(merge.done) /\ TypedAfter
            /\ \/ /\ tree[p] = Last(merge.done).written
                  /\ merge'.at = "back" /\ merge'.next = p /\ merge'.seen = tree[p] /\ merge'.left = merge.left
               \/ tree[p] # Last(merge.done).written /\ merge'.at = "undo" /\ merge'.left = merge.left \cup {p}
<1>1. Begun /\ merge.at = "undo" /\ merge.done # <<>>
  BY DEF UndoFile, Begun, On
<1> DEFINE last == Last(merge.done)
           front == Front(merge.done)
<1>2. PICK R \in SUBSET Path, K \in SUBSET Path : merge \in Merging(R, K)
  BY <1>1, MergeTyped
<1>3. merge.done \in Seq(DoneType)
  BY <1>2 DEF Merging
<1>4. last \in DoneType /\ front \in Seq(DoneType)
  BY <1>1, <1>3, FrontFacts
<1>5. \/ /\ tree[last.path] = last.written
         /\ merge' = [merge EXCEPT !.at = "back", !.next = last.path, !.seen = tree[last.path], !.done = front]
      \/ /\ tree[last.path] # last.written
         /\ merge' = [merge EXCEPT !.left = @ \cup {last.path}, !.done = front]
  BY DEF UndoFile, PutsBack
<1> HIDE DEF last, front
<1>6. last.path \in Path /\ tree[last.path] \in Content
  BY <1>4 DEF DoneType, MergeTypeOK
<1>7. CASE /\ tree[last.path] = last.written
           /\ merge' = [merge EXCEPT !.at = "back", !.next = last.path, !.seen = tree[last.path], !.done = front]
  <2>1. merge' \in Merging(R, K)
    BY <1>2, <1>4, <1>6, <1>7 DEF Merging
  <2>2. /\ merge'.at = "back" /\ merge'.next = last.path /\ merge'.seen = tree[last.path]
        /\ merge'.left = merge.left /\ merge'.done = front /\ SamePlan
    BY <1>2, <1>7 DEF Merging, SamePlan
  <2> QED
    BY <1>6, <1>7, <2>1, <2>2 DEF TypedAfter, last, front
<1>8. CASE tree[last.path] # last.written /\ merge' = [merge EXCEPT !.left = @ \cup {last.path}, !.done = front]
  <2>1. merge' \in Merging(R, K)
    BY <1>2, <1>4, <1>6, <1>8 DEF Merging
  <2>2. merge'.at = "undo" /\ merge'.left = merge.left \cup {last.path} /\ merge'.done = front /\ SamePlan
    BY <1>1, <1>2, <1>8 DEF Merging, SamePlan
  <2> QED
    BY <1>6, <1>8, <2>1, <2>2 DEF TypedAfter, last, front
<1> QED
  BY <1>5, <1>7, <1>8

\* It is put back, or it cannot be.
LEMMA BackFields ==
  ASSUME MergeTypeOK, DoneTrue, MoveBack
  PROVE  LET p == merge.next
         IN /\ p \in Read /\ p \in Path /\ p \notin Done
            /\ merge'.at = "undo" /\ SamePlan /\ merge'.done = merge.done /\ TypedAfter
            /\ \/ /\ tree' = [tree EXCEPT ![p] = merge.results[p].current] /\ merge.results[p].current \in Content
                  /\ lost' = IF tree[p] = merge.seen THEN lost ELSE lost \cup {p}
                  /\ merge'.left = merge.left
               \/ UNCHANGED <<tree, lost>> /\ merge'.left = merge.left \cup {p}
<1> DEFINE p == merge.next
<1>1. Begun /\ On({"move", "back"})
  BY DEF MoveBack, Begun, On
<1>2. p \in Read /\ p \in Path /\ p \notin Done
  BY <1>1, MergeFields DEF DoneTrue
<1>3. PICK R \in SUBSET Path, K \in SUBSET Path : merge \in Merging(R, K)
  BY <1>1, MergeTyped
<1>4. merge.results[p].current \in Content
  BY <1>1, <1>2, MergeFields DEF ResultType
<1>5. \/ /\ tree' = [tree EXCEPT ![p] = merge.results[p].current]
         /\ lost' = IF tree[p] = merge.seen THEN lost ELSE lost \cup {p}
         /\ merge' = [merge EXCEPT !.at = "undo", !.next = None, !.seen = None]
      \/ /\ merge' = [merge EXCEPT !.at = "undo", !.next = None, !.seen = None, !.left = @ \cup {p}]
         /\ UNCHANGED <<tree, lost>>
  BY DEF MoveBack, Over
<1> HIDE DEF p
<1>6. ASSUME merge' = [merge EXCEPT !.at = "undo", !.next = None, !.seen = None]
      PROVE  merge'.at = "undo" /\ SamePlan /\ merge'.done = merge.done /\ merge'.left = merge.left /\ TypedAfter
  BY <1>1, <1>6, NoneIsContent, StepFields DEF SameFiles
<1>7. ASSUME merge' = [merge EXCEPT !.at = "undo", !.next = None, !.seen = None, !.left = @ \cup {p}]
      PROVE  /\ merge'.at = "undo" /\ SamePlan /\ merge'.done = merge.done /\ merge'.left = merge.left \cup {p}
             /\ TypedAfter
  <2>1. merge' \in Merging(R, K)
    BY <1>2, <1>3, <1>7, NoneIsContent DEF Merging
  <2>2. merge'.at = "undo" /\ merge'.left = merge.left \cup {p} /\ merge'.done = merge.done /\ SamePlan
    BY <1>3, <1>7 DEF Merging, SamePlan
  <2> QED
    BY <2>1, <2>2 DEF TypedAfter
<1> QED
  BY <1>2, <1>4, <1>5, <1>6, <1>7 DEF p

LEMMA UndoneFields ==
  ASSUME MergeTypeOK, UndoDone
  PROVE  merge'.at = "failed" /\ SamePlan /\ SameFiles /\ TypedAfter
<1>1. Begun
  BY DEF UndoDone, Begun, On
<1> QED
  BY <1>1, MergeFields, StepFields DEF UndoDone

\* Everything is written, and what the tree holds of the conflicts is read.
LEMMA AppliedFields ==
  ASSUME MergeTypeOK, Applied
  PROVE  /\ merge'.at = "record" /\ SamePlan /\ SameFiles /\ TypedAfter
         /\ merge'.kept = [p \in {q \in Conflicts : merge.results[q].content = None} |-> tree[p]]
<1> DEFINE unmarked == {q \in Conflicts : merge.results[q].content = None}
           to == [p \in unmarked |-> tree[p]]
<1>1. Begun
  BY DEF Applied, Begun, On
<1>2. PICK R \in SUBSET Path, K \in SUBSET Path : merge \in Merging(R, K)
  BY <1>1, MergeTyped
<1>3. unmarked \in SUBSET Path
  BY <1>1, MergeFields DEF Conflicts
<1> HIDE DEF unmarked
<1>4. to \in [unmarked -> Content]
  BY <1>3 DEF MergeTypeOK
<1>5. merge' = [merge EXCEPT !.at = "record", !.kept = to]
  BY DEF Applied, unmarked
<1> HIDE DEF to
<1>6. merge' \in Merging(R, unmarked)
  BY <1>2, <1>4, <1>5 DEF Merging
<1>7. merge'.at = "record" /\ SamePlan /\ SameFiles /\ merge'.kept = to
  BY <1>2, <1>5 DEF Merging, SamePlan, SameFiles
<1> QED
  BY <1>3, <1>6, <1>7 DEF TypedAfter, to, unmarked

-----------------------------------------------------------------------------
(* The type invariant. *)

\* The merge's own steps keep it typed.
LEMMA MergeTypedStep ==
  ASSUME MergeTypeOK, DoneTrue, Merge
  PROVE  merge' \in Resolving \cup {Idle} \/ TypedAfter
<1>1. CASE Resolve
  <2>1. record.plan \in 1 .. MaxPlans + 1
    BY DEF MergeTypeOK, RecordType
  <2> QED
    BY <1>1, <2>1 DEF Resolve, Resolving
<1>2. CASE EndFailed \/ RecordMerge \/ RecordResolved \/ MergeDies
  BY <1>2 DEF EndFailed, RecordMerge, RecordResolved, MergeDies
<1> QED
  BY <1>1, <1>2, StartFields, ReadFields, CopiesFields, CheckFields, MoveFields, FailFields, UndoFields, BackFields,
     UndoneFields, AppliedFields DEF Merge

\* What a merge writes to units.json.
LEMMA RecordTyped ==
  ASSUME MergeTypeOK, MergeNext
  PROVE  \E K \in SUBSET Path : record' \in RecordType(K)
<1>0. PICK K \in SUBSET Path : record \in RecordType(K)
  BY DEF MergeTypeOK
<1>1. CASE record' = record
  BY <1>0, <1>1
<1>2. CASE Replan
  <2> DEFINE nothing == [p \in {} |-> None]
  <2>1. nothing \in [{} -> Content]
    OBVIOUS
  <2>2. record' = [plan |-> record.plan + 1, status |-> "pending", conflicts |-> {}, kept |-> nothing, torn |-> FALSE]
    BY <1>2 DEF Replan, NoRecord
  <2>3. record.plan + 1 \in 1 .. MaxPlans + 1
    BY <1>0, <1>2, MergeConstantsOK DEF Replan, RecordType
  <2> HIDE DEF nothing
  <2>4. record' \in RecordType({})
    BY <2>1, <2>2, <2>3 DEF RecordType
  <2> QED
    BY <2>4
<1>3. CASE RunUnit
  BY <1>0, <1>3 DEF RunUnit, RecordType
<1>4. CASE RecordMerge
  <2>1. Begun
    BY <1>4 DEF RecordMerge, Begun, On
  <2>2. PICK R \in SUBSET Path, L \in SUBSET Path : merge \in Merging(R, L)
    BY <2>1, MergeTyped
  <2>3. merge.kept \in [L -> Content]
    BY <2>2 DEF Merging
  <2>4. Conflicts \in SUBSET Path
    BY <2>1, MergeFields DEF Conflicts
  <2>5. (merge.plan # record.plan) \in BOOLEAN
    OBVIOUS
  <2>6. (IF Conflicts = {} THEN "merged" ELSE "conflicted") \in {"pending", "succeeded", "conflicted", "merged"}
    OBVIOUS
  <2>7. record' \in RecordType(L)
    BY <1>0, <1>4, <2>3, <2>4, <2>5, <2>6 DEF RecordMerge, RecordType
  <2> QED
    BY <2>7
<1>5. CASE RecordResolved
  <2>1. (record.torn \/ merge.plan # record.plan) \in BOOLEAN
    OBVIOUS
  <2>2. record' = [record EXCEPT !.status = "merged", !.torn = record.torn \/ merge.plan # record.plan]
    BY <1>5 DEF RecordResolved
  <2> DEFINE torn == record.torn \/ merge.plan # record.plan
  <2>3. torn \in BOOLEAN /\ record' = [record EXCEPT !.status = "merged", !.torn = torn]
    BY <2>1, <2>2
  <2> HIDE DEF torn
  <2>4. record' \in RecordType(K)
    BY <1>0, <2>3 DEF RecordType
  <2> QED
    BY <2>4
<1>6. record' = record \/ Replan \/ RunUnit \/ RecordMerge \/ RecordResolved
  BY DEF MergeNext, Others, UserEdits, Merge, StartMerge, ReadFile, KeepCopies, CheckFile, MoveFile, FailMerge,
     UndoFile, MoveBack, UndoDone, EndFailed, Applied, Resolve, MergeDies
<1> QED
  BY <1>1, <1>2, <1>3, <1>4, <1>5, <1>6

\* The tree and what is kept of it.
LEMMA TreeTyped ==
  ASSUME MergeTypeOK, DoneTrue, MergeNext
  PROVE  /\ tree' \in [Path -> Content] /\ theirs' \subseteq Path
         /\ edits' \in 0 .. MaxEdits /\ merges' \in 0 .. MaxMerges
         /\ edit' \in [Path -> UserContent \cup {Unedited}] /\ lost' \subseteq Path /\ in' \subseteq Path
         /\ acted' \subseteq Path
<1> USE DEF MergeTypeOK, history
<1>1. CASE UserEdits
  <2>1. PICK p \in Path, c \in UserContent :
          tree' = [tree EXCEPT ![p] = c] /\ edit' = [edit EXCEPT ![p] = c] /\ acted' = acted \cup {p}
    BY <1>1 DEF UserEdits
  <2>2. tree' \in [Path -> Content]
    BY <2>1 DEF Content
  <2>3. edits' \in 0 .. MaxEdits
    BY <1>1, MergeConstantsOK DEF UserEdits
  <2> QED
    BY <1>1, <2>1, <2>2, <2>3 DEF UserEdits
<1>2. CASE Replan \/ RunUnit
  BY <1>2 DEF Replan, RunUnit
<1>3. CASE StartMerge
  <2>1. merges' \in 0 .. MaxMerges
    BY <1>3, MergeConstantsOK DEF StartMerge
  <2> QED
    BY <1>3, <2>1 DEF StartMerge
<1>4. CASE ReadFile
  <2>1. UNCHANGED <<edit, acted>> \/ \E p \in Path : edit' = [edit EXCEPT ![p] = Unedited] /\ acted' = acted \ {p}
    BY <1>4, ReadFields DEF ReadsOf
  <2>2. edit' \in [Path -> UserContent \cup {Unedited}] /\ acted' \subseteq Path
    BY <2>1
  <2> QED
    BY <1>4, <2>2 DEF ReadFile
<1>5. CASE KeepCopies
  <2>1. Read \subseteq Path
    BY <1>5, MergeFields DEF KeepCopies, Begun, On
  <2> QED
    BY <1>5, <2>1 DEF KeepCopies
<1>6. CASE MoveFile
  <2>1. tree' \in [Path -> Content] /\ lost' \subseteq Path
    BY <1>6, MoveFields
  <2> QED
    BY <1>6, <2>1 DEF MoveFile
<1>7. CASE MoveBack
  <2>1. tree' \in [Path -> Content] /\ lost' \subseteq Path
    BY <1>7, BackFields
  <2> QED
    BY <1>7, <2>1 DEF MoveBack
<1>8. CASE Applied
  BY <1>8 DEF Applied
<1>9. CASE Resolve
  <2>1. record.conflicts \subseteq Path
    BY DEF RecordType
  <2> QED
    BY <1>9, <2>1 DEF Resolve
<1>10. CASE CheckFile \/ FailMerge \/ UndoFile \/ UndoDone \/ EndFailed \/ RecordMerge \/ RecordResolved \/ MergeDies
  BY <1>10 DEF CheckFile, FailMerge, UndoFile, UndoDone, EndFailed, RecordMerge, RecordResolved, MergeDies
<1> QED
  BY <1>1, <1>2, <1>3, <1>4, <1>5, <1>6, <1>7, <1>8, <1>9, <1>10 DEF MergeNext, Others, Merge

LEMMA MergeTypesStep ==
  ASSUME MergeTypeOK, DoneTrue, [MergeNext]_mergeVars
  PROVE  MergeTypeOK'
<1>1. CASE UNCHANGED mergeVars
  BY <1>1 DEF MergeTypeOK, mergeVars, history
<1>2. CASE MergeNext
  <2>1. merge' = merge \/ Merge
    BY <1>2 DEF MergeNext, Others, UserEdits, Replan, RunUnit
  <2>2. merge' \in Resolving \cup {Idle} \/ \E R, K \in SUBSET Path : merge' \in Merging(R, K)
    BY <2>1, MergeTypedStep DEF MergeTypeOK, TypedAfter
  <2> QED
    BY <1>2, <2>2, RecordTyped, TreeTyped DEF MergeTypeOK
<1> QED
  BY <1>1, <1>2

-----------------------------------------------------------------------------
(* Results, and what is done. *)

\* A merge that goes on is as it was, or took one of its steps.
LEMMA GoesOn ==
  ASSUME MergeTypeOK, DoneTrue, [MergeNext]_mergeVars, Begun'
  PROVE  \/ merge' = merge /\ (UserEdits \/ Replan \/ RunUnit \/ UNCHANGED mergeVars)
         \/ StartMerge \/ ReadFile
         \/ KeepCopies \/ CheckFile \/ MoveFile \/ FailMerge \/ UndoFile \/ MoveBack \/ UndoDone \/ Applied
<1>1. UserEdits \/ Replan \/ RunUnit \/ UNCHANGED mergeVars => merge' = merge
  BY DEF UserEdits, Replan, RunUnit, mergeVars
<1>2. ~(EndFailed \/ RecordMerge \/ RecordResolved \/ MergeDies)
  BY DEF EndFailed, RecordMerge, RecordResolved, MergeDies, Begun, On, Idle
<1>3. ~Resolve
  BY DEF Resolve, Begun, On
<1> QED
  BY <1>1, <1>2, <1>3 DEF MergeNext, Others, Merge

\* But for the start and a file read, it goes by the same results.
LEMMA SameResults ==
  ASSUME MergeTypeOK, DoneTrue,
         KeepCopies \/ CheckFile \/ MoveFile \/ FailMerge \/ UndoFile \/ MoveBack \/ UndoDone \/ Applied
  PROVE  Begun /\ SamePlan /\ Read' = Read
<1>1. Begun
  BY DEF KeepCopies, CheckFile, MoveFile, FailMerge, UndoFile, MoveBack, UndoDone, Applied, Begun, On
<1>2. SamePlan
  BY CopiesFields, CheckFields, MoveFields, FailFields, UndoFields, BackFields, UndoneFields, AppliedFields
<1> QED
  BY <1>1, <1>2 DEF SamePlan, Read

LEMMA ResultsStep ==
  ASSUME MergeTypeOK, DoneTrue, ResultsTrue, [MergeNext]_mergeVars
  PROVE  ResultsTrue'
<1> SUFFICES ASSUME Begun'
             PROVE  /\ \A p \in Read' : merge'.results[p] \in MergeFile(p, merge'.results[p].current)
                    /\ Planned' => Read' = Path
  BY DEF ResultsTrue, MergeFile, BothChanged, Kept, MergeText, Result
<1>1. CASE merge' = merge
  BY <1>1 DEF ResultsTrue, Begun, Planned, On, Read
<1>2. CASE StartMerge
  BY <1>2, StartFields DEF Planned, On
<1>3. CASE ReadFile
  <2>0. Begun /\ merge.at = "read"
    BY <1>3 DEF ReadFile, Begun, On
  <2>1. CASE merge'.at = "copies" /\ Read = Path /\ SamePlan
    BY <2>0, <2>1 DEF ResultsTrue, SamePlan, Read
  <2>2. ASSUME NEW p \in Path, ReadsOf(p)
        PROVE  /\ \A q \in Read' : merge'.results[q] \in MergeFile(q, merge'.results[q].current)
               /\ Planned' => Read' = Path
    <3>1. PICK r \in MergeFile(p, tree[p]) :
            merge'.results = [q \in Read \cup {p} |-> IF q = p THEN r ELSE merge.results[q]]
      BY <2>2 DEF ReadsOf
    <3>2. r.current = tree[p]
      BY <3>1, MergeFileGives DEF MergeTypeOK
    <3>3. Read' = Read \cup {p}
      BY <3>1 DEF Read
    <3>4. ~Planned'
      BY <2>2 DEF ReadsOf, Planned, On
    <3> SUFFICES ASSUME NEW q \in Read' PROVE merge'.results[q] \in MergeFile(q, merge'.results[q].current)
      BY <3>4
    <3>5. CASE q = p
      BY <3>1, <3>2, <3>3, <3>5
    <3>6. CASE q # p
      <4>1. q \in Read /\ merge'.results[q] = merge.results[q]
        BY <3>1, <3>3, <3>6
      <4> QED
        BY <2>0, <4>1 DEF ResultsTrue
    <3> QED
      BY <3>5, <3>6
  <2> QED
    BY <1>3, <2>1, <2>2, ReadFields
<1>4. CASE KeepCopies \/ CheckFile \/ MoveFile \/ FailMerge \/ UndoFile \/ MoveBack \/ UndoDone \/ Applied
  <2>1. Begun /\ SamePlan /\ Read' = Read
    BY <1>4, SameResults
  <2>2. Planned' => Planned
    <3>1. KeepCopies \/ CheckFile \/ MoveFile \/ Applied => Planned
      BY DEF KeepCopies, CheckFile, MoveFile, Applied, Planned, On
    <3>2. FailMerge \/ UndoFile \/ MoveBack \/ UndoDone => ~Planned'
      BY FailFields, UndoFields, BackFields, UndoneFields DEF Planned, On
    <3> QED
      BY <1>4, <3>1, <3>2
  <2> QED
    BY <2>1, <2>2 DEF ResultsTrue, SamePlan
<1> QED
  BY <1>1, <1>2, <1>3, <1>4, GoesOn

LEMMA DoneStep ==
  ASSUME MergeTypeOK, DoneTrue, ResultsTrue, [MergeNext]_mergeVars
  PROVE  DoneTrue'
<1> SUFFICES ASSUME Begun'
             PROVE  /\ \A i \in DOMAIN merge'.done :
                         /\ merge'.done[i].path \in Read' /\ Writes(merge.done[i].path)'
                         /\ merge'.done[i].written = merge'.results[merge'.done[i].path].content
                    /\ \A i, j \in DOMAIN merge'.done : merge'.done[i].path = merge'.done[j].path => i = j
                    /\ On({"read", "copies"})' => merge'.done = <<>>
                    /\ On({"move", "back"})' => merge'.next \in Read' /\ Writes(merge.next)' /\ merge'.next \notin Done'
                    /\ On({"move"})' => merge'.seen = merge'.results[merge'.next].current
                    /\ On({"back"})' => merge'.seen = merge'.results[merge'.next].content
  BY DEF DoneTrue
<1>1. CASE merge' = merge
  BY <1>1 DEF DoneTrue, Begun, On, Read, Writes, Done
<1>2. CASE merge'.done = <<>> /\ ~On({"move", "back"})'
  BY <1>2 DEF On
<1>3. CASE StartMerge
  <2>1. merge'.done = <<>> /\ ~On({"move", "back"})'
    BY <1>3, StartFields DEF On
  <2> QED
    BY <1>2, <2>1
<1>4. CASE ReadFile
  <2>1. merge.done = <<>>
    BY <1>4 DEF ReadFile, DoneTrue, Begun, On
  <2>2. merge'.done = <<>> /\ ~On({"move", "back"})'
    BY <1>4, <2>1, ReadFields DEF ReadsOf, SameFiles, On
  <2> QED
    BY <1>2, <2>2
<1>5. ASSUME Begun, SamePlan, merge'.done = merge.done
      PROVE  /\ \A i \in DOMAIN merge'.done :
                  /\ merge'.done[i].path \in Read' /\ Writes(merge.done[i].path)'
                  /\ merge'.done[i].written = merge'.results[merge'.done[i].path].content
             /\ \A i, j \in DOMAIN merge'.done : merge'.done[i].path = merge'.done[j].path => i = j
             /\ Done' = Done
  BY <1>5 DEF SamePlan, DoneTrue, Read, Writes, Done
<1>6. CASE KeepCopies \/ FailMerge \/ UndoDone \/ Applied \/ MoveBack
  <2>1. Begun /\ SamePlan
    BY <1>6, SameResults
  <2>2. /\ merge'.done = merge.done /\ ~On({"move", "back"})'
        /\ ~On({"read", "copies"})'
    BY <1>6, CopiesFields, FailFields, UndoneFields, AppliedFields, BackFields DEF SameFiles, On
  <2> QED
    BY <1>5, <2>1, <2>2 DEF On
<1>7. CASE CheckFile
  <2>1. Begun /\ SamePlan /\ Read' = Read /\ merge'.done = merge.done /\ merge.at = "apply"
    BY <1>7, SameResults, CheckFields DEF SameFiles, CheckFile
  <2>2. CASE merge'.at = "undo"
    BY <1>5, <2>1, <2>2 DEF On
  <2>3. ASSUME NEW p \in Path, ChecksOf(p)
        PROVE  /\ merge'.at = "move" /\ merge'.next \in Read' /\ Writes(merge.next)' /\ merge'.next \notin Done'
               /\ merge'.seen = merge'.results[merge'.next].current
    <3>1. Read = Path
      BY <2>1 DEF ResultsTrue, Planned, On
    <3>2. p \notin Done /\ Writes(p) /\ merge'.next = p /\ merge'.at = "move" /\ merge'.seen = merge.results[p].current
      BY <2>3 DEF ChecksOf, ToWrite
    <3>3. Writes(merge.next)'
      BY <2>1, <3>2 DEF Writes, SamePlan
    <3> QED
      BY <1>5, <2>1, <3>1, <3>2, <3>3 DEF SamePlan
  <2> QED
    BY <1>5, <1>7, <2>1, <2>2, <2>3, CheckFields DEF On
<1>8. CASE MoveFile
  <2> DEFINE p == merge.next
             entry == [path |-> p, previous |-> merge.results[p].current, written |-> merge.results[p].content]
  <2>1. /\ Begun /\ SamePlan /\ Read' = Read /\ p \in Read /\ p \notin Done /\ merge'.at = "apply"
        /\ merge'.done = Append(merge.done, entry)
    BY <1>8, SameResults, MoveFields
  <2>2. Writes(p)
    BY <1>8 DEF MoveFile, DoneTrue, Begun, On
  <2>3. merge.done \in Seq(DoneType)
    BY <2>1, MergeFields
  <2>4. entry.path = p /\ entry.written = merge.results[p].content
    OBVIOUS
  <2> HIDE DEF entry, p
  <2> DEFINE n == Len(merge.done)
  <2>5. /\ n \in Nat /\ DOMAIN merge.done = 1 .. n /\ DOMAIN merge'.done = 1 .. n + 1
        /\ \A i \in 1 .. n : merge'.done[i] = merge.done[i]
        /\ merge'.done[n + 1] = entry
    BY <2>1, <2>3
  <2> HIDE DEF n
  <2>6. \A i \in 1 .. n : merge.done[i].path # p
    BY <2>1, <2>5 DEF Done
  <2>7. \A i \in DOMAIN merge'.done :
          /\ merge'.done[i].path \in Read' /\ Writes(merge.done[i].path)'
          /\ merge'.done[i].written = merge'.results[merge'.done[i].path].content
    <3> SUFFICES ASSUME NEW i \in DOMAIN merge'.done
                 PROVE  /\ merge'.done[i].path \in Read' /\ Writes(merge.done[i].path)'
                        /\ merge'.done[i].written = merge'.results[merge'.done[i].path].content
      OBVIOUS
    <3>1. CASE i \in 1 .. n
      BY <2>1, <2>5, <3>1 DEF DoneTrue, SamePlan, Writes
    <3>2. CASE i = n + 1
      BY <2>1, <2>2, <2>4, <2>5, <3>2 DEF SamePlan, Writes
    <3> QED
      BY <2>5, <3>1, <3>2
  <2>8. \A i, j \in DOMAIN merge'.done : merge'.done[i].path = merge'.done[j].path => i = j
    BY <2>1, <2>4, <2>5, <2>6 DEF DoneTrue
  <2> QED
    BY <2>1, <2>7, <2>8 DEF On
<1>9. CASE UndoFile
  <2> DEFINE last == Last(merge.done)
             p == last.path
  <2>1. /\ Begun /\ SamePlan /\ Read' = Read /\ merge'.done = Front(merge.done)
        /\ merge'.at \in {"undo", "back"}
        /\ merge'.at = "back" => tree[p] = last.written /\ merge'.next = p /\ merge'.seen = tree[p]
    BY <1>9, SameResults, UndoFields
  <2>2. merge.done \in Seq(DoneType) /\ merge.done # <<>>
    BY <1>9, <2>1, MergeFields DEF UndoFile
  <2> HIDE DEF p, last
  <2> DEFINE n == Len(merge.done)
  <2>3. /\ n \in Nat \ {0} /\ DOMAIN merge.done = 1 .. n /\ DOMAIN merge'.done = 1 .. n - 1
        /\ \A i \in 1 .. n - 1 : merge'.done[i] = merge.done[i]
        /\ merge.done[n] = last
    BY <2>1, <2>2, FrontFacts DEF last
  <2> HIDE DEF n
  <2>4. n \in DOMAIN merge.done
    BY <2>3
  <2>5. p \in Read /\ Writes(p) /\ last.written = merge.results[p].content
    BY <2>1, <2>3, <2>4 DEF DoneTrue, p
  <2>6. \A i \in 1 .. n - 1 : merge.done[i].path # p
    BY <2>1, <2>3, <2>4 DEF DoneTrue, p
  <2>7. p \notin Done'
    BY <2>3, <2>6 DEF Done
  <2>8. \A i \in DOMAIN merge'.done :
          /\ merge'.done[i].path \in Read' /\ Writes(merge.done[i].path)'
          /\ merge'.done[i].written = merge'.results[merge'.done[i].path].content
    BY <2>1, <2>3 DEF DoneTrue, SamePlan, Writes
  <2>9. \A i, j \in DOMAIN merge'.done : merge'.done[i].path = merge'.done[j].path => i = j
    BY <2>1, <2>3 DEF DoneTrue
  <2>10. merge'.at = "back" => Writes(merge.next)'
    BY <2>1, <2>5 DEF SamePlan, Writes
  <2> QED
    BY <2>1, <2>5, <2>7, <2>8, <2>9, <2>10 DEF On, SamePlan
<1> QED
  BY <1>1, <1>3, <1>4, <1>6, <1>7, <1>8, <1>9, GoesOn

-----------------------------------------------------------------------------
(* The files a merge has in hand. *)

\* What is left as it is holds of what was read, and of nothing written yet.
LEMMA ReadIsLeft == ASSUME NEW p, AsRead(p) PROVE AsLeft(p)
  BY DEF AsRead, AsLeft

\* Files the step leaves alone are as they were.
LEMMA FileStays ==
  ASSUME NEW p, tree'[p] = tree[p], edit'[p] = edit[p], merge'.results[p] = merge.results[p],
         merge.left \subseteq merge'.left
  PROVE  /\ AsRead(p) => AsRead(p)'
         /\ AsWritten(p) => AsWritten(p)'
         /\ AsLeft(p) => AsLeft(p)'
  BY DEF AsRead, AsWritten, AsLeft, Written, Writes

\* While the merge waits, an edit is of one file.
LEMMA FilesWait ==
  ASSUME MergeTypeOK, FilesTrue, merge' = merge, UserEdits \/ Replan \/ RunUnit \/ UNCHANGED mergeVars
  PROVE  FilesTrue'
<1>1. ASSUME NEW p \in Path
      PROVE  /\ AsRead(p) => AsRead(p)'
             /\ AsWritten(p) => AsWritten(p)'
             /\ AsLeft(p) => AsLeft(p)'
  <2>1. CASE tree'[p] = tree[p] /\ edit'[p] = edit[p]
    BY <2>1, FileStays
  <2>2. CASE tree'[p] = edit'[p]
    BY <2>2 DEF AsRead, AsWritten, AsLeft
  <2>3. CASE UserEdits
    <3>1. PICK q \in Path, c \in UserContent : tree' = [tree EXCEPT ![q] = c] /\ edit' = [edit EXCEPT ![q] = c]
      BY <2>3 DEF UserEdits
    <3>2. q = p => tree'[p] = edit'[p]
      BY <3>1 DEF MergeTypeOK
    <3>3. q # p => tree'[p] = tree[p] /\ edit'[p] = edit[p]
      BY <3>1 DEF MergeTypeOK
    <3> QED
      BY <2>1, <2>2, <3>2, <3>3
  <2>4. CASE Replan \/ RunUnit \/ UNCHANGED mergeVars
    BY <2>1, <2>4 DEF Replan, RunUnit, mergeVars, history
  <2> QED
    BY <2>3, <2>4
<1>2. lost' = lost
  BY DEF UserEdits, Replan, RunUnit, mergeVars, history
<1>3. Begun => Read \subseteq Path
  BY MergeFields
<1>4. /\ Read' = Read /\ Done' = Done /\ ToPutBack' = ToPutBack
      /\ \A steps : On(steps)' = On(steps)
  BY DEF Read, Done, ToPutBack, On
<1>5. On({"read", "copies", "apply", "move"}) \/ Undoing \/ On({"failed"}) => Begun
  BY DEF Begun, On, Undoing
<1> QED
  BY <1>1, <1>2, <1>3, <1>4, <1>5 DEF FilesTrue, Undoing

\* The files a reading, checking or failing merge leaves alone.
LEMMA FilesKept ==
  ASSUME MergeTypeOK, DoneTrue, FilesTrue,
         KeepCopies \/ CheckFile \/ FailMerge \/ UndoDone
  PROVE  FilesTrue'
<1>1. Begun /\ SamePlan /\ Read' = Read /\ SameFiles /\ UNCHANGED <<tree, edit, lost>>
  BY SameResults, CopiesFields, CheckFields, FailFields, UndoneFields
  DEF KeepCopies, CheckFile, FailMerge, UndoDone, history
<1>2. Done' = Done
  BY <1>1 DEF SameFiles, Done
<1>3. ASSUME NEW p
      PROVE  /\ AsRead(p) => AsRead(p)'
             /\ AsWritten(p) => AsWritten(p)'
             /\ AsLeft(p) => AsLeft(p)'
  BY <1>1, FileStays DEF SamePlan, SameFiles
<1>4. merge.done = <<>> => Done = {}
  BY DEF Done
<1>5. CASE KeepCopies
  <2>1. merge.at = "copies" /\ merge'.at = "apply"
    BY <1>5, CopiesFields DEF KeepCopies
  <2> QED
    BY <1>1, <1>2, <1>3, <2>1 DEF FilesTrue, On, Undoing
<1>6. CASE CheckFile \/ (FailMerge /\ merge.at \in {"apply", "move"})
  <2>1. merge.at \in {"apply", "move"} /\ merge'.at \in {"move", "undo"}
    BY <1>6, CheckFields, FailFields DEF CheckFile, ChecksOf
  <2>2. \A p \in Read \ lost : IF p \in Done THEN AsWritten(p) ELSE AsRead(p)
    BY <2>1 DEF FilesTrue, On
  <2>3. CASE merge'.at = "move"
    BY <1>1, <1>2, <1>3, <2>2, <2>3 DEF FilesTrue, On, Undoing
  <2>4. CASE merge'.at = "undo"
    <3>1. ToPutBack' = Done
      BY <1>2, <2>4 DEF ToPutBack, On
    <3>2. \A p \in Read \ lost : IF p \in Done THEN AsWritten(p) ELSE AsLeft(p)
      BY <2>2, ReadIsLeft
    <3> QED
      BY <1>1, <1>3, <2>4, <3>1, <3>2 DEF FilesTrue, On, Undoing
  <2> QED
    BY <2>1, <2>3, <2>4
<1>7. CASE (FailMerge /\ merge.at \in {"read", "copies"}) \/ UndoDone
  <2>1. merge'.at = "failed"
    BY <1>7, FailFields, UndoneFields
  <2>2. merge.done = <<>>
    BY <1>1, <1>7 DEF UndoDone, DoneTrue, On
  <2>3. \A p \in Read \ lost : AsRead(p) \/ AsLeft(p)
    <3>1. CASE merge.at \in {"read", "copies"}
      BY <1>4, <2>2, <3>1 DEF FilesTrue, On
    <3>2. CASE merge.at = "undo"
      BY <1>4, <2>2, <3>2 DEF FilesTrue, On, Undoing, ToPutBack
    <3> QED
      BY <1>7, <3>1, <3>2 DEF UndoDone
  <2>4. \A p \in Read \ lost : AsLeft(p)
    BY <2>3, ReadIsLeft
  <2> QED
    BY <1>1, <1>3, <2>1, <2>4 DEF FilesTrue, On, Undoing
<1> QED
  BY <1>5, <1>6, <1>7, FailFields

\* A file is read.
LEMMA FilesRead ==
  ASSUME MergeTypeOK, DoneTrue, FilesTrue, ReadFile
  PROVE  FilesTrue'
<1>1. Begun /\ merge.at = "read" /\ merge.done = <<>> /\ UNCHANGED <<tree, lost>>
  BY DEF ReadFile, Begun, On, DoneTrue
<1>2. merge'.done = <<>> /\ merge'.left = merge.left /\ merge'.at \in {"read", "copies"}
  BY <1>1, ReadFields DEF ReadsOf, SameFiles
<1>3. Done = {} /\ Done' = {}
  BY <1>1, <1>2 DEF Done
<1>4. \A p \in Read \ lost : AsRead(p)
  BY <1>1, <1>3 DEF FilesTrue, On
<1> SUFFICES ASSUME NEW q \in Read' \ lost' PROVE AsRead(q)'
  BY <1>2, <1>3 DEF FilesTrue, On, Undoing
<1>5. CASE merge'.at = "copies" /\ SamePlan /\ UNCHANGED <<edit, acted>>
  <2>1. q \in Read \ lost
    BY <1>1, <1>5 DEF SamePlan, Read
  <2> QED
    BY <1>1, <1>2, <1>4, <1>5, <2>1, FileStays DEF SamePlan
<1>6. ASSUME NEW p \in Path, ReadsOf(p) PROVE AsRead(q)'
  <2>1. PICK r \in MergeFile(p, tree[p]) :
          merge'.results = [x \in Read \cup {p} |-> IF x = p THEN r ELSE merge.results[x]]
    BY <1>6 DEF ReadsOf
  <2>2. r.current = tree[p]
    BY <2>1, MergeFileGives DEF MergeTypeOK
  <2>3. edit' = [edit EXCEPT ![p] = Unedited] /\ edit \in [Path -> UserContent \cup {Unedited}]
    BY <1>6 DEF ReadsOf, MergeTypeOK
  <2>4. q \in Read \cup {p}
    BY <2>1 DEF Read
  <2>5. CASE q = p
    BY <1>1, <2>1, <2>2, <2>3, <2>5 DEF AsRead
  <2>6. CASE q # p
    <3>1. q \in Read \ lost /\ edit'[q] = edit[q] /\ merge'.results[q] = merge.results[q]
      BY <1>1, <2>1, <2>3, <2>4, <2>6
    <3> QED
      BY <1>1, <1>2, <1>4, <3>1, FileStays
  <2> QED
    BY <2>5, <2>6
<1> QED
  BY <1>5, <1>6, ReadFields

\* A file is moved over.
LEMMA FilesMoved ==
  ASSUME MergeTypeOK, DoneTrue, FilesTrue, MoveFile
  PROVE  FilesTrue'
<1> DEFINE p == merge.next
           entry == [path |-> p, previous |-> merge.results[p].current, written |-> merge.results[p].content]
<1>1. Begun /\ On({"move"}) /\ merge.at = "move" /\ UNCHANGED edit
  BY DEF MoveFile, Begun, On
<1>2. /\ p \in Read /\ p \in Path /\ p \notin Done
      /\ merge'.at = "apply" /\ SamePlan /\ merge'.left = merge.left /\ merge'.done = Append(merge.done, entry)
      /\ tree' = [tree EXCEPT ![p] = merge.results[p].content]
      /\ lost' = IF tree[p] = merge.seen THEN lost ELSE lost \cup {p}
  BY MoveFields
<1>3. merge.seen = merge.results[p].current
  BY <1>1 DEF DoneTrue
<1>4. \A q \in Read \ lost : IF q \in Done THEN AsWritten(q) ELSE AsRead(q)
  BY <1>1 DEF FilesTrue, On
<1>5. Done' = Done \cup {p} /\ Read' = Read
  <2>1. merge.done \in Seq(DoneType)
    BY <1>1, MergeFields
  <2>2. entry.path = p
    OBVIOUS
  <2> HIDE DEF entry, p
  <2> DEFINE n == Len(merge.done)
  <2>3. /\ n \in Nat /\ DOMAIN merge.done = 1 .. n /\ DOMAIN merge'.done = 1 .. n + 1
        /\ \A i \in 1 .. n : merge'.done[i] = merge.done[i]
        /\ merge'.done[n + 1] = entry
    BY <1>2, <2>1
  <2> HIDE DEF n
  <2>4. Done' = Done \cup {p}
    BY <2>2, <2>3 DEF Done
  <2> QED
    BY <1>2, <2>4 DEF SamePlan, Read
<1> HIDE DEF p, entry
<1> SUFFICES ASSUME NEW q \in Read \ lost' PROVE IF q \in Done \cup {p} THEN AsWritten(q)' ELSE AsRead(q)'
  BY <1>2, <1>5 DEF FilesTrue, On, Undoing
<1>6. q \in Read \ lost /\ q \in Path
  BY <1>1, <1>2, MergeFields
<1>7. CASE q = p
  <2>1. tree[p] = merge.results[p].current
    BY <1>2, <1>3, <1>7
  <2>2. AsRead(p)
    BY <1>2, <1>4, <1>6, <1>7
  <2>3. edit'[p] \in {Unedited, merge'.results[p].current}
    BY <1>1, <1>2, <2>1, <2>2 DEF AsRead, SamePlan
  <2>4. tree'[p] = merge'.results[p].content
    BY <1>2 DEF SamePlan, MergeTypeOK
  <2> QED
    BY <1>7, <2>3, <2>4 DEF AsWritten
<1>8. CASE q # p
  <2>1. tree'[q] = tree[q] /\ edit'[q] = edit[q] /\ merge'.results[q] = merge.results[q]
    BY <1>1, <1>2, <1>6, <1>8 DEF SamePlan, MergeTypeOK
  <2> QED
    BY <1>2, <1>4, <1>6, <1>8, <2>1, FileStays
<1> QED
  BY <1>7, <1>8

\* The last file done is taken up, to be put back, or left.
LEMMA FilesUndone ==
  ASSUME MergeTypeOK, DoneTrue, FilesTrue, UndoFile
  PROVE  FilesTrue'
<1> DEFINE last == Last(merge.done)
           p == last.path
<1>1. Begun /\ merge.at = "undo" /\ merge.done # <<>> /\ UNCHANGED <<tree, edit, lost>>
  BY DEF UndoFile, Begun, On, history
<1>2. /\ SamePlan /\ merge'.done = Front(merge.done)
      /\ \/ merge'.at = "back" /\ merge'.next = p /\ merge'.left = merge.left
         \/ tree[p] # last.written /\ merge'.at = "undo" /\ merge'.left = merge.left \cup {p}
  BY UndoFields
<1> HIDE DEF p, last
<1>3. Done = Done' \cup {p} /\ Read' = Read /\ last.written = merge.results[p].content
  <2>1. merge.done \in Seq(DoneType)
    BY <1>1, MergeFields
  <2> DEFINE n == Len(merge.done)
  <2>2. /\ n \in Nat \ {0} /\ DOMAIN merge.done = 1 .. n /\ DOMAIN merge'.done = 1 .. n - 1
        /\ \A i \in 1 .. n - 1 : merge'.done[i] = merge.done[i]
        /\ merge.done[n] = last
    BY <1>1, <1>2, <2>1, FrontFacts DEF last
  <2> HIDE DEF n
  <2>3. Done = Done' \cup {p}
    BY <2>2 DEF Done, p
  <2>4. n \in DOMAIN merge.done
    BY <2>2
  <2>5. last.written = merge.results[p].content
    BY <1>1, <2>2, <2>4 DEF DoneTrue, p
  <2> QED
    BY <1>2, <2>3, <2>5 DEF SamePlan, Read
<1>4. \A q \in Read \ lost : IF q \in Done THEN AsWritten(q) ELSE AsLeft(q)
  BY <1>1 DEF FilesTrue, Undoing, On, ToPutBack
<1>5. merge.left \subseteq merge'.left
  BY <1>2
<1>6. ASSUME NEW q
      PROVE  /\ AsWritten(q) => AsWritten(q)'
             /\ AsLeft(q) => AsLeft(q)'
  BY <1>1, <1>2, <1>5, FileStays DEF SamePlan
<1>7. CASE merge'.at = "back" /\ merge'.next = p
  <2>1. ToPutBack' = Done
    BY <1>3, <1>7 DEF ToPutBack, On
  <2> QED
    BY <1>1, <1>3, <1>4, <1>6, <1>7, <2>1 DEF FilesTrue, On, Undoing
<1>8. CASE tree[p] # last.written /\ merge'.at = "undo"
  <2>1. ToPutBack' = Done'
    BY <1>8 DEF ToPutBack, On
  <2>2. AsWritten(p) => AsLeft(p)
    BY <1>3, <1>8 DEF AsWritten, AsLeft
  <2>3. \A q \in Read \ lost : IF q \in Done' THEN AsWritten(q) ELSE AsLeft(q)
    BY <1>3, <1>4, <2>2
  <2> QED
    BY <1>1, <1>3, <1>6, <1>8, <2>1, <2>3 DEF FilesTrue, On, Undoing
<1> QED
  BY <1>2, <1>7, <1>8

\* It is put back, or named.
LEMMA FilesBack ==
  ASSUME MergeTypeOK, DoneTrue, FilesTrue, MoveBack
  PROVE  FilesTrue'
<1>0. PICK p : p = merge.next
  OBVIOUS
<1>1. Begun /\ merge.at = "back" /\ UNCHANGED edit
  BY DEF MoveBack, Begun, On
<1>2. /\ p \in Read /\ p \in Path /\ p \notin Done
      /\ merge'.at = "undo" /\ SamePlan /\ merge'.done = merge.done
      /\ \/ /\ tree' = [tree EXCEPT ![p] = merge.results[p].current]
            /\ lost' = IF tree[p] = merge.seen THEN lost ELSE lost \cup {p}
            /\ merge'.left = merge.left
         \/ UNCHANGED <<tree, lost>> /\ merge'.left = merge.left \cup {p}
  BY <1>0, BackFields
<1>3. merge.seen = merge.results[p].content /\ Writes(p)
  BY <1>0, <1>1 DEF DoneTrue, On
<1>4. \A q \in Read \ lost : IF q \in Done \cup {p} THEN AsWritten(q) ELSE AsLeft(q)
  BY <1>0, <1>1 DEF FilesTrue, Undoing, On, ToPutBack
<1>5. Done' = Done /\ Read' = Read /\ ToPutBack' = Done
  BY <1>2 DEF SamePlan, Read, Done, ToPutBack, On
<1>6. Writes(p)'
  BY <1>2, <1>3 DEF Writes, SamePlan
<1> SUFFICES ASSUME NEW q \in Read \ lost' PROVE IF q \in Done THEN AsWritten(q)' ELSE AsLeft(q)'
  BY <1>2, <1>5 DEF FilesTrue, On, Undoing
<1>7. q \in Read \ lost /\ q \in Path
  BY <1>1, <1>2, MergeFields
<1>8. CASE q = p
  <2>1. AsWritten(p)
    BY <1>2, <1>4, <1>7, <1>8
  <2>2. CASE tree' = [tree EXCEPT ![p] = merge.results[p].current] /\ tree[p] = merge.seen
    <3>1. tree'[p] = merge'.results[p].current
      BY <1>2, <2>2 DEF MergeTypeOK, SamePlan
    <3>2. edit'[p] \in {Unedited, merge'.results[p].current, Written(p)'}
      BY <1>1, <1>2, <1>3, <1>6, <2>1, <2>2 DEF AsWritten, Written, SamePlan
    <3> QED
      BY <1>2, <1>8, <3>1, <3>2 DEF AsLeft
  <2>3. CASE UNCHANGED <<tree, lost>> /\ merge'.left = merge.left \cup {p}
    <3>1. tree'[p] = edit'[p] \/ edit'[p] \in {Unedited, merge'.results[p].current}
      BY <1>1, <1>2, <2>1, <2>3 DEF AsWritten, SamePlan
    <3> QED
      BY <1>2, <1>8, <2>3, <3>1 DEF AsLeft
  <2> QED
    BY <1>2, <1>8, <2>2, <2>3
<1>9. CASE q # p
  <2>1. tree'[q] = tree[q] /\ edit'[q] = edit[q] /\ merge'.results[q] = merge.results[q] /\ merge.left \subseteq merge'.left
    BY <1>1, <1>2, <1>7, <1>9 DEF SamePlan, MergeTypeOK
  <2> QED
    BY <1>4, <1>7, <1>9, <2>1, FileStays
<1> QED
  BY <1>8, <1>9

LEMMA FilesStep ==
  ASSUME MergeTypeOK, DoneTrue, ResultsTrue, FilesTrue, [MergeNext]_mergeVars
  PROVE  FilesTrue'
<1>1. CASE ~Begun'
  BY <1>1 DEF FilesTrue, Begun, On, Undoing
<1>2. CASE merge' = merge /\ (UserEdits \/ Replan \/ RunUnit \/ UNCHANGED mergeVars)
  BY <1>2, FilesWait
<1>3. CASE StartMerge
  BY <1>3, StartFields DEF FilesTrue, On, Undoing
<1>4. CASE Applied
  BY <1>4, AppliedFields DEF FilesTrue, On, Undoing
<1> QED
  BY <1>1, <1>2, <1>3, <1>4, GoesOn, FilesRead, FilesKept, FilesMoved, FilesUndone, FilesBack

-----------------------------------------------------------------------------
(* The record. *)

LEMMA IdleIsNotOn == ASSUME merge' = Idle, NEW steps, "idle" \notin steps PROVE ~On(steps)'
  BY DEF On, Idle

\* A merge under way has begun, or is resolving.
LEMMA BegunOrResolving ==
  ASSUME MergeTypeOK, merge # Idle
  PROVE  Begun \/ On({"resolved"})
<1>1. CASE merge \in Resolving
  BY <1>1 DEF Resolving, On
<1>2. CASE \E R, K \in SUBSET Path : merge \in Merging(R, K)
  BY <1>2 DEF Merging, Begun, On
<1> QED
  BY <1>1, <1>2 DEF MergeTypeOK

\* But for those that write it, the steps of a merge leave the record alone.
LEMMA RecordLeft ==
  ASSUME StartMerge \/ ReadFile \/ KeepCopies \/ CheckFile \/ MoveFile \/ FailMerge \/ UndoFile \/ MoveBack
           \/ UndoDone \/ EndFailed \/ Applied \/ Resolve \/ MergeDies \/ UserEdits \/ UNCHANGED mergeVars
  PROVE  record' = record
  BY DEF StartMerge, ReadFile, KeepCopies, CheckFile, MoveFile, FailMerge, UndoFile, MoveBack, UndoDone, EndFailed,
     Applied, Resolve, MergeDies, UserEdits, mergeVars

\* A step of a merge under way is of the plan it was of.
LEMMA PlanKept ==
  ASSUME MergeTypeOK, DoneTrue,
         \/ ReadFile \/ KeepCopies \/ CheckFile \/ MoveFile \/ FailMerge \/ UndoFile \/ MoveBack \/ UndoDone \/ Applied
  PROVE  Begun /\ merge'.plan = merge.plan /\ record' = record
<1>1. CASE ReadFile
  <2>1. Begun
    BY <1>1 DEF ReadFile, Begun, On
  <2> QED
    BY <1>1, <2>1, ReadFields, RecordLeft DEF ReadsOf, SamePlan
<1>2. CASE KeepCopies \/ CheckFile \/ MoveFile \/ FailMerge \/ UndoFile \/ MoveBack \/ UndoDone \/ Applied
  BY <1>2, SameResults, RecordLeft DEF SamePlan
<1> QED
  BY <1>1, <1>2

LEMMA RecordStep ==
  ASSUME MergeTypeOK, DoneTrue, CopiesKept, RecordTrue, [MergeNext]_mergeVars
  PROVE  RecordTrue'
<1>0. record.plan \in Int /\ (merge # Idle => merge.plan \in Int)
  <2>1. merge \in Resolving => merge.plan \in Int
    BY DEF Resolving
  <2>2. Begun => merge.plan \in Int
    BY MergeFields
  <2>3. On({"resolved"}) /\ merge # Idle => merge \in Resolving
    BY DEF MergeTypeOK, On, Merging
  <2> QED
    BY <2>1, <2>2, <2>3, BegunOrResolving DEF MergeTypeOK, RecordType
<1>1. CASE merge' = merge /\ record' = record
  BY <1>1 DEF RecordTrue, Begun, On, OfPlan
<1>2. CASE Replan
  <2>1. /\ merge' = merge /\ record'.plan = record.plan + 1 /\ record'.status = "pending"
        /\ DOMAIN record'.kept = {}
    BY <1>2 DEF Replan, NoRecord
  <2>2. merge' # Idle => merge'.plan < record'.plan
    BY <1>0, <2>1 DEF RecordTrue
  <2>3. Begun' \/ On({"resolved"})' => merge' # Idle
    BY DEF Begun, On, Idle
  <2>4. merge' # Idle => ~OfPlan' /\ merge'.plan <= record'.plan
    BY <1>0, <2>1, <2>2 DEF OfPlan
  <2> QED
    BY <2>1, <2>3, <2>4 DEF RecordTrue
<1>3. CASE RunUnit
  <2>1. record.status = "pending" /\ merge' = merge /\ record' = [record EXCEPT !.status = "succeeded"]
    BY <1>3 DEF RunUnit
  <2>2. record'.plan = record.plan /\ record'.status = "succeeded" /\ record'.kept = record.kept /\ record'.conflicts = record.conflicts
    BY <2>1 DEF MergeTypeOK, RecordType
  <2>3. merge # Idle => ~OfPlan
    BY <2>1, BegunOrResolving DEF RecordTrue
  <2>4. On({"resolved"})' => merge # Idle
    BY <2>1 DEF On, Idle
  <2> QED
    BY <2>1, <2>2, <2>3, <2>4 DEF RecordTrue, OfPlan
<1>4. CASE StartMerge
  <2>1. merge'.at = "read" /\ merge'.plan = record.plan /\ record.status = "succeeded" /\ record' = record
    BY <1>4, StartFields, RecordLeft DEF StartMerge
  <2> QED
    BY <1>0, <2>1 DEF RecordTrue, OfPlan, On
<1>5. CASE \/ ReadFile \/ KeepCopies \/ CheckFile \/ MoveFile \/ FailMerge \/ UndoFile \/ MoveBack \/ UndoDone \/ Applied
  <2>1. Begun /\ merge'.plan = merge.plan /\ record' = record
    BY <1>5, PlanKept
  <2>2. merge # Idle
    BY <2>1 DEF Begun, On, Idle
  <2>3. ~On({"resolved"})'
    <3>1. merge'.at # "resolved"
      BY <1>5, ReadFields, CopiesFields, CheckFields, MoveFields, FailFields, UndoFields, BackFields, UndoneFields,
         AppliedFields DEF ReadsOf, ChecksOf
    <3> QED
      BY <3>1 DEF On
  <2> QED
    BY <2>1, <2>2, <2>3 DEF RecordTrue, OfPlan
<1>6. CASE Resolve
  <2>1. merge'.at = "resolved" /\ merge'.plan = record.plan /\ record.status = "conflicted" /\ record' = record
    BY <1>6, RecordLeft DEF Resolve
  <2> QED
    BY <1>0, <2>1 DEF RecordTrue, OfPlan, On, Begun
<1>7. CASE merge' = Idle /\ DOMAIN record'.kept \subseteq record'.conflicts
  BY <1>7, IdleIsNotOn DEF RecordTrue, Begun
<1>8. CASE EndFailed \/ MergeDies
  <2>1. merge' = Idle /\ record' = record
    BY <1>8 DEF EndFailed, MergeDies
  <2> QED
    BY <1>7, <2>1 DEF RecordTrue
<1>9. CASE RecordMerge
  <2>1. merge' = Idle /\ record'.kept = merge.kept /\ record'.conflicts = Conflicts /\ merge.at = "record"
    BY <1>9 DEF RecordMerge
  <2> QED
    BY <1>7, <2>1 DEF CopiesKept, On
<1>10. CASE RecordResolved
  <2>1. merge' = Idle /\ record'.kept = record.kept /\ record'.conflicts = record.conflicts
    BY <1>10 DEF RecordResolved, MergeTypeOK, RecordType
  <2> QED
    BY <1>7, <2>1 DEF RecordTrue
<1>11. UserEdits \/ UNCHANGED mergeVars => merge' = merge /\ record' = record
  BY DEF UserEdits, mergeVars
<1> QED
  BY <1>1, <1>2, <1>3, <1>4, <1>5, <1>6, <1>8, <1>9, <1>10, <1>11 DEF MergeNext, Others, Merge

-----------------------------------------------------------------------------
(* What is kept beside. *)

LEMMA CopiesStep ==
  ASSUME MergeTypeOK, DoneTrue, ResultsTrue, CopiesKept, [MergeNext]_mergeVars
  PROVE  CopiesKept'
<1>1. theirs \subseteq theirs'
  BY DEF MergeNext, Others, UserEdits, Replan, RunUnit, Merge, StartMerge, ReadFile, KeepCopies, CheckFile, MoveFile,
     FailMerge, UndoFile, MoveBack, UndoDone, EndFailed, Applied, RecordMerge, Resolve, RecordResolved, MergeDies,
     mergeVars
<1>2. \A p : Beside(p) => Beside(p)'
  BY <1>1 DEF Beside
<1>3. \A p \in DOMAIN record'.kept : Beside(p)'
  <2>1. CASE record' = record
    BY <1>2, <2>1 DEF CopiesKept
  <2>2. CASE Replan
    BY <2>2 DEF Replan, NoRecord
  <2>3. CASE RunUnit \/ RecordResolved
    <3>1. record'.kept = record.kept
      <4>1. RunUnit => record'.kept = record.kept
        BY DEF RunUnit, MergeTypeOK, RecordType
      <4>2. RecordResolved => record'.kept = record.kept
        BY DEF RecordResolved, MergeTypeOK, RecordType
      <4> QED
        BY <2>3, <4>1, <4>2
    <3> QED
      BY <1>2, <3>1 DEF CopiesKept
  <2>4. CASE RecordMerge
    <3>1. On({"record"}) /\ record'.kept = merge.kept
      BY <2>4 DEF RecordMerge, On
    <3> QED
      BY <1>2, <3>1 DEF CopiesKept
  <2> QED
    BY <2>1, <2>2, <2>3, <2>4, RecordLeft DEF MergeNext, Others, Merge
<1>4. CASE ~Writing'
  BY <1>3, <1>4 DEF CopiesKept, Writing, On
<1>5. CASE merge' = merge
  <2>1. \A steps : On(steps)' = On(steps)
    BY <1>5 DEF On
  <2>2. Read' = Read /\ Conflicts' = Conflicts /\ Writing' = Writing
    BY <1>5, <2>1 DEF Read, Conflicts, Writing
  <2> QED
    BY <1>1, <1>2, <1>3, <1>5, <2>1, <2>2 DEF CopiesKept
<1>6. CASE KeepCopies
  <2>1. SamePlan /\ Read' = Read /\ merge'.at = "apply" /\ {p \in Read : merge.results[p].theirs} \subseteq theirs'
    BY <1>6, SameResults, CopiesFields DEF KeepCopies
  <2> QED
    BY <1>3, <2>1 DEF CopiesKept, On, SamePlan
<1>7. CASE CheckFile \/ MoveFile
  <2>1. SamePlan /\ Read' = Read /\ merge'.at # "record"
    BY <1>7, SameResults, CheckFields, MoveFields DEF ChecksOf
  <2>2. Writing
    BY <1>7 DEF CheckFile, MoveFile, Writing, On
  <2> QED
    BY <1>1, <1>3, <2>1, <2>2 DEF CopiesKept, On, SamePlan
<1>8. CASE Applied
  <2>1. /\ Begun /\ SamePlan /\ Read' = Read /\ Writing
        /\ merge'.kept = [p \in {q \in Conflicts : merge.results[q].content = None} |-> tree[p]]
    BY <1>8, SameResults, AppliedFields DEF Applied, Writing, On
  <2>2. Conflicts' = Conflicts
    BY <2>1 DEF Conflicts, SamePlan
  <2>3. ASSUME NEW p \in Conflicts, merge.results[p].content = None PROVE Beside(p)
    <3>1. p \in Read /\ p \in Path /\ merge.results[p].action = "conflict"
      BY <2>1, MergeFields DEF Conflicts
    <3>2. merge.results[p] \in MergeFile(p, merge.results[p].current) /\ merge.results[p].current \in Content
      BY <2>1, <3>1, MergeFields DEF ResultsTrue, ResultType
    <3>3. merge.results[p].theirs \/ ~CopyOwed(p)
      BY <2>3, <3>1, <3>2, MergeFileGives
    <3>4. merge.results[p].theirs => p \in theirs
      BY <2>1, <3>1 DEF CopiesKept
    <3> QED
      BY <3>3, <3>4 DEF Beside
  <2>4. DOMAIN merge'.kept \subseteq Conflicts' /\ \A p \in DOMAIN merge'.kept : Beside(p)'
    BY <1>2, <2>1, <2>2, <2>3
  <2>5. \A p \in Read' : merge'.results[p].theirs => p \in theirs'
    BY <1>1, <2>1 DEF CopiesKept, SamePlan
  <2> QED
    BY <1>3, <2>4, <2>5 DEF CopiesKept
<1>9. Writing' => Begun'
  BY DEF Writing, Begun, On
<1>10. StartMerge \/ ReadFile \/ FailMerge \/ UndoFile \/ MoveBack \/ UndoDone => ~Writing'
  BY StartFields, ReadFields, FailFields, UndoFields, BackFields, UndoneFields DEF Writing, On, ReadsOf
<1> QED
  BY <1>4, <1>5, <1>6, <1>7, <1>8, <1>9, <1>10, GoesOn

-----------------------------------------------------------------------------
(* What has become of each file. *)

\* While a merge goes on, the record says of none of the unit's files what has become of it.
LEMMA UndecidedYet ==
  ASSUME RecordTrue, Begun
  PROVE  record.status \in {"pending", "succeeded"}
<1>1. merge # Idle
  BY DEF Begun, On, Idle
<1> QED
  BY <1>1 DEF RecordTrue

LEMMA TakenWait ==
  ASSUME MergeTypeOK, RecordTrue, TakenIn, merge' = merge, UserEdits \/ UNCHANGED mergeVars
  PROVE  TakenIn'
<1>1. record' = record /\ in' = in /\ acted \subseteq acted'
  BY DEF UserEdits, mergeVars, history
<1>2. ASSUME NEW p \in Path, p \notin acted' PROVE tree'[p] = tree[p] /\ p \notin acted
  <2>1. CASE UserEdits
    <3>1. PICK q \in Path, c \in UserContent : tree' = [tree EXCEPT ![q] = c] /\ acted' = acted \cup {q}
      BY <2>1 DEF UserEdits
    <3> QED
      BY <1>2, <3>1 DEF MergeTypeOK
  <2>2. CASE UNCHANGED mergeVars
    BY <1>2, <2>2 DEF mergeVars, history
  <2> QED
    BY <2>1, <2>2
<1>3. /\ \A steps : On(steps)' = On(steps)
      /\ Done' = Done /\ Read' = Read /\ Conflicts' = Conflicts /\ OfPlan' = OfPlan /\ Writing' = Writing
  BY <1>1 DEF On, Done, Read, Conflicts, OfPlan, Writing
<1>4. /\ Begun => Done \subseteq Path /\ Conflicts \subseteq Path
      /\ record.conflicts \subseteq Path
  BY MergeFields DEF MergeTypeOK, RecordType, Conflicts
<1>5. Writing \/ On({"record"}) => Begun
  BY DEF Writing, Begun, On
<1>6. Writing' /\ OfPlan' => \A p \in Done' : tree'[p] = merge'.results[p].content \/ p \in acted'
  BY <1>2, <1>3, <1>4, <1>5 DEF TakenIn
<1>7. On({"record"})' /\ OfPlan' =>
        /\ Path \ Conflicts' \subseteq in'
        /\ \A p \in Conflicts' : p \in acted' \/ tree'[p] = IF p \in DOMAIN merge'.kept THEN merge'.kept[p] ELSE "marked"
  BY <1>1, <1>2, <1>3, <1>4, <1>5 DEF TakenIn
<1>8. record'.status = "conflicted" /\ ~record'.torn =>
        /\ Path \ record'.conflicts \subseteq in'
        /\ \A p \in record'.conflicts :
             p \in acted' \/ tree'[p] = IF p \in DOMAIN record'.kept THEN record'.kept[p] ELSE "marked"
        /\ On({"resolved"})' /\ OfPlan' => record'.conflicts \subseteq acted'
  BY <1>1, <1>2, <1>3, <1>4 DEF TakenIn
<1>9. record'.status = "merged" /\ ~record'.torn => Path \subseteq in' \cup acted'
  BY <1>1 DEF TakenIn
<1> QED
  BY <1>6, <1>7, <1>8, <1>9 DEF TakenIn

\* A file is moved over, or about to be.
LEMMA TakenMoves ==
  ASSUME MergeTypeOK, DoneTrue, RecordTrue, TakenIn, KeepCopies \/ CheckFile \/ MoveFile
  PROVE  TakenIn'
<1>1. Begun /\ SamePlan /\ record' = record /\ acted' = acted /\ merge'.plan = merge.plan
  BY SameResults, PlanKept DEF KeepCopies, CheckFile, MoveFile, history
<1>2. record'.status \in {"pending", "succeeded"}
  BY <1>1, UndecidedYet
<1>3. merge'.at # "record"
  BY CopiesFields, CheckFields, MoveFields DEF ChecksOf
<1>4. OfPlan' = OfPlan
  BY <1>1 DEF OfPlan
<1> SUFFICES ASSUME OfPlan, NEW q \in Done' PROVE tree'[q] = merge'.results[q].content \/ q \in acted'
  BY <1>2, <1>3, <1>4 DEF TakenIn, On
<1>5. CASE KeepCopies
  <2>1. merge'.done = <<>>
    BY <1>1, <1>5, CopiesFields DEF KeepCopies, DoneTrue, On, SameFiles
  <2> QED
    BY <2>1 DEF Done
<1>6. CASE CheckFile
  <2>1. Done' = Done /\ tree' = tree /\ Writing
    BY <1>6, CheckFields DEF CheckFile, SameFiles, Done, Writing, On
  <2> QED
    BY <1>1, <2>1 DEF TakenIn, SamePlan
<1>7. CASE MoveFile
  <2>0. PICK p : p = merge.next
    OBVIOUS
  <2> DEFINE entry == [path |-> p, previous |-> merge.results[p].current, written |-> merge.results[p].content]
  <2>1. p \in Path /\ merge'.done = Append(merge.done, entry) /\ tree' = [tree EXCEPT ![p] = merge.results[p].content]
    BY <1>7, <2>0, MoveFields
  <2>2. Writing /\ Done \subseteq Path /\ merge.done \in Seq(DoneType)
    BY <1>1, <1>7, MergeFields DEF MoveFile, Writing, On
  <2>3. entry.path = p
    OBVIOUS
  <2> HIDE DEF entry
  <2>4. q \in Done \cup {p}
    <3> DEFINE n == Len(merge.done)
    <3>1. /\ n \in Nat /\ DOMAIN merge.done = 1 .. n /\ DOMAIN merge'.done = 1 .. n + 1
          /\ \A i \in 1 .. n : merge'.done[i] = merge.done[i]
          /\ merge'.done[n + 1] = entry
      BY <2>1, <2>2
    <3> HIDE DEF n
    <3> QED
      BY <2>3, <3>1 DEF Done
  <2>5. CASE q = p
    BY <1>1, <2>1, <2>5 DEF MergeTypeOK, SamePlan
  <2>6. CASE q # p
    BY <1>1, <2>1, <2>2, <2>4, <2>6 DEF MergeTypeOK, SamePlan, TakenIn
  <2> QED
    BY <2>5, <2>6
<1> QED
  BY <1>5, <1>6, <1>7

\* Everything is written.
LEMMA TakenApplied ==
  ASSUME MergeTypeOK, DoneTrue, ResultsTrue, RecordTrue, TakenIn, Applied
  PROVE  TakenIn'
<1>1. Begun /\ SamePlan /\ record' = record /\ merge'.plan = merge.plan /\ acted' = acted /\ tree' = tree
  BY SameResults, PlanKept DEF Applied
<1>2. record'.status \in {"pending", "succeeded"}
  BY <1>1, UndecidedYet
<1>3. /\ merge'.at = "record" /\ SameFiles /\ in' = in \cup (Path \ Conflicts) /\ ToWrite = {} /\ Writing
      /\ merge'.kept = [p \in {q \in Conflicts : merge.results[q].content = None} |-> tree[p]]
  BY AppliedFields DEF Applied, Writing, On
<1>4. OfPlan' = OfPlan /\ Conflicts' = Conflicts /\ Done' = Done
  BY <1>1, <1>3 DEF OfPlan, Conflicts, Read, SamePlan, SameFiles, Done
<1>5. ASSUME OfPlan, NEW p \in Conflicts
      PROVE  p \in acted \/ tree[p] = IF p \in DOMAIN merge'.kept THEN merge'.kept[p] ELSE "marked"
  <2>1. p \in Read /\ p \in Path /\ merge.results[p].action = "conflict"
    BY <1>1, MergeFields DEF Conflicts
  <2>2. merge.results[p].content \in {None, "marked"}
    <3>1. merge.results[p] \in MergeFile(p, merge.results[p].current) /\ merge.results[p].current \in Content
      BY <1>1, <2>1, MergeFields DEF ResultsTrue, ResultType
    <3> QED
      BY <2>1, <3>1, MergeFileGives
  <2>3. CASE merge.results[p].content = None
    BY <1>3, <2>3
  <2>4. CASE merge.results[p].content # None
    <3>1. p \in Done
      BY <1>3, <2>1, <2>4 DEF ToWrite, Writes
    <3>2. tree[p] = "marked" \/ p \in acted
      BY <1>3, <1>5, <2>2, <2>4, <3>1 DEF TakenIn
    <3>3. p \notin DOMAIN merge'.kept
      BY <1>3, <2>4
    <3> QED
      BY <3>2, <3>3
  <2> QED
    BY <2>3, <2>4
<1>6. \A p \in Done : OfPlan => tree[p] = merge.results[p].content \/ p \in acted
  BY <1>3 DEF TakenIn
<1> QED
  BY <1>1, <1>2, <1>3, <1>4, <1>5, <1>6 DEF TakenIn, SamePlan

\* The record is written, or what conflicts it has are resolved.
LEMMA TakenRecorded ==
  ASSUME MergeTypeOK, RecordTrue, CopiesKept, TakenIn, RecordMerge \/ Resolve \/ RecordResolved
  PROVE  TakenIn'
<1>1. CASE RecordMerge
  <2>1. /\ merge.at = "record" /\ merge' = Idle /\ UNCHANGED <<tree, in, acted>>
        /\ record' = [plan |-> record.plan, torn |-> merge.plan # record.plan, conflicts |-> Conflicts,
                      status |-> IF Conflicts = {} THEN "merged" ELSE "conflicted", kept |-> merge.kept]
    BY <1>1 DEF RecordMerge, history
  <2>2. ~Writing' /\ ~On({"record"})' /\ ~On({"resolved"})'
    BY <2>1, IdleIsNotOn DEF Writing
  <2>3. ~record'.torn => OfPlan
    BY <2>1 DEF OfPlan
  <2>4. /\ record'.conflicts = Conflicts /\ record'.kept = merge.kept
        /\ record'.status = IF Conflicts = {} THEN "merged" ELSE "conflicted"
    BY <2>1
  <2>5. ~record'.torn =>
          /\ Path \ Conflicts \subseteq in
          /\ \A p \in Conflicts : p \in acted \/ tree[p] = IF p \in DOMAIN merge.kept THEN merge.kept[p] ELSE "marked"
    BY <2>1, <2>3 DEF TakenIn, On
  <2> QED
    BY <2>1, <2>2, <2>4, <2>5 DEF TakenIn
<1>2. CASE Resolve
  <2>1. PICK keep \in SUBSET record.conflicts :
          MarkersLeft = {} /\ TouchedOrKept(keep) /\ acted' = acted \cup keep
    BY <1>2 DEF Resolve
  <2>2. record' = record /\ record.status = "conflicted" /\ merge'.at = "resolved" /\ UNCHANGED <<tree, in>>
    BY <1>2 DEF Resolve
  <2>3. ~Writing' /\ ~On({"record"})'
    BY <2>2 DEF Writing, On
  <2>4. ASSUME ~record.torn, NEW p \in record.conflicts PROVE p \in acted'
    <3>1. p \in acted \/ tree[p] = IF p \in DOMAIN record.kept THEN record.kept[p] ELSE "marked"
      BY <2>2, <2>4 DEF TakenIn
    <3>2. tree[p] # "marked"
      BY <2>1 DEF MarkersLeft
    <3>3. p \in DOMAIN record.kept /\ tree[p] = record.kept[p] => p \in keep
      BY <2>1 DEF TouchedOrKept
    <3> QED
      BY <2>1, <3>1, <3>2, <3>3
  <2>5. ~record.torn => Path \ record.conflicts \subseteq in
    BY <2>2 DEF TakenIn
  <2> QED
    BY <2>2, <2>3, <2>4, <2>5 DEF TakenIn
<1>3. CASE RecordResolved
  <2>1. /\ On({"resolved"}) /\ merge # Idle /\ merge' = Idle /\ UNCHANGED <<tree, in, acted>>
        /\ record' = [record EXCEPT !.status = "merged", !.torn = @ \/ merge.plan # record.plan]
    BY <1>3 DEF RecordResolved, On, Idle, history
  <2>2. ~Writing' /\ ~On({"record"})' /\ ~On({"resolved"})'
    BY <2>1, IdleIsNotOn DEF Writing
  <2> DEFINE torn == record.torn \/ merge.plan # record.plan
  <2>3. record'.status = "merged" /\ record'.torn = torn
    <3>1. record' = [record EXCEPT !.status = "merged", !.torn = torn]
      BY <2>1
    <3> HIDE DEF torn
    <3> QED
      BY <3>1 DEF MergeTypeOK, RecordType
  <2>4. ~record'.torn => ~record.torn /\ OfPlan
    BY <2>3 DEF OfPlan
  <2>5. ~record'.torn => Path \subseteq in \cup acted
    <3>1. OfPlan => record.status = "conflicted"
      BY <2>1 DEF RecordTrue
    <3>2. ~record'.torn => Path \ record.conflicts \subseteq in /\ record.conflicts \subseteq acted
      BY <2>1, <2>4, <3>1 DEF TakenIn
    <3> QED
      BY <3>2
  <2> QED
    BY <2>1, <2>2, <2>3, <2>5 DEF TakenIn
<1> QED
  BY <1>1, <1>2, <1>3

LEMMA TakenStep ==
  ASSUME MergeTypeOK, DoneTrue, ResultsTrue, RecordTrue, CopiesKept, TakenIn, [MergeNext]_mergeVars
  PROVE  TakenIn'
<1>1. CASE ~Writing' /\ ~On({"record"})' /\ record'.status \in {"pending", "succeeded"}
  BY <1>1 DEF TakenIn
<1>2. CASE UserEdits \/ UNCHANGED mergeVars
  BY <1>2, TakenWait DEF UserEdits, mergeVars
<1>3. CASE Replan
  <2>1. merge' = merge /\ record'.plan = record.plan + 1 /\ record'.status = "pending"
    BY <1>3 DEF Replan, NoRecord
  <2>2. record.plan \in Int /\ (Begun => merge.plan \in Int)
    BY MergeFields DEF MergeTypeOK, RecordType
  <2>3. Writing' \/ On({"record"})' => Begun /\ merge # Idle
    BY <2>1 DEF Writing, On, Begun, Idle
  <2>4. Writing' \/ On({"record"})' => ~OfPlan'
    BY <2>1, <2>2, <2>3 DEF RecordTrue, OfPlan
  <2> QED
    BY <2>1, <2>4 DEF TakenIn
<1>4. CASE RunUnit
  <2>1. merge' = merge /\ record.status = "pending" /\ record' = [record EXCEPT !.status = "succeeded"]
    BY <1>4 DEF RunUnit
  <2>2. record'.plan = record.plan /\ record'.status = "succeeded"
    BY <2>1 DEF MergeTypeOK, RecordType
  <2>3. Writing' \/ On({"record"})' => Begun
    BY <2>1 DEF Writing, On, Begun
  <2>4. Begun => ~OfPlan
    BY <2>1 DEF RecordTrue
  <2>5. OfPlan' = OfPlan
    BY <2>1, <2>2 DEF OfPlan
  <2> QED
    BY <2>2, <2>3, <2>4, <2>5 DEF TakenIn
<1>5. CASE StartMerge
  <2>1. merge'.at = "read" /\ record'.status = "succeeded"
    BY <1>5, StartFields, RecordLeft DEF StartMerge
  <2> QED
    BY <1>1, <2>1 DEF Writing, On
<1>6. CASE ReadFile \/ FailMerge \/ UndoFile \/ MoveBack \/ UndoDone
  <2>1. Begun /\ record' = record
    BY <1>6, PlanKept
  <2>2. ~Writing' /\ ~On({"record"})'
    BY <1>6, ReadFields, FailFields, UndoFields, BackFields, UndoneFields DEF Writing, On, ReadsOf
  <2> QED
    BY <1>1, <2>1, <2>2, UndecidedYet
<1>7. CASE EndFailed \/ MergeDies
  <2>1. merge' = Idle /\ UNCHANGED <<tree, record, in, acted>>
    BY <1>7 DEF EndFailed, MergeDies, history
  <2>2. ~Writing' /\ ~On({"record"})' /\ ~On({"resolved"})'
    BY <2>1, IdleIsNotOn DEF Writing
  <2> QED
    BY <2>1, <2>2 DEF TakenIn
<1> QED
  BY <1>2, <1>3, <1>4, <1>5, <1>6, <1>7, TakenMoves, TakenApplied, TakenRecorded DEF MergeNext, Others, Merge

-----------------------------------------------------------------------------
(* The invariant, and what follows. *)

LEMMA MergeInitInv == MergeInit => MergeInv
<1> SUFFICES ASSUME MergeInit PROVE MergeInv
  OBVIOUS
<1>1. /\ merge = Idle /\ record.plan = 1 /\ record.status = "succeeded" /\ record.conflicts = {}
      /\ DOMAIN record.kept = {}
  BY DEF MergeInit, NoRecord
<1>2. \A steps : "idle" \notin steps => ~On(steps)
  BY <1>1 DEF On, Idle
<1>3. ~Begun /\ ~Planned /\ ~Writing /\ ~Undoing
  BY <1>2 DEF Begun, Planned, Writing, Undoing
<1>4. MergeTypeOK
  <2> DEFINE nothing == [p \in {} |-> None]
  <2>1. nothing \in [{} -> Content]
    OBVIOUS
  <2>2. record = [plan |-> 1, status |-> "succeeded", conflicts |-> {}, kept |-> nothing, torn |-> FALSE]
    BY DEF MergeInit, NoRecord
  <2>5. 1 \in 1 .. MaxPlans + 1
    BY MergeConstantsOK
  <2> HIDE DEF nothing
  <2>3. record \in RecordType({})
    BY <2>1, <2>2, <2>5 DEF RecordType
  <2>4. tree \in [Path -> Content]
    BY DEF MergeInit, Content, UserContent
  <2> QED
    BY <2>3, <2>4, MergeConstantsOK DEF MergeInit, MergeTypeOK
<1> QED
  BY <1>1, <1>2, <1>3, <1>4 DEF MergeInv, ResultsTrue, DoneTrue, FilesTrue, RecordTrue, CopiesKept, TakenIn

LEMMA MergeStepInv == MergeInv /\ [MergeNext]_mergeVars => MergeInv'
  BY MergeTypesStep, ResultsStep, DoneStep, FilesStep, RecordStep, CopiesStep, TakenStep DEF MergeInv

LEMMA MergeInvariant == MergeSpec => []MergeInv
<1> QED
  BY MergeInitInv, MergeStepInv, PTL DEF MergeSpec

\* The tree, the record and the merge hold what they may.
THEOREM MergeTypeCorrect == MergeSpec => []MergeTypeOK
<1>1. MergeInv => MergeTypeOK
  BY DEF MergeInv
<1> QED
  BY <1>1, MergeInvariant, PTL

\* A merge that failed has left every file as it read it, or as the user made it since, or has named
\* it as not put back (units_merge.apply, _undo).
THEOREM FailedMergeIsUndone == MergeSpec => []FailsWhole
<1>1. MergeInv => FailsWhole
  BY DEF MergeInv, FilesTrue, On, AsLeft, FailsWhole
<1> QED
  BY <1>1, MergeInvariant, PTL

\* Of a unit recorded as merged, each file has taken in what the unit made of it, or the user edited
\* or kept it since; of one with conflicts, each has its markers or what there is to keep beside it.
THEOREM NothingIsDropped == MergeSpec => []UnitNotDropped
<1>1. MergeInv => UnitNotDropped
  BY DEF MergeInv, TakenIn, CopiesKept, Beside, UnitNotDropped
<1> QED
  BY <1>1, MergeInvariant, PTL
=============================================================================
