----------------------------- MODULE UnitsProofs -----------------------------
(***************************************************************************)
(* Proofs about Units, for every set of units, runs, helpers and plans and *)
(* every cap.  Types, and the two invariants a claim's checks are there    *)
(* for, hold under every fault; that a record tells the truth about its    *)
(* run, and all that follows from it, is proved under the faults that      *)
(* leave no window open (Orderly).                                         *)
(***************************************************************************)
EXTENDS Units, FiniteSetTheorems, TLAPS

-----------------------------------------------------------------------------
(* What the operators of Units return. *)
LEMMA BlankType == Blank \in Record
BY ConstantsOK DEF Blank, Record, Status

\* The types of the small values the actions write.
LEMMA NoFieldsType == NoFields \in Fields
BY DEF NoFields, Fields

\* A process that has no unit yet is given one all the same.
LEMMA AnyUnitType == AnyUnit \in Unit
BY ConstantsOK DEF AnyUnit

\* units.update leaves a record a record.
LEMMA UpdateType ==
  ASSUME NEW record \in Record, NEW f \in Fields, NEW old \in Record
  PROVE Update(record, f, old) \in Record
BY DEF Update, Record, Fields, Status

\* A record pointed to another run, job or worktree is a record.
LEMMA FieldType ==
  ASSUME NEW record \in Record, NEW r \in Run \cup {None}
  PROVE [record EXCEPT !.wt = r] \in Record /\ [record EXCEPT !.job = r] \in Record
BY DEF Record

\* A record given another status is a record.
LEMMA StatusType ==
  ASSUME NEW record \in Record, NEW s \in Status
  PROVE [record EXCEPT !.status = s] \in Record
BY DEF Record

\* The record a claim writes (units_run.claim).
LEMMA ClaimedType ==
  ASSUME NEW inPlace \in BOOLEAN, NEW r \in Run
  PROVE [Blank EXCEPT !.status = "running", !.inPlace = inPlace, !.pid = r] \in Record
BY DEF Blank, Record, Status

\* The running units, read to be reconciled.
LEMMA ReadRunningType ==
  ASSUME FileTypes, ActorTypes, NEW a \in Actor, ReadRunning(a)
  PROVE todo' \in [Actor -> SUBSET Suspect]
<1>1. \A u \in Unit : rec[u].job \in Run \cup {None} /\ rec[u].pid \in Run \cup {None}
  BY DEF FileTypes, Record
<1>2. Running(rec) \subseteq Unit
  BY DEF Running
<1>3. \A u \in Running(rec) :
        [unit |-> u, job |-> rec[u].job, pid |-> rec[u].pid, gone |-> FALSE] \in Suspect
  BY <1>1, <1>2 DEF Suspect
<1> QED
  BY <1>3 DEF ReadRunning, ActorTypes

\* Looking at one suspect's job file.
LEMMA CheckGoneType ==
  ASSUME ActorTypes, NEW a \in Actor, CheckGone(a)
  PROVE todo' \in [Actor -> SUBSET Suspect]
<1>1. PICK t \in todo[a] : todo' = [todo EXCEPT ![a] = (@ \ {t}) \cup
        (IF StillGoing(t.job, t.pid) THEN {} ELSE {[t EXCEPT !.gone = TRUE]})]
  BY DEF CheckGone
<1>2. todo[a] \in SUBSET Suspect /\ t \in Suspect
  BY DEF ActorTypes
<1>3. [t EXCEPT !.gone = TRUE] \in Suspect
  BY <1>2 DEF Suspect
<1> QED
  BY <1>1, <1>2, <1>3 DEF ActorTypes

\* Failing a run that was found gone.
LEMMA FailGoneType ==
  ASSUME FileTypes, ActorTypes, NEW a \in Actor, FailGone(a)
  PROVE rec' \in [Unit -> Record] /\ todo' \in [Actor -> SUBSET Suspect]
<1>1. PICK t \in todo[a] :
        /\ todo' = [todo EXCEPT ![a] = @ \ {t}]
        /\ \/ rec' = [rec EXCEPT ![t.unit].status = "failed"]
           \/ rec' = rec
  BY DEF FailGone
<1>2. t.unit \in Unit /\ rec[t.unit] \in Record
  BY DEF FileTypes, ActorTypes, Suspect
<1>2a. [rec[t.unit] EXCEPT !.status = "failed"] \in Record
  BY <1>2, StatusType DEF Status
<1>3. rec' \in [Unit -> Record]
  BY <1>1, <1>2, <1>2a DEF FileTypes
<1>4. todo' \in [Actor -> SUBSET Suspect]
  BY <1>1 DEF ActorTypes
<1> QED
  BY <1>3, <1>4

\* An update that strays, or does not.
LEMMA StraysType ==
  ASSUME strayed \in BOOLEAN, NEW u, NEW r, Strays(u, r)
  PROVE strayed' \in BOOLEAN
BY DEF Strays

-----------------------------------------------------------------------------
(* Type correctness, one step per action and one substep per group of variables it changes. *)

\* Every action keeps the types.
LEMMA TypeInductive == TypeOK /\ [Next]_vars => TypeOK'
<1> SUFFICES ASSUME TypeOK, [Next]_vars PROVE TypeOK'
  OBVIOUS
<1> USE DEF fileVars, worldVars, jobVars, runVars, actorVars, helperVars, helperOwn, Actor, At, Goto, HGoto,
    HelperKeeps, Others, RunState
<1>a. FileTypes /\ WorldTypes /\ JobTypes /\ RunTypes /\ ActorTypes /\ HelperTypes /\ ThreadTypes
  BY DEF TypeOK
<1>1. ASSUME NEW r \in Run, RunReadsRunning(r) PROVE TypeOK'
  <2>1. ActorTypes'
    BY <1>1, <1>a, ReadRunningType DEF RunReadsRunning, ActorTypes
  <2>2. ThreadTypes'
    BY <1>1, <1>a DEF RunReadsRunning, ThreadTypes, Label, TailLabel
  <2>3. FileTypes' /\ WorldTypes' /\ JobTypes' /\ RunTypes' /\ HelperTypes'
    BY <1>1, <1>a DEF RunReadsRunning, FileTypes, WorldTypes, JobTypes, RunTypes, HelperTypes
  <2> QED
    BY <2>1, <2>2, <2>3 DEF TypeOK
<1>2. ASSUME NEW r \in Run, RunChecksGone(r) PROVE TypeOK'
  <2>1. JobTypes'
    BY <1>2, <1>a DEF RunChecksGone, JobTypes, CheckGone, Reconciled, JobStatus, Finished
  <2>2. ActorTypes'
    BY <1>2, <1>a, CheckGoneType DEF RunChecksGone, ActorTypes
  <2>3. FileTypes' /\ WorldTypes' /\ RunTypes' /\ HelperTypes' /\ ThreadTypes'
    BY <1>2, <1>a DEF RunChecksGone, FileTypes, WorldTypes, RunTypes, HelperTypes, ThreadTypes
  <2> QED
    BY <2>1, <2>2, <2>3 DEF TypeOK
<1>3. ASSUME NEW r \in Run, RunFailsGone(r) PROVE TypeOK'
  <2>1. FileTypes'
    BY <1>3, <1>a, FailGoneType DEF RunFailsGone, FileTypes
  <2>2. ActorTypes'
    BY <1>3, <1>a, FailGoneType DEF RunFailsGone, ActorTypes
  <2>3. WorldTypes' /\ JobTypes' /\ RunTypes' /\ HelperTypes' /\ ThreadTypes'
    BY <1>3, <1>a DEF RunFailsGone, WorldTypes, JobTypes, RunTypes, HelperTypes, ThreadTypes
  <2> QED
    BY <2>1, <2>2, <2>3 DEF TypeOK
<1>4. ASSUME NEW r \in Run, Claim(r) PROVE TypeOK'
  <2>1. FileTypes'
    <3>1. RunsInPlace(at[r], EntriesFor(at[r]), unit[r]) \in BOOLEAN
      BY DEF RunsInPlace
    <3>2. EntriesFor(at[r]) \in [Unit -> Record] /\ unit[r] \in Unit /\ at[r] \in Plan \cup {None}
      BY <1>a, BlankType DEF EntriesFor, FileTypes, RunTypes
    <3>3. [Blank EXCEPT !.status = "running", !.inPlace = RunsInPlace(at[r], EntriesFor(at[r]),
        unit[r]),
                        !.pid = r] \in Record
      BY <3>1, ClaimedType
    <3>4. CASE MayClaim(at[r], unit[r])
      BY <1>4, <1>a, <3>2, <3>3, <3>4 DEF Claim, FileTypes
    <3>5. CASE ~MayClaim(at[r], unit[r])
      BY <1>4, <1>a, <3>5 DEF Claim, FileTypes
    <3> QED
      BY <3>4, <3>5
  <2>2. RunTypes'
    BY <1>4, <1>a, BlankType DEF Claim, RunTypes, EntriesFor, FileTypes
  <2>3. ThreadTypes'
    BY <1>4, <1>a DEF Claim, ThreadTypes, Label, TailLabel
  <2>4. WorldTypes' /\ JobTypes' /\ ActorTypes' /\ HelperTypes'
    BY <1>4, <1>a DEF Claim, WorldTypes, JobTypes, ActorTypes, HelperTypes
  <2> QED
    BY <2>1, <2>2, <2>3, <2>4 DEF TypeOK
<1>5. ASSUME NEW r \in Run, MakeWorktree(r) PROVE TypeOK'
  <2>1. WorldTypes'
    BY <1>5, <1>a DEF MakeWorktree, WorldTypes
  <2>2. ThreadTypes'
    BY <1>5, <1>a DEF MakeWorktree, ThreadTypes, Label, TailLabel
  <2>3. FileTypes' /\ JobTypes' /\ RunTypes' /\ ActorTypes' /\ HelperTypes'
    BY <1>5, <1>a DEF MakeWorktree, FileTypes, JobTypes, RunTypes, ActorTypes, HelperTypes
  <2> QED
    BY <2>1, <2>2, <2>3 DEF TypeOK
<1>6. ASSUME NEW r \in Run, Describe(r) PROVE TypeOK'
  <2>1. FileTypes'
    BY <1>6, <1>a, FieldType DEF Describe, FileTypes, RunTypes
  <2>2. RunTypes'
    BY <1>6, <1>a, BlankType DEF Describe, RunTypes
  <2>3. ThreadTypes'
    BY <1>6, <1>a DEF Describe, ThreadTypes, Label, TailLabel
  <2>4. WorldTypes' /\ JobTypes' /\ ActorTypes' /\ HelperTypes'
    BY <1>6, <1>a DEF Describe, WorldTypes, JobTypes, ActorTypes, HelperTypes
  <2> QED
    BY <2>1, <2>2, <2>3, <2>4 DEF TypeOK
<1>7. ASSUME NEW r \in Run, Release(r) PROVE TypeOK'
  <2>1. WorldTypes'
    BY <1>7, <1>a DEF Release, WorldTypes
  <2>2. ThreadTypes'
    BY <1>7, <1>a DEF Release, ThreadTypes, Label, TailLabel
  <2>3. FileTypes' /\ JobTypes' /\ RunTypes' /\ ActorTypes' /\ HelperTypes'
    BY <1>7, <1>a DEF Release, FileTypes, JobTypes, RunTypes, ActorTypes, HelperTypes
  <2> QED
    BY <2>1, <2>2, <2>3 DEF TypeOK
<1>8. ASSUME NEW r \in Run, Restore(r) PROVE TypeOK'
  <2>1. FileTypes'
    BY <1>8, <1>a DEF Restore, FileTypes, RunTypes
  <2>2. RunTypes'
    BY <1>8, <1>a, BlankType DEF Restore, RunTypes
  <2>3. ThreadTypes'
    BY <1>8, <1>a DEF Restore, ThreadTypes, Label, TailLabel
  <2>4. WorldTypes' /\ JobTypes' /\ ActorTypes' /\ HelperTypes'
    BY <1>8, <1>a DEF Restore, WorldTypes, JobTypes, ActorTypes, HelperTypes
  <2> QED
    BY <2>1, <2>2, <2>3, <2>4 DEF TypeOK
<1>9. ASSUME NEW r \in Run, WriteJob(r) PROVE TypeOK'
  <2>1. JobTypes'
    BY <1>9, <1>a DEF WriteJob, JobTypes, JobStatus, Finished
  <2>2. ThreadTypes'
    BY <1>9, <1>a DEF WriteJob, ThreadTypes, Label, TailLabel
  <2>3. FileTypes' /\ WorldTypes' /\ RunTypes' /\ ActorTypes' /\ HelperTypes'
    BY <1>9, <1>a DEF WriteJob, FileTypes, WorldTypes, RunTypes, ActorTypes, HelperTypes
  <2> QED
    BY <2>1, <2>2, <2>3 DEF TypeOK
<1>10. ASSUME NEW r \in Run, Popen(r) PROVE TypeOK'
  <2>1. JobTypes'
    BY <1>10, <1>a DEF Popen, JobTypes, JobStatus, Finished
  <2>2. ThreadTypes'
    BY <1>10, <1>a DEF Popen, ThreadTypes, Label, TailLabel
  <2>3. FileTypes' /\ WorldTypes' /\ RunTypes' /\ ActorTypes' /\ HelperTypes'
    BY <1>10, <1>a DEF Popen, FileTypes, WorldTypes, RunTypes, ActorTypes, HelperTypes
  <2> QED
    BY <2>1, <2>2, <2>3 DEF TypeOK
<1>11. ASSUME NEW r \in Run, Gate(r) PROVE TypeOK'
  <2>1. JobTypes'
    BY <1>11, <1>a DEF Gate, JobTypes, JobStatus, Finished
  <2>2. ThreadTypes'
    BY <1>11, <1>a DEF Gate, ThreadTypes, Label, TailLabel
  <2>3. FileTypes' /\ WorldTypes' /\ RunTypes' /\ ActorTypes' /\ HelperTypes'
    BY <1>11, <1>a DEF Gate, FileTypes, WorldTypes, RunTypes, ActorTypes, HelperTypes
  <2> QED
    BY <2>1, <2>2, <2>3 DEF TypeOK
<1>12. ASSUME NEW r \in Run, WorkerUnit(r) PROVE TypeOK'
  <2>1. JobTypes'
    BY <1>12, <1>a DEF WorkerUnit, JobTypes, JobStatus, Finished
  <2>2. RunTypes'
    BY <1>12, <1>a DEF WorkerUnit, RunTypes, WorldTypes
  <2>3. ThreadTypes'
    BY <1>12, <1>a DEF WorkerUnit, ThreadTypes, Label, TailLabel
  <2>4. FileTypes' /\ WorldTypes' /\ ActorTypes' /\ HelperTypes'
    BY <1>12, <1>a DEF WorkerUnit, FileTypes, WorldTypes, ActorTypes, HelperTypes
  <2> QED
    BY <2>1, <2>2, <2>3, <2>4 DEF TypeOK
<1>13. ASSUME NEW r \in Run, OwnJob(r) PROVE TypeOK'
  <2>1. JobTypes'
    BY <1>13, <1>a DEF OwnJob, JobTypes, JobStatus, Finished
  <2>2. ThreadTypes'
    BY <1>13, <1>a DEF OwnJob, ThreadTypes, Label, TailLabel
  <2>3. FileTypes' /\ WorldTypes' /\ RunTypes' /\ ActorTypes' /\ HelperTypes'
    BY <1>13, <1>a DEF OwnJob, FileTypes, WorldTypes, RunTypes, ActorTypes, HelperTypes
  <2> QED
    BY <2>1, <2>2, <2>3 DEF TypeOK
<1>14. ASSUME NEW r \in Run, AgentEnds(r) PROVE TypeOK'
  <2>1. WorldTypes'
    BY <1>14, <1>a DEF AgentEnds, WorldTypes
  <2>2. RunTypes'
    BY <1>14, <1>a DEF AgentEnds, RunTypes
  <2>3. ThreadTypes'
    BY <1>14, <1>a DEF AgentEnds, ThreadTypes, Label, TailLabel
  <2>4. JobTypes'
    BY <1>14, <1>a DEF AgentEnds, JobTypes, JobStatus, Finished
  <2>5. FileTypes' /\ ActorTypes' /\ HelperTypes'
    BY <1>14, <1>a DEF AgentEnds, FileTypes, ActorTypes, HelperTypes
  <2> QED
    BY <2>1, <2>2, <2>3, <2>4, <2>5 DEF TypeOK
<1>15. ASSUME NEW r \in Run, ReadToClose(r) PROVE TypeOK'
  <2>1. ActorTypes'
    BY <1>15, <1>a DEF ReadToClose, ActorTypes, FileTypes, RunTypes
  <2>2. ThreadTypes'
    BY <1>15, <1>a DEF ReadToClose, ThreadTypes, Label, TailLabel
  <2>3. FileTypes' /\ WorldTypes' /\ JobTypes' /\ RunTypes' /\ HelperTypes'
    BY <1>15, <1>a, StraysType DEF ReadToClose, helperOwn, FileTypes, WorldTypes, JobTypes, RunTypes, HelperTypes
  <2> QED
    BY <2>1, <2>2, <2>3 DEF TypeOK
<1>16. ASSUME NEW r \in Run, CloseTree(r) PROVE TypeOK'
  <2>1. WorldTypes'
    BY <1>16, <1>a DEF CloseTree, WorldTypes
  <2>2. ActorTypes'
    BY <1>16, <1>a DEF CloseTree, ActorTypes, Fields, Status
  <2>3. ThreadTypes'
    BY <1>16, <1>a DEF CloseTree, ThreadTypes, Label, TailLabel
  <2>4. FileTypes' /\ JobTypes' /\ RunTypes' /\ HelperTypes'
    BY <1>16, <1>a DEF CloseTree, FileTypes, JobTypes, RunTypes, HelperTypes
  <2> QED
    BY <2>1, <2>2, <2>3, <2>4 DEF TypeOK
<1>17. ASSUME NEW r \in Run, RecordEnd(r) PROVE TypeOK'
  <2>1. FileTypes'
    BY <1>17, <1>a, UpdateType DEF RecordEnd, FileTypes, RunTypes, ActorTypes
  <2>2. ActorTypes'
    BY <1>17, <1>a, BlankType, NoFieldsType DEF RecordEnd, ActorTypes
  <2>3. ThreadTypes'
    BY <1>17, <1>a DEF RecordEnd, ThreadTypes, Label, TailLabel
  <2>4. WorldTypes' /\ JobTypes' /\ RunTypes' /\ HelperTypes'
    BY <1>17, <1>a, StraysType DEF RecordEnd, helperOwn, WorldTypes, JobTypes, RunTypes, HelperTypes
  <2> QED
    BY <2>1, <2>2, <2>3, <2>4 DEF TypeOK
<1>18. ASSUME NEW r \in Run, Outcome(r) PROVE TypeOK'
  <2>1. JobTypes'
    BY <1>18, <1>a DEF Outcome, JobTypes, JobStatus, Finished
  <2>2. RunTypes'
    BY <1>18, <1>a DEF Outcome, RunTypes
  <2>3. ThreadTypes'
    BY <1>18, <1>a DEF Outcome, ThreadTypes, Label, TailLabel
  <2>4. FileTypes' /\ WorldTypes' /\ ActorTypes' /\ HelperTypes'
    BY <1>18, <1>a DEF Outcome, FileTypes, WorldTypes, ActorTypes, HelperTypes
  <2> QED
    BY <2>1, <2>2, <2>3, <2>4 DEF TypeOK
<1>19. ASSUME NEW r \in Run, Start(r) PROVE TypeOK'
  <2>1. RunTypes'
    BY <1>19, <1>a DEF Start, RunTypes, WorldTypes
  <2>2. ThreadTypes'
    BY <1>19, <1>a DEF Start, ThreadTypes, Label, TailLabel
  <2>3. FileTypes' /\ WorldTypes' /\ JobTypes' /\ ActorTypes' /\ HelperTypes'
    BY <1>19, <1>a DEF Start, FileTypes, WorldTypes, JobTypes, ActorTypes, HelperTypes
  <2> QED
    BY <2>1, <2>2, <2>3 DEF TypeOK
<1>20. ASSUME NEW r \in Run, RecordPid(r) PROVE TypeOK'
  <2>1. JobTypes'
    BY <1>20, <1>a DEF RecordPid, JobTypes, JobStatus, Finished
  <2>2. ThreadTypes'
    BY <1>20, <1>a DEF RecordPid, ThreadTypes, Label, TailLabel
  <2>3. FileTypes' /\ WorldTypes' /\ RunTypes' /\ ActorTypes' /\ HelperTypes'
    BY <1>20, <1>a DEF RecordPid, FileTypes, WorldTypes, RunTypes, ActorTypes, HelperTypes
  <2> QED
    BY <2>1, <2>2, <2>3 DEF TypeOK
<1>21. ASSUME NEW r \in Run, RecordJob(r) PROVE TypeOK'
  <2>1. FileTypes'
    BY <1>21, <1>a, FieldType DEF RecordJob, FileTypes, RunTypes
  <2>2. ThreadTypes'
    BY <1>21, <1>a DEF RecordJob, ThreadTypes, Label, TailLabel
  <2>3. WorldTypes' /\ JobTypes' /\ RunTypes' /\ ActorTypes' /\ HelperTypes'
    BY <1>21, <1>a, StraysType DEF RecordJob, helperOwn, WorldTypes, JobTypes, RunTypes, ActorTypes, HelperTypes
  <2> QED
    BY <2>1, <2>2, <2>3 DEF TypeOK
<1>22. ASSUME NEW r \in Run, Kill(r) PROVE TypeOK'
  <2>1. WorldTypes'
    BY <1>22, <1>a, ConstantsOK DEF Kill, WorldTypes
  <2>2. RunTypes'
    BY <1>22, <1>a, BlankType, NoFieldsType DEF Kill, RunTypes, Dies
  <2>3. ActorTypes'
    BY <1>22, <1>a, BlankType, NoFieldsType DEF Kill, ActorTypes, Dies
  <2>4. ThreadTypes'
    BY <1>22, <1>a, BlankType, NoFieldsType DEF Kill, ThreadTypes, Dies, Label, TailLabel
  <2>5. FileTypes' /\ JobTypes' /\ HelperTypes'
    BY <1>22, <1>a DEF Kill, FileTypes, JobTypes, HelperTypes
  <2> QED
    BY <2>1, <2>2, <2>3, <2>4, <2>5 DEF TypeOK
<1>23. ASSUME NEW r \in Run, KillTail(r) PROVE TypeOK'
  <2>1. WorldTypes'
    BY <1>23, <1>a, ConstantsOK DEF KillTail, WorldTypes
  <2>2. ThreadTypes'
    BY <1>23, <1>a DEF KillTail, ThreadTypes, Label, TailLabel
  <2>3. FileTypes' /\ JobTypes' /\ RunTypes' /\ ActorTypes' /\ HelperTypes'
    BY <1>23, <1>a DEF KillTail, FileTypes, JobTypes, RunTypes, ActorTypes, HelperTypes
  <2> QED
    BY <2>1, <2>2, <2>3 DEF TypeOK
<1>24. ASSUME NEW h \in Helper, Status_Read(h) PROVE TypeOK'
  <2>1. ActorTypes'
    BY <1>24, <1>a, ReadRunningType DEF Status_Read, ActorTypes
  <2>2. HelperTypes'
    BY <1>24, <1>a DEF Status_Read, HelperTypes, HelperLabel
  <2>3. FileTypes' /\ WorldTypes' /\ JobTypes' /\ RunTypes' /\ ThreadTypes'
    BY <1>24, <1>a DEF Status_Read, FileTypes, WorldTypes, JobTypes, RunTypes, ThreadTypes
  <2> QED
    BY <2>1, <2>2, <2>3 DEF TypeOK
<1>25. ASSUME NEW h \in Helper, Status_Check(h) PROVE TypeOK'
  <2>1. JobTypes'
    BY <1>25, <1>a DEF Status_Check, JobTypes, CheckGone, Reconciled, JobStatus, Finished
  <2>2. ActorTypes'
    BY <1>25, <1>a, CheckGoneType DEF Status_Check, ActorTypes
  <2>3. FileTypes' /\ WorldTypes' /\ RunTypes' /\ HelperTypes' /\ ThreadTypes'
    BY <1>25, <1>a DEF Status_Check, FileTypes, WorldTypes, RunTypes, HelperTypes, ThreadTypes
  <2> QED
    BY <2>1, <2>2, <2>3 DEF TypeOK
<1>26. ASSUME NEW h \in Helper, Status_Fail(h) PROVE TypeOK'
  <2>1. FileTypes'
    BY <1>26, <1>a, FailGoneType DEF Status_Fail, FileTypes
  <2>2. RunTypes'
    BY <1>26, <1>a, AnyUnitType DEF Status_Fail, RunTypes, Done
  <2>3. ActorTypes'
    BY <1>26, <1>a, BlankType, NoFieldsType, FailGoneType DEF Status_Fail, ActorTypes, Done
  <2>4. HelperTypes'
    BY <1>26, <1>a DEF Status_Fail, HelperTypes, Done, HelperLabel
  <2>5. WorldTypes' /\ JobTypes' /\ ThreadTypes'
    BY <1>26, <1>a DEF Status_Fail, Done, WorldTypes, JobTypes, ThreadTypes
  <2> QED
    BY <2>1, <2>2, <2>3, <2>4, <2>5 DEF TypeOK
<1>27. ASSUME NEW h \in Helper, Clean_Start(h) PROVE TypeOK'
  <2>1. HelperTypes'
    BY <1>27, <1>a DEF Clean_Start, HelperTypes, HelperLabel
  <2>2. FileTypes' /\ WorldTypes' /\ JobTypes' /\ RunTypes' /\ ActorTypes' /\ ThreadTypes'
    BY <1>27, <1>a DEF Clean_Start, FileTypes, WorldTypes, JobTypes, RunTypes, ActorTypes,
        ThreadTypes
  <2> QED
    BY <2>1, <2>2 DEF TypeOK
<1>28. ASSUME NEW h \in Helper, Clean_Read(h) PROVE TypeOK'
  <2>1. RunTypes'
    BY <1>28, <1>a DEF Clean_Read, RunTypes, HelperTypes
  <2>2. ActorTypes'
    BY <1>28, <1>a DEF Clean_Read, ActorTypes, HelperTypes, FileTypes
  <2>3. HelperTypes'
    BY <1>28, <1>a DEF Clean_Read, HelperTypes, HelperLabel
  <2>4. FileTypes' /\ WorldTypes' /\ JobTypes' /\ ThreadTypes'
    BY <1>28, <1>a DEF Clean_Read, FileTypes, WorldTypes, JobTypes, ThreadTypes
  <2> QED
    BY <2>1, <2>2, <2>3, <2>4 DEF TypeOK
<1>29. ASSUME NEW h \in Helper, Clean_Check(h) PROVE TypeOK'
  <2>1. JobTypes'
    BY <1>29, <1>a DEF Clean_Check, JobTypes, Reconciled, JobStatus, Finished
  <2>2. ActorTypes'
    BY <1>29, <1>a DEF Clean_Check, ActorTypes, Suspect, Record, RunTypes
  <2>3. HelperTypes'
    BY <1>29, <1>a DEF Clean_Check, HelperTypes, HelperLabel
  <2>4. FileTypes' /\ WorldTypes' /\ RunTypes' /\ ThreadTypes'
    BY <1>29, <1>a DEF Clean_Check, FileTypes, WorldTypes, RunTypes, ThreadTypes
  <2> QED
    BY <2>1, <2>2, <2>3, <2>4 DEF TypeOK
<1>30. ASSUME NEW h \in Helper, Clean_Fail(h) PROVE TypeOK'
  <2>1. FileTypes'
    BY <1>30, <1>a, FailGoneType DEF Clean_Fail, FileTypes
  <2>2. ActorTypes'
    BY <1>30, <1>a, FailGoneType DEF Clean_Fail, ActorTypes
  <2>3. HelperTypes'
    BY <1>30, <1>a DEF Clean_Fail, HelperTypes, HelperLabel
  <2>4. WorldTypes' /\ JobTypes' /\ RunTypes' /\ ThreadTypes'
    BY <1>30, <1>a DEF Clean_Fail, WorldTypes, JobTypes, RunTypes, ThreadTypes
  <2> QED
    BY <2>1, <2>2, <2>3, <2>4 DEF TypeOK
<1>31. ASSUME NEW h \in Helper, Clean_Remove(h) PROVE TypeOK'
  <2>1. WorldTypes'
    BY <1>31, <1>a DEF Clean_Remove, WorldTypes
  <2>2. HelperTypes'
    BY <1>31, <1>a DEF Clean_Remove, HelperTypes, HelperLabel
  <2>3. FileTypes' /\ JobTypes' /\ RunTypes' /\ ActorTypes' /\ ThreadTypes'
    BY <1>31, <1>a DEF Clean_Remove, FileTypes, JobTypes, RunTypes, ActorTypes, ThreadTypes
  <2> QED
    BY <2>1, <2>2, <2>3 DEF TypeOK
<1>32. ASSUME NEW h \in Helper, Clean_Write(h) PROVE TypeOK'
  <2>1. FileTypes'
    BY <1>32, <1>a, FieldType DEF Clean_Write, FileTypes, RunTypes
  <2>2. HelperTypes'
    BY <1>32, <1>a, StraysType DEF Clean_Write, HelperTypes, HelperLabel
  <2>3. WorldTypes' /\ JobTypes' /\ RunTypes' /\ ActorTypes' /\ ThreadTypes'
    BY <1>32, <1>a DEF Clean_Write, WorldTypes, JobTypes, RunTypes, ActorTypes, ThreadTypes
  <2> QED
    BY <2>1, <2>2, <2>3 DEF TypeOK
<1>33. ASSUME NEW h \in Helper, Clean_End(h) PROVE TypeOK'
  <2>1. RunTypes'
    BY <1>33, <1>a, AnyUnitType DEF Clean_End, RunTypes, Done
  <2>2. ActorTypes'
    BY <1>33, <1>a, BlankType, NoFieldsType DEF Clean_End, ActorTypes, Done
  <2>3. HelperTypes'
    BY <1>33, <1>a DEF Clean_End, HelperTypes, Done, HelperLabel
  <2>4. FileTypes' /\ WorldTypes' /\ JobTypes' /\ ThreadTypes'
    BY <1>33, <1>a DEF Clean_End, Done, FileTypes, WorldTypes, JobTypes, ThreadTypes
  <2> QED
    BY <2>1, <2>2, <2>3, <2>4 DEF TypeOK
<1>34. ASSUME NEW h \in Helper, Merge_Read(h) PROVE TypeOK'
  <2>1. RunTypes'
    BY <1>34, <1>a DEF Merge_Read, RunTypes
  <2>2. ActorTypes'
    BY <1>34, <1>a DEF Merge_Read, ActorTypes, FileTypes
  <2>3. HelperTypes'
    BY <1>34, <1>a DEF Merge_Read, HelperTypes, HelperLabel
  <2>4. FileTypes' /\ WorldTypes' /\ JobTypes' /\ ThreadTypes'
    BY <1>34, <1>a DEF Merge_Read, FileTypes, WorldTypes, JobTypes, ThreadTypes
  <2> QED
    BY <2>1, <2>2, <2>3, <2>4 DEF TypeOK
<1>35. ASSUME NEW h \in Helper, Merge_Apply(h) PROVE TypeOK'
  <2>1. WorldTypes'
    BY <1>35, <1>a DEF Merge_Apply, WorldTypes, ActorTypes, Record
  <2>2. RunTypes'
    BY <1>35, <1>a, AnyUnitType DEF Merge_Apply, RunTypes, Done
  <2>3. ActorTypes'
    BY <1>35, <1>a, BlankType, NoFieldsType DEF Merge_Apply, ActorTypes, Done
  <2>4. HelperTypes'
    BY <1>35, <1>a DEF Merge_Apply, HelperTypes, Done, HelperLabel
  <2>5. FileTypes' /\ JobTypes' /\ ThreadTypes'
    BY <1>35, <1>a DEF Merge_Apply, Done, FileTypes, JobTypes, ThreadTypes
  <2> QED
    BY <2>1, <2>2, <2>3, <2>4, <2>5 DEF TypeOK
<1>36. ASSUME NEW h \in Helper, Merge_Write(h) PROVE TypeOK'
  <2>1. FileTypes'
    BY <1>36, <1>a, StatusType DEF Merge_Write, FileTypes, Status, RunTypes
  <2>2. RunTypes'
    BY <1>36, <1>a, AnyUnitType DEF Merge_Write, RunTypes, Done
  <2>3. ActorTypes'
    BY <1>36, <1>a, BlankType, NoFieldsType DEF Merge_Write, ActorTypes, Done
  <2>4. HelperTypes'
    BY <1>36, <1>a, StraysType DEF Merge_Write, HelperTypes, Done, HelperLabel
  <2>5. WorldTypes' /\ JobTypes' /\ ThreadTypes'
    BY <1>36, <1>a DEF Merge_Write, Done, WorldTypes, JobTypes, ThreadTypes
  <2> QED
    BY <2>1, <2>2, <2>3, <2>4, <2>5 DEF TypeOK
<1>37. ASSUME NEW h \in Helper, Resolve_Read(h) PROVE TypeOK'
  <2>1. RunTypes'
    BY <1>37, <1>a DEF Resolve_Read, RunTypes
  <2>2. HelperTypes'
    BY <1>37, <1>a DEF Resolve_Read, HelperTypes, HelperLabel
  <2>3. FileTypes' /\ WorldTypes' /\ JobTypes' /\ ActorTypes' /\ ThreadTypes'
    BY <1>37, <1>a DEF Resolve_Read, FileTypes, WorldTypes, JobTypes, ActorTypes, ThreadTypes
  <2> QED
    BY <2>1, <2>2, <2>3 DEF TypeOK
<1>38. ASSUME NEW h \in Helper, Cancel_Kill(h) PROVE TypeOK'
  <2>1. JobTypes'
    BY <1>38, <1>a DEF Cancel_Kill, JobTypes, Reconciled, JobStatus, Finished
  <2>2. RunTypes'
    <3>1. unit' \in [Actor -> Unit]
      BY <1>38, <1>a DEF Cancel_Kill, RunTypes
    <3>2. /\ at' \in [Run -> Plan \cup {None}] /\ loc' \in [Run -> Run \cup {"tree", None}]
          /\ prev' \in [Run -> Record] /\ ok' \in [Run -> BOOLEAN]
      <4>1. CASE RunsGoOn
        BY <1>a, <4>1 DEF RunsGoOn, RunTypes
      <4>2. ASSUME NEW s \in Run, Dies(s)
            PROVE /\ at' \in [Run -> Plan \cup {None}] /\ loc' \in [Run -> Run \cup {"tree", None}]
                  /\ prev' \in [Run -> Record] /\ ok' \in [Run -> BOOLEAN]
        BY <1>a, <4>2, BlankType DEF Dies, RunTypes
      <4> QED
        BY <1>38, <4>1, <4>2 DEF Cancel_Kill
    <3> QED
      BY <3>1, <3>2 DEF RunTypes
  <2>3. ActorTypes'
    BY <1>38, <1>a, BlankType, NoFieldsType DEF Cancel_Kill, ActorTypes, Dies, RunsGoOn
  <2>4. HelperTypes'
    BY <1>38, <1>a DEF Cancel_Kill, HelperTypes, HelperLabel
  <2>5. ThreadTypes'
    BY <1>38, <1>a, BlankType, NoFieldsType DEF Cancel_Kill, ThreadTypes, Dies, RunsGoOn, Label,
        TailLabel
  <2>6. FileTypes' /\ WorldTypes'
    BY <1>38, <1>a DEF Cancel_Kill, FileTypes, WorldTypes
  <2> QED
    BY <2>1, <2>2, <2>3, <2>4, <2>5, <2>6 DEF TypeOK
<1>39. ASSUME NEW h \in Helper, Cancel_Mark(h) PROVE TypeOK'
  <2>1. JobTypes'
    BY <1>39, <1>a DEF Cancel_Mark, JobTypes, JobStatus, Finished
  <2>2. RunTypes'
    BY <1>39, <1>a, AnyUnitType DEF Cancel_Mark, RunTypes, Done
  <2>3. ActorTypes'
    BY <1>39, <1>a, BlankType, NoFieldsType DEF Cancel_Mark, ActorTypes, Done
  <2>4. HelperTypes'
    BY <1>39, <1>a DEF Cancel_Mark, HelperTypes, Done, HelperLabel
  <2>5. FileTypes' /\ WorldTypes' /\ ThreadTypes'
    BY <1>39, <1>a DEF Cancel_Mark, Done, FileTypes, WorldTypes, ThreadTypes
  <2> QED
    BY <2>1, <2>2, <2>3, <2>4, <2>5 DEF TypeOK
<1>40. ASSUME NEW h \in Helper, Cancel_Read(h) PROVE TypeOK'
  <2>1. RunTypes'
    BY <1>40, <1>a, AnyUnitType DEF Cancel_Read, RunTypes, Done
  <2>2. ActorTypes'
    BY <1>40, <1>a, BlankType, NoFieldsType DEF Cancel_Read, ActorTypes, Done, FileTypes, RunTypes
  <2>3. HelperTypes'
    BY <1>40, <1>a, StraysType DEF Cancel_Read, HelperTypes, Done, HelperLabel
  <2>4. FileTypes' /\ WorldTypes' /\ JobTypes' /\ ThreadTypes'
    BY <1>40, <1>a DEF Cancel_Read, Done, FileTypes, WorldTypes, JobTypes, ThreadTypes
  <2> QED
    BY <2>1, <2>2, <2>3, <2>4 DEF TypeOK
<1>41. ASSUME NEW h \in Helper, Cancel_Remove(h) PROVE TypeOK'
  <2>1. WorldTypes'
    BY <1>41, <1>a DEF Cancel_Remove, WorldTypes
  <2>2. ActorTypes'
    BY <1>41, <1>a DEF Cancel_Remove, ActorTypes, Fields, Status
  <2>3. HelperTypes'
    BY <1>41, <1>a DEF Cancel_Remove, HelperTypes, HelperLabel
  <2>4. FileTypes' /\ JobTypes' /\ RunTypes' /\ ThreadTypes'
    BY <1>41, <1>a DEF Cancel_Remove, FileTypes, JobTypes, RunTypes, ThreadTypes
  <2> QED
    BY <2>1, <2>2, <2>3, <2>4 DEF TypeOK
<1>42. ASSUME NEW h \in Helper, Cancel_Write(h) PROVE TypeOK'
  <2>1. FileTypes'
    BY <1>42, <1>a, UpdateType DEF Cancel_Write, FileTypes, RunTypes, ActorTypes
  <2>2. RunTypes'
    BY <1>42, <1>a, AnyUnitType DEF Cancel_Write, RunTypes, Done
  <2>3. ActorTypes'
    BY <1>42, <1>a, BlankType, NoFieldsType DEF Cancel_Write, ActorTypes, Done
  <2>4. HelperTypes'
    BY <1>42, <1>a, StraysType DEF Cancel_Write, HelperTypes, Done, HelperLabel
  <2>5. WorldTypes' /\ JobTypes' /\ ThreadTypes'
    BY <1>42, <1>a DEF Cancel_Write, Done, WorldTypes, JobTypes, ThreadTypes
  <2> QED
    BY <2>1, <2>2, <2>3, <2>4, <2>5 DEF TypeOK
<1>43. ASSUME NEW h \in Helper, KillMerge(h) PROVE TypeOK'
  <2>1. RunTypes'
    BY <1>43, <1>a, AnyUnitType DEF KillMerge, RunTypes, Done
  <2>2. ActorTypes'
    BY <1>43, <1>a, BlankType, NoFieldsType DEF KillMerge, ActorTypes, Done
  <2>3. HelperTypes'
    BY <1>43, <1>a DEF KillMerge, HelperTypes, Done, HelperLabel
  <2>4. FileTypes' /\ WorldTypes' /\ JobTypes' /\ ThreadTypes'
    BY <1>43, <1>a DEF KillMerge, Done, FileTypes, WorldTypes, JobTypes, ThreadTypes
  <2> QED
    BY <2>1, <2>2, <2>3, <2>4 DEF TypeOK
<1>44. ASSUME Replan PROVE TypeOK'
  BY <1>44 DEF Replan, TypeOK, FileTypes, WorldTypes, JobTypes, RunTypes, ActorTypes, HelperTypes,
      ThreadTypes
<1>45. ASSUME UNCHANGED vars PROVE TypeOK'
  BY <1>45 DEF vars, TypeOK, FileTypes, WorldTypes, JobTypes, RunTypes, ActorTypes, HelperTypes,
      ThreadTypes
<1> QED
  BY <1>1, <1>2, <1>3, <1>4, <1>5, <1>6, <1>7, <1>8, <1>9, <1>10, <1>11, <1>12, <1>13, <1>14,
      <1>15, <1>16, <1>17, <1>18, <1>19, <1>20, <1>21, <1>22, <1>23, <1>24, <1>25, <1>26, <1>27,
      <1>28, <1>29, <1>30, <1>31, <1>32, <1>33, <1>34, <1>35, <1>36, <1>37, <1>38, <1>39, <1>40,
      <1>41, <1>42, <1>43, <1>44, <1>45 DEF Next, Thread, Tail, StatusStep, CleanStep, MergeStep,
      CancelStep

\* The initial state is well typed.
LEMMA TypeInit == Init => TypeOK
<1> SUFFICES ASSUME Init PROVE TypeOK
  OBVIOUS
<1> USE ConstantsOK, BlankType, NoFieldsType, AnyUnitType DEF Init
<1>1. FileTypes
  BY DEF FileTypes
<1>2. WorldTypes
  BY DEF WorldTypes
<1>3. JobTypes
  BY DEF JobTypes, JobStatus
<1>4. RunTypes
  BY DEF RunTypes
<1>5. ActorTypes
  BY DEF ActorTypes
<1>6. HelperTypes
  BY DEF HelperTypes, HelperLabel
<1>7. ThreadTypes
  BY DEF ThreadTypes, Label, TailLabel
<1> QED
  BY <1>1, <1>2, <1>3, <1>4, <1>5, <1>6, <1>7 DEF TypeOK

\* Every record, job file and memory of a process keeps its shape in every reachable state.
THEOREM TypeCorrect == Spec => []TypeOK
BY TypeInit, TypeInductive, PTL DEF Spec

-----------------------------------------------------------------------------
(* Only a claim makes a unit running, and a claim looks at every record under the lock. *)

\* The record a claim put aside, which units_run.restore may put back, is not a running one.
PrevIdle == \A r \in Run : prev[r].status # "running"

\* A unit running after the step was running before it, in the same place.
StaysRunning == \A u \in Unit : rec'[u].status = "running" =>
  rec[u].status = "running" /\ rec'[u].inPlace = rec[u].inPlace

\* units.update makes no unit running.
LEMMA UpdateStays ==
  ASSUME NEW record \in Record, NEW f \in Fields, NEW old,
         Update(record, f, old).status = "running"
  PROVE record.status = "running" /\ Update(record, f, old).inPlace = record.inPlace
BY DEF Update, Record, Fields

\* Neither does failing a run that is gone.
LEMMA FailGoneStays ==
  ASSUME FileTypes, ActorTypes, NEW a \in Actor, FailGone(a)
  PROVE StaysRunning
<1>1. PICK t \in todo[a] : rec' = [rec EXCEPT ![t.unit].status = "failed"] \/ rec' = rec
  BY DEF FailGone
<1>2. t.unit \in Unit
  BY DEF ActorTypes, Suspect
<1>3. \A u \in Unit : rec[u] \in Record
  BY DEF FileTypes
<1> QED
  BY <1>1, <1>2, <1>3 DEF FileTypes, StaysRunning, Record

\* The record a claim replaced was not running, and only the claim writes it down.
LEMMA PrevIdleInductive ==
  ASSUME TypeOK, PrevIdle, [Next]_vars
  PROVE PrevIdle'
<1> USE DEF PrevIdle, Blank
<1>a. prev \in [Run -> Record]
  BY DEF TypeOK, RunTypes
<1>1. ASSUME NEW r \in Run, Claim(r) PROVE PrevIdle'
  BY <1>1, <1>a DEF Claim, MayClaim, MayStart, StatusIn
<1>2. ASSUME NEW r \in Run, Describe(r) \/ Restore(r) PROVE PrevIdle'
  BY <1>2, <1>a DEF Describe, Restore
<1>3. ASSUME NEW r \in Run, Kill(r) PROVE PrevIdle'
  BY <1>3, <1>a DEF Kill, Dies
<1>4. ASSUME NEW h \in Helper, Cancel_Kill(h) PROVE PrevIdle'
  BY <1>4, <1>a DEF Cancel_Kill, Dies, RunsGoOn
<1>5. ASSUME NEW r \in Run, RunReadsRunning(r) \/ RunChecksGone(r) \/ RunFailsGone(r) \/
    MakeWorktree(r) \/ Release(r) \/ WriteJob(r) \/ Popen(r) \/ Gate(r) \/ WorkerUnit(r) \/
    OwnJob(r) \/ AgentEnds(r) \/ ReadToClose(r) \/ CloseTree(r) \/ RecordEnd(r) \/ Outcome(r) \/
    Start(r) \/ RecordPid(r) \/ RecordJob(r) \/ KillTail(r) PROVE UNCHANGED prev
  BY <1>5 DEF runVars, RunReadsRunning, RunChecksGone, RunFailsGone, MakeWorktree, Release,
      WriteJob, Popen, Gate, WorkerUnit, OwnJob, AgentEnds, ReadToClose, CloseTree, RecordEnd,
      Outcome, Start, RecordPid, RecordJob, KillTail
<1>6. ASSUME NEW h \in Helper, Status_Read(h) \/ Status_Check(h) \/ Status_Fail(h) \/ Clean_Start(h)
    \/ Clean_Read(h) \/ Clean_Check(h) \/ Clean_Fail(h) \/ Clean_Remove(h) \/ Clean_Write(h) \/
    Clean_End(h) \/ Merge_Read(h) \/ Merge_Apply(h) \/ Merge_Write(h) \/ Resolve_Read(h) \/
    Cancel_Mark(h) \/ Cancel_Read(h) \/ Cancel_Remove(h) \/ Cancel_Write(h) \/ KillMerge(h) PROVE
    UNCHANGED prev
  BY <1>6 DEF Others, RunState, Status_Read, Status_Check, Status_Fail, Clean_Start, Clean_Read,
      Clean_Check, Clean_Fail, Clean_Remove, Clean_Write, Clean_End, Merge_Read, Merge_Apply,
      Merge_Write, Resolve_Read, Cancel_Mark, Cancel_Read, Cancel_Remove, Cancel_Write, KillMerge
<1>7. ASSUME Replan \/ UNCHANGED vars PROVE UNCHANGED prev
  BY <1>7 DEF Replan, vars, runVars
<1> QED
  BY <1>1, <1>2, <1>3, <1>4, <1>5, <1>6, <1>7 DEF Next, Thread, Tail, StatusStep, CleanStep,
      MergeStep, CancelStep

\* No other step of any process makes a unit running or moves one.
LEMMA OnlyClaimsStart ==
  ASSUME TypeOK, PrevIdle, [Next]_vars, \A r \in Run : ~Claim(r)
  PROVE StaysRunning
<1> USE DEF StaysRunning
<1>a. FileTypes /\ RunTypes /\ ActorTypes
  BY DEF TypeOK
<1>b. \A u \in Unit : rec[u] \in Record
  BY <1>a DEF FileTypes
<1>1. ASSUME NEW r \in Run, RunFailsGone(r) PROVE StaysRunning
  BY <1>1, <1>a, <1>b, FailGoneStays DEF RunFailsGone, Actor
<1>2. ASSUME NEW r \in Run, Describe(r) PROVE StaysRunning
  BY <1>2, <1>a, <1>b DEF Describe, FileTypes, Actor
<1>3. ASSUME NEW r \in Run, Restore(r) PROVE StaysRunning
  BY <1>3, <1>a, <1>b DEF Restore, PrevIdle, FileTypes, Actor
<1>4. ASSUME NEW r \in Run, RecordJob(r) PROVE StaysRunning
  BY <1>4, <1>a, <1>b DEF RecordJob, FileTypes, Actor
<1>5. ASSUME NEW r \in Run, RecordEnd(r) PROVE StaysRunning
  BY <1>5, <1>a, <1>b, UpdateStays DEF RecordEnd, ActorTypes, FileTypes, Actor
<1>6. ASSUME NEW h \in Helper, Status_Fail(h) PROVE StaysRunning
  BY <1>6, <1>a, <1>b, FailGoneStays DEF Status_Fail, Actor, Done
<1>7. ASSUME NEW h \in Helper, Clean_Fail(h) PROVE StaysRunning
  BY <1>7, <1>a, <1>b, FailGoneStays DEF Clean_Fail, Actor, Done
<1>8. ASSUME NEW h \in Helper, Clean_Write(h) PROVE StaysRunning
  BY <1>8, <1>a, <1>b DEF Clean_Write, FileTypes, Actor
<1>9. ASSUME NEW h \in Helper, Merge_Write(h) PROVE StaysRunning
  BY <1>9, <1>a, <1>b DEF Merge_Write, FileTypes, Actor
<1>10. ASSUME NEW h \in Helper, Cancel_Write(h) PROVE StaysRunning
  BY <1>10, <1>a, <1>b, UpdateStays DEF Cancel_Write, ActorTypes, FileTypes, Actor
<1>11. ASSUME NEW r \in Run, RunReadsRunning(r) \/ RunChecksGone(r) \/ MakeWorktree(r) \/ Release(r)
    \/ WriteJob(r) \/ Popen(r) \/ Gate(r) \/ WorkerUnit(r) \/ OwnJob(r) \/ AgentEnds(r) \/
    ReadToClose(r) \/ CloseTree(r) \/ Outcome(r) \/ Start(r) \/ RecordPid(r) \/ Kill(r) \/
    KillTail(r) PROVE UNCHANGED rec
  BY <1>11 DEF fileVars, RunReadsRunning, RunChecksGone, MakeWorktree, Release, WriteJob, Popen,
      Gate, WorkerUnit, OwnJob, AgentEnds, ReadToClose, CloseTree, Outcome, Start, RecordPid,
      Kill, KillTail
<1>12. ASSUME NEW h \in Helper, Status_Read(h) \/ Status_Check(h) \/ Clean_Start(h) \/ Clean_Read(h)
    \/ Clean_Check(h) \/ Clean_Remove(h) \/ Clean_End(h) \/ Merge_Read(h) \/ Merge_Apply(h) \/
    Resolve_Read(h) \/ Cancel_Kill(h) \/ Cancel_Mark(h) \/ Cancel_Read(h) \/ Cancel_Remove(h) \/
    KillMerge(h) PROVE UNCHANGED rec
  BY <1>12 DEF fileVars, Status_Read, Status_Check, Clean_Start, Clean_Read, Clean_Check,
      Clean_Remove, Clean_End, Merge_Read, Merge_Apply, Resolve_Read, Cancel_Kill, Cancel_Mark,
      Cancel_Read, Cancel_Remove, KillMerge
<1>13. ASSUME Replan \/ UNCHANGED vars PROVE UNCHANGED rec
  BY <1>13 DEF Replan, vars, fileVars
<1> QED
  BY <1>1, <1>2, <1>3, <1>4, <1>5, <1>6, <1>7, <1>8, <1>9, <1>10, <1>11, <1>12, <1>13 DEF Next,
      Thread, Tail, StatusStep, CleanStep, MergeStep, CancelStep

\* The inductive invariant: the record restore puts back is part of it, or a claim undone could
\* make a second unit running.
IInv == TypeOK /\ PrevIdle /\ InPlaceAlone /\ UnderCap

\* claim: the unit it starts is alone, or beside none that runs in place and under the cap.
LEMMA ClaimSafe ==
  ASSUME IInv, NEW r \in Run, Claim(r)
  PROVE InPlaceAlone' /\ UnderCap'
<1> DEFINE entries == EntriesFor(at[r])
           u == unit[r]
           inPlace == RunsInPlace(at[r], entries, u)
<1>1. CASE ~MayClaim(at[r], u)
  <2>1. UNCHANGED rec
    BY <1>1 DEF Claim
  <2> QED
    BY <2>1 DEF IInv, InPlaceAlone, UnderCap, Running, StatusIn
<1>2. CASE MayClaim(at[r], u)
  <2>a. u \in Unit /\ rec \in [Unit -> Record] /\ Cap \in Nat /\ IsFiniteSet(Unit)
    BY ConstantsOK DEF IInv, TypeOK, FileTypes, RunTypes, Actor
  <2>b. entries \in [Unit -> Record]
    BY <2>a, BlankType DEF EntriesFor
  <2>c. MayStart(at[r], entries, u)
    BY <1>2 DEF MayClaim
  <2>1. rec' = [entries EXCEPT ![u] = [Blank EXCEPT
          !.status = "running", !.inPlace = inPlace, !.pid = r]]
    BY <1>2 DEF Claim
  <2>2. rec'[u].status = "running" /\ rec'[u].inPlace = inPlace
    BY <2>1, <2>a, <2>b DEF Blank
  <2>3. \A v \in Unit \ {u} : rec'[v] = entries[v]
    BY <2>1, <2>b
  <2>4. InPlaceAlone'
    <3> SUFFICES ASSUME NEW v \in Unit, NEW w \in Unit, v # w,
                        rec'[v].status = "running", rec'[v].inPlace,
                        rec'[w].status = "running"
                 PROVE FALSE
      BY DEF InPlaceAlone
    <3>1. CASE v = u
      <4>1. RunsInPlace(at[r], entries, u) /\ entries[w].status = "running" /\ w \in Unit \ {u}
        BY <3>1, <2>2, <2>3
      <4> QED
        BY <4>1 DEF RunsInPlace, StatusIn
    <3>2. CASE v # u
      <4>1. entries[v].status = "running" /\ entries[v].inPlace
        BY <3>2, <2>3
      <4> QED
        BY <4>1, <2>c DEF MayStart, Running, StatusIn
    <3> QED
      BY <3>1, <3>2
  <2>5. UnderCap'
    <3>1. Running(entries) \subseteq Unit /\ IsFiniteSet(Running(entries))
      BY <2>a, FS_Subset DEF Running
    <3>2. Running(rec') = Running(entries) \cup {u}
      BY <2>2, <2>3, <2>a DEF Running, StatusIn
    <3>3. Cardinality(Running(entries)) < Cap
      BY <2>c DEF MayStart
    <3>4. u \notin Running(entries)
      BY <2>c DEF MayStart, Running
    <3>5. /\ Cardinality(Running(entries)) \in Nat
          /\ Cardinality(Running(entries) \cup {u}) = Cardinality(Running(entries)) + 1
      BY <3>1, <3>4, FS_AddElement, FS_CardinalityType
    <3> QED
      BY <3>2, <3>3, <3>5, <2>a DEF UnderCap
  <2> QED
    BY <2>4, <2>5
<1> QED
  BY <1>1, <1>2

\* Fewer running units, each where it was, keep both.
LEMMA OtherStepsSafe ==
  ASSUME IInv, StaysRunning
  PROVE InPlaceAlone' /\ UnderCap'
<1>1. InPlaceAlone'
  BY DEF IInv, InPlaceAlone, StaysRunning
<1>2. Running(rec') \subseteq Running(rec) /\ Running(rec) \subseteq Unit
  BY DEF StaysRunning, Running, StatusIn
<1>3. Cardinality(Running(rec')) <= Cardinality(Running(rec))
      /\ Cardinality(Running(rec)) \in Nat /\ Cardinality(Running(rec')) \in Nat
  BY <1>2, ConstantsOK, FS_Subset, FS_CardinalityType
<1>4. UnderCap'
  BY <1>3, ConstantsOK DEF IInv, UnderCap
<1> QED
  BY <1>1, <1>4

\* The invariant holds in every behaviour: claims are safe, and nothing else starts a unit.
LEMMA IInvHolds == Spec => []IInv
<1>1. Init => PrevIdle /\ InPlaceAlone /\ UnderCap
  <2> SUFFICES ASSUME Init PROVE PrevIdle /\ InPlaceAlone /\ UnderCap
    OBVIOUS
  <2>1. Running(rec) = {}
    BY DEF Init, Running, StatusIn, Blank
  <2>2. UnderCap
    BY <2>1, FS_EmptySet, ConstantsOK DEF UnderCap
  <2> QED
    BY <2>2 DEF Init, PrevIdle, InPlaceAlone, Blank
<1>2. IInv /\ [Next]_vars => IInv'
  <2> SUFFICES ASSUME IInv, [Next]_vars PROVE IInv'
    OBVIOUS
  <2>1. TypeOK' /\ PrevIdle'
    BY TypeInductive, PrevIdleInductive DEF IInv
  <2>2. CASE \E r \in Run : Claim(r)
    BY <2>1, <2>2, ClaimSafe DEF IInv
  <2>3. CASE \A r \in Run : ~Claim(r)
    BY <2>1, <2>3, OnlyClaimsStart, OtherStepsSafe DEF IInv
  <2> QED
    BY <2>2, <2>3
<1> QED
  BY <1>1, <1>2, TypeInit, PTL DEF Spec, IInv

\* Whatever commands race, crash, cancel or replan, a unit running in place is the only one
\* running: units_run.refusal and units.runs_in_place, read under one lock.
THEOREM InPlaceIsAlone == Spec => []InPlaceAlone
BY IInvHolds, PTL DEF IInv

\* Two units starting together cannot both pass the parallelism cap (units_run.claim).
THEOREM CapHolds == Spec => []UnderCap
BY IInvHolds, PTL DEF IInv

-----------------------------------------------------------------------------
(* A record tells the truth about its run. *)

\* The faults under which a process is taken for gone while it goes on only if it said itself
\* that its run is over.  The others, a command that dies before it names the job and a job
\* cancelled before its worker has it, open windows that the code leaves open.
Orderly == Fault \subseteq {"kill", "lag", "replan", "gate"}

\* A run that still has to close its unit, though its job says it is over.
Late(r) == pc[r] \in Closing /\ SaidOver(r)

\* From the claim to the end of finish a run's unit is its own, or until the run says it is over.
Owning == {"worktree", "describe", "release", "restore", "spawn", "popen", "gate", "own", "agent",
           "close", "tree", "record"}
Claiming == {"worktree", "describe", "release", "restore"}
Owner(r)   == pc[r] \in Owning /\ ~Late(r)
Ended(r)   == pc[r] \in {"outcome", "over", "undone"}
Through(r) == Ended(r) \/ Late(r)
Claimed(r) == Owner(r) \/ Through(r)

\* A command that has read the plan knows its digest until it claims.
PlanRead(r) == pc[r] \in {"reconcile", "claim"} => at[r] \in Plan

\* What a run's label says of its command's tail, its job file and its agent's success.
LabelFits(r) ==
  /\ tail[r] # "lost"
  /\ Handed(r) => pc[r] \in {"gate", "own", "agent", "close", "tree", "record", "outcome", "over"}
  /\ pc[r] \in {"gate", "own"} => Handed(r)
  /\ jobPid[r] => Handed(r)
  /\ job[r] = "running" => jobPid[r]
  /\ job[r] = "cancelled" => Ended(r)
  /\ ok[r] => pc[r] \in {"close", "tree", "record", "outcome"} /\ (loc[r] = "tree" => r \in landed)

\* A record, or a copy of one, is of a run that claimed the unit, and not running only if that is
\* through, a result only if it has closed the unit; the others are blank.
RecFits(x, u) ==
  IF x.pid = None THEN x = Blank
  ELSE /\ Claimed(x.pid) /\ unit[x.pid] = u
       /\ x.job \in {None, x.pid} /\ x.wt \in {None, x.pid}
       /\ x.job # None => tail[x.pid] = "done"
       /\ x.status # "pending" /\ (x.status # "running" => Through(x.pid))
       /\ x.status \in {"succeeded", "merged", "conflicted"} => Ended(x.pid)

\* The record of a unit that is a run's own.
Owns(r) ==
  LET x == rec[unit[r]] IN
  /\ x.status = "running" /\ x.pid = r
  /\ x.job = IF tail[r] = "done" THEN r ELSE None
  /\ Handed(r) \/ pc[r] = "popen" => job[r] \in {"starting", "running"}
  /\ loc[r] = IF x.inPlace THEN "tree" ELSE r
  /\ CASE pc[r] \in {"worktree", "describe"} -> x.wt = None
       [] pc[r] = "restore" -> TRUE
       [] OTHER -> x.wt = IF x.inPlace THEN None ELSE r
  /\ pc[r] = "worktree" => ~x.inPlace
  /\ ~x.inPlace /\ pc[r] \in {"describe", "release", "spawn", "popen", "gate", "own", "agent"} => r \in disk
  /\ pc[r] \in Claiming =>
       /\ RecFits(prev[r], unit[r]) /\ prev[r].status \in {"pending", "failed", "cancelled"}
       /\ prev[r].wt = None
  /\ pc[r] \in {"tree", "record"} =>
       snap[r].pid = r /\ snap[r].inPlace = x.inPlace /\ snap[r].wt = x.wt
  /\ pc[r] = "record" =>
       /\ fields[r].status \in {"failed", "merged", "succeeded"}
       /\ fields[r].status = "merged" => r \in landed
       /\ fields[r].worktree = "gone" => r \notin disk

\* What a late run is about to write is that its own run failed.
Lags(r) ==
  /\ ~ok[r]
  /\ pc[r] \in {"tree", "record"} => snap[r].pid = r /\ snap[r].wt \in {None, r}
  /\ pc[r] = "record" =>
       /\ fields[r].status = "failed"
       /\ fields[r].worktree = "gone" => r \notin disk
       /\ fields[r].worktree = "stays" => snap[r].wt = r

\* A worktree on disk is named by its record, or its run is between two writes or was undone.
DiskFits(w) == w \in disk =>
  /\ Claimed(w) /\ pc[w] # "worktree"
  /\ pc[w] \in {"describe", "restore", "undone"} \/ rec[unit[w]].wt = w
  /\ Owner(w) => ~rec[unit[w]].inPlace

\* A run that was read as running, and perhaps found gone.
SuspectFits(t) ==
  /\ t.pid \in Run /\ Claimed(t.pid) /\ unit[t.pid] = t.unit
  /\ t.job \in {None, t.pid} /\ (t.job # None => tail[t.pid] = "done")
  /\ t.gone => Through(t.pid) \/ (t.job = None /\ tail[t.pid] = "done")

\* What a clean or a merge has read is the record of a run that no command waits for.
Past(x, u) == RecFits(x, u) /\ x.pid # None /\ Through(x.pid)

CleanFits(h) ==
  /\ hpc[h] \in {"cleanCheck", "cleanFail"} => RecFits(snap[h], unit[h]) /\ snap[h].status = "running"
  /\ hpc[h] = "cleanFail" => \A t \in todo[h] : t.pid = snap[h].pid /\ t.unit = unit[h]
  /\ hpc[h] \in {"cleanRemove", "cleanWrite"} => Past(snap[h], unit[h]) /\ snap[h].wt # None
  /\ hpc[h] = "cleanWrite" => snap[h].wt \notin disk

MergeFits(h) ==
  LET x == rec[unit[h]]
      same == x.pid = snap[h].pid
  IN
  /\ mergeLock = h <=> hpc[h] \in {"merge", "merged", "conflicted"}
  /\ mergeLock = h => /\ Past(snap[h], unit[h]) /\ Ended(snap[h].pid)
                      /\ \A r \in Run : pc[r] \in Claiming => prev[r].pid # snap[h].pid
  /\ hpc[h] \in {"merge", "conflicted"} => (same => x.status = "succeeded")
  /\ hpc[h] = "merged" => (same => x.status \in {"succeeded", "conflicted"})
  /\ hpc[h] \in {"merged", "conflicted"} => snap[h].pid \in landed

CancelFits(h) ==
  LET x == rec[unit[h]] IN
  /\ hpc[h] \in {"cancelMark", "cancelRead", "cancelRemove", "cancelWrite"} =>
       target[h] \in Run /\ Ended(target[h]) /\ unit[h] = unit[target[h]]
  /\ hpc[h] \in {"cancelRemove", "cancelWrite"} =>
       /\ RecFits(snap[h], unit[h]) /\ snap[h].pid = target[h]
       /\ x.pid = target[h] => x.status \in {"running", "failed", "cancelled"}
  /\ hpc[h] = "cancelWrite" =>
       /\ fields[h].status \in {"cancelled", "same"}
       /\ fields[h].worktree = "gone" => snap[h].wt \notin disk
       /\ fields[h].worktree # "same" => snap[h].wt # None

InTree(u) == rec[u].status \in {"merged", "conflicted"} => rec[u].pid \in landed
OnMerged(u) == rec[u].status = "running" =>
  owner \in Plan /\ \A d \in DependsOn[owner][u] : rec[d].status = "merged"

Truthful ==
  /\ \A r \in Run : /\ PlanRead(r) /\ LabelFits(r) /\ DiskFits(r)
                    /\ (Owner(r) => Owns(r)) /\ (Late(r) => Lags(r))
  /\ \A u \in Unit : RecFits(rec[u], u) /\ InTree(u) /\ OnMerged(u)
  /\ \A a \in Actor : \A t \in todo[a] : SuspectFits(t)
  /\ \A h \in Helper : CleanFits(h) /\ MergeFits(h) /\ CancelFits(h)

\* What a step is taken from: the invariant, and a step that does not stray.
Sound == Orderly /\ TypeOK /\ Truthful /\ [Next]_vars /\ ~strayed'

\* While a run is there, its record need not name a worktree it has made.
Untold == {"worktree", "describe", "restore", "undone"}

\* Runs only go onward, and what is said of them in a copy of a record stays true.
Onward ==
  /\ \A q \in Run : /\ pc[q] # "new" => unit'[q] = unit[q]
                    /\ Claimed(q) => Claimed(q)' /\ unit'[q] = unit[q]
                    /\ (Through(q) => Through(q)') /\ (Ended(q) => Ended(q)')
                    /\ tail[q] = "done" => tail'[q] = "done"
                    /\ q \notin disk /\ (pc[q] # "worktree" \/ pc'[q] # "describe") => q \notin disk'
                    /\ pc'[q] = "worktree" => pc[q] \in {"claim", "worktree"}
                    /\ pc[q] \in Untold => pc'[q] \notin Closing \cup {"outcome", "over"}
  /\ landed \subseteq landed'

\* What a run has said of its end is not taken back.
Told == \A q \in Run : pc[q] \in Closing /\ SaidOver(q) => SaidOver(q)'

\* A job file that says a run is over goes on saying so.
LEMMA ToldStep == ASSUME Sound PROVE Told
<1> USE DEF jobVars, helperVars, helperOwn, Others, RunState, RunsGoOn
<1>a. /\ TypeOK /\ [Next]_vars
      /\ job \in [Run -> JobStatus] /\ tail \in [Run -> TailLabel] /\ pc \in [Run -> Label]
  BY DEF Sound, TypeOK, JobTypes, ThreadTypes
<1> SUFFICES ASSUME NEW q \in Run, pc[q] \in Closing, SaidOver(q) PROVE SaidOver(q)'
  BY DEF Told
<1>b. Handed(q) /\ job[q] \in Finished /\ tail[q] # "none"
  BY DEF SaidOver, Handed
<1>1. ASSUME job'[q] \in Finished, tail'[q] # "none" PROVE SaidOver(q)'
  BY <1>1 DEF SaidOver, Handed
<1>2. ASSUME NEW js, job' = Reconciled(js) PROVE job'[q] = job[q]
  BY <1>b, <1>2 DEF Reconciled
<1>3. ASSUME NEW r \in Run,
             \/ Start(r) \/ RunReadsRunning(r) \/ RunFailsGone(r) \/ Claim(r) \/ MakeWorktree(r)
             \/ Describe(r) \/ Release(r) \/ Restore(r) \/ ReadToClose(r) \/ CloseTree(r) \/ RecordEnd(r)
             \/ RecordJob(r) \/ Kill(r) \/ KillTail(r)
      PROVE SaidOver(q)'
  <2>1. UNCHANGED job /\ (tail' = tail \/ \E l \in {"done", "lost"} : tail' = [tail EXCEPT ![r] = l])
    BY <1>3 DEF Start, RunReadsRunning, RunFailsGone, Claim, MakeWorktree, Describe, Release, Restore,
        ReadToClose, CloseTree, RecordEnd, RecordJob, Kill, KillTail
  <2> QED
    BY <1>a, <1>b, <1>1, <2>1
<1>4. ASSUME NEW r \in Run, RunChecksGone(r) PROVE SaidOver(q)'
  BY <1>b, <1>1, <1>2, <1>4 DEF RunChecksGone, CheckGone
<1>5. ASSUME NEW r \in Run,
             WriteJob(r) \/ Popen(r) \/ Gate(r) \/ WorkerUnit(r) \/ OwnJob(r) \/ Outcome(r)
      PROVE SaidOver(q)'
  <2>1. r # q
    BY <1>5 DEF WriteJob, Popen, Gate, WorkerUnit, OwnJob, Outcome, At, Closing
  <2>2. UNCHANGED <<job[q], tail[q]>>
    BY <1>a, <1>5, <2>1 DEF WriteJob, Popen, Gate, WorkerUnit, OwnJob, Outcome
  <2> QED
    BY <1>b, <1>1, <2>2
<1>6. ASSUME NEW r \in Run, AgentEnds(r) PROVE SaidOver(q)'
  <2>1. UNCHANGED tail /\ (job' = job \/ job' = [job EXCEPT ![r] = "failed"])
    BY <1>6 DEF AgentEnds
  <2> QED
    BY <1>a, <1>b, <1>1, <2>1 DEF Finished
<1>7. ASSUME NEW r \in Run, RecordPid(r) PROVE SaidOver(q)'
  <2>1. job'[q] = job[q] /\ tail'[q] \in {tail[q], "job"}
    BY <1>a, <1>b, <1>7 DEF RecordPid, Finished
  <2> QED
    BY <1>b, <1>1, <2>1
<1>8. ASSUME NEW h \in Helper, Status_Check(h) \/ Clean_Check(h) \/ Cancel_Kill(h) PROVE SaidOver(q)'
  <2>1. UNCHANGED tail /\ \E js : job' = Reconciled(js)
    BY <1>8 DEF Status_Check, Clean_Check, Cancel_Kill, CheckGone
  <2> QED
    BY <1>b, <1>1, <1>2, <2>1
<1>9. ASSUME NEW h \in Helper, Cancel_Mark(h) PROVE SaidOver(q)'
  BY <1>a, <1>b, <1>1, <1>9 DEF Cancel_Mark
<1>10. ASSUME NEW h \in Helper,
             \/ Status_Read(h) \/ Status_Fail(h) \/ Clean_Start(h) \/ Clean_Read(h) \/ Clean_Fail(h)
             \/ Clean_Remove(h) \/ Clean_Write(h) \/ Clean_End(h) \/ MergeStep(h)
             \/ Cancel_Read(h) \/ Cancel_Remove(h) \/ Cancel_Write(h) \/ KillMerge(h)
       PROVE SaidOver(q)'
  <2>1. UNCHANGED <<job, tail>>
    BY <1>10 DEF Status_Read, Status_Fail, Clean_Start, Clean_Read, Clean_Fail, Clean_Remove,
        Clean_Write, Clean_End, MergeStep, Merge_Read, Merge_Apply, Merge_Write, Resolve_Read,
        Cancel_Read, Cancel_Remove, Cancel_Write, KillMerge
  <2> QED
    BY <1>b, <1>1, <2>1
<1>11. ASSUME Replan \/ UNCHANGED vars PROVE SaidOver(q)'
  <2>1. UNCHANGED <<job, tail>>
    BY <1>11 DEF Replan, vars
  <2> QED
    BY <1>b, <1>1, <2>1
<1> QED
  BY <1>a, <1>3, <1>4, <1>5, <1>6, <1>7, <1>8, <1>9, <1>10, <1>11 DEF Next, Thread, Tail, StatusStep,
      CleanStep, CancelStep

\* A step that leaves the runs' places and the files on disk as they are, or a few less files.
LEMMA OnwardLeaves ==
  ASSUME TypeOK, Told, UNCHANGED <<pc, tail>>, \A q \in Run : unit'[q] = unit[q], disk' \subseteq disk,
         landed \subseteq landed'
  PROVE Onward
BY DEF Onward, Told, Claimed, Owner, Through, Ended, Late, Untold, Closing

\* A step of one run that goes on to a label behind the one it is at.
LEMMA OnwardGoes ==
  ASSUME TypeOK, Told, NEW r \in Run, NEW label, Goto(r, label),
         \A q \in Run : unit'[q] = unit[q] \/ (q = r /\ pc[r] = "new"),
         Claimed(r) => label \in Owning \cup {"outcome", "over", "undone"},
         Ended(r) => label \in {"outcome", "over", "undone"},
         pc[r] \in Closing => label \in Closing \cup {"outcome", "over"},
         \A q \in Run : tail[q] = "done" => tail'[q] = "done",
         \A q \in disk' \ disk : q = r /\ pc[r] = "worktree" /\ label = "describe",
         label = "worktree" => pc[r] = "claim",
         pc[r] \in Untold => label \notin Closing \cup {"outcome", "over"},
         landed \subseteq landed'
  PROVE Onward
<1>1. pc \in [Run -> Label] /\ pc' = [pc EXCEPT ![r] = label]
  BY DEF TypeOK, ThreadTypes, Goto
<1>2. \A q \in Run : pc'[q] = IF q = r THEN label ELSE pc[q]
  BY <1>1
<1>3. pc[r] = "new" => ~Claimed(r)
  BY DEF Claimed, Owner, Owning, Through, Ended, Late, Closing
<1>4. \A q \in Run : /\ Ended(q) => Ended(q)'
                     /\ Late(q) => Late(q)' \/ Ended(q)'
                     /\ Claimed(q) => pc'[q] \in Owning \/ Ended(q)'
  BY <1>2 DEF Told, Ended, Late, Claimed, Owner, Owning, Through, Closing
<1>5. \A q \in Run : (Through(q) => Through(q)') /\ (Claimed(q) => Claimed(q)')
  BY <1>4 DEF Through, Claimed, Owner
<1> QED
  BY <1>1, <1>2, <1>3, <1>4, <1>5 DEF Onward, Untold, Closing

\* Every step takes the runs onward.
LEMMA OnwardStep == ASSUME Sound PROVE Onward
<1> USE DEF worldVars, runVars, actorVars, helperVars, helperOwn, Others, RunState, HelperKeeps, Actor
<1>a. /\ TypeOK /\ [Next]_vars /\ Fault \subseteq {"kill", "lag", "replan", "gate"}
      /\ pc \in [Run -> Label] /\ tail \in [Run -> TailLabel] /\ unit \in [Actor -> Unit]
      /\ Run \cap Helper = {}
  BY ConstantsOK DEF Sound, Orderly, TypeOK, ThreadTypes, RunTypes
<1>b. \A q \in Run : LabelFits(q)
  BY DEF Sound, Truthful
<1>c. Told
  BY ToldStep
<1>1. ASSUME NEW r \in Run, RunChecksGone(r) \/ RunFailsGone(r) \/ RecordPid(r) \/ RecordJob(r)
      PROVE Onward
  <2>1. UNCHANGED <<pc, unit, disk, landed>>
    BY <1>1 DEF RunChecksGone, RunFailsGone, RecordPid, RecordJob
  <2>2. \A q \in Run : tail[q] = "done" => tail'[q] = "done"
    BY <1>a, <1>1 DEF RunChecksGone, RunFailsGone, RecordPid, RecordJob
  <2> QED
    BY <1>c, <2>1, <2>2 DEF Onward, Told, Claimed, Owner, Through, Ended, Late, Untold, Closing
<1>2. ASSUME NEW r \in Run, Start(r) PROVE Onward
  <2>1. /\ Goto(r, "reconcile") /\ ~Claimed(r) /\ pc[r] = "new" /\ UNCHANGED <<disk, landed, tail>>
        /\ pc[r] \notin Closing /\ ~Ended(r)
    BY <1>2 DEF Start, Claimed, Owner, Owning, Through, Ended, Late, Closing
  <2>2. \A q \in Run : unit'[q] = unit[q] \/ q = r
    BY <1>a, <1>2 DEF Start
  <2> QED
    BY <1>a, <1>c, <2>1, <2>2, OnwardGoes DEF Untold
<1>3. ASSUME NEW r \in Run, RunReadsRunning(r) \/ Claim(r) \/ MakeWorktree(r) \/ Describe(r)
             \/ Release(r) \/ Restore(r) \/ WriteJob(r) \/ Popen(r) \/ Gate(r)
      PROVE Onward
  <2>1. PICK label \in {"claim", "over", "worktree", "describe", "restore", "agent", "spawn", "release",
                        "undone", "popen", "gate", "close"} :
          /\ Goto(r, label)
          /\ label = "claim" => pc[r] = "reconcile"
          /\ ~Ended(r) /\ pc[r] \notin Closing
    BY <1>3 DEF RunReadsRunning, Claim, MakeWorktree, Describe, Release, Restore, WriteJob, Popen,
        Gate, At, Ended, Closing, Goto
  <2>2. UNCHANGED <<unit, landed>>
    BY <1>3 DEF RunReadsRunning, Claim, MakeWorktree, Describe, Release, Restore, WriteJob, Popen,
        Gate
  <2>3. \A q \in Run : tail[q] = "done" => tail'[q] = "done"
    <3>1. CASE Popen(r)
      <4>1. tail' = tail \/ tail' = [tail EXCEPT ![r] = "pid"]
        BY <3>1 DEF Popen
      <4>2. ~Handed(r)
        BY <1>b, <3>1 DEF Popen, At, LabelFits
      <4> QED
        BY <1>a, <4>1, <4>2 DEF Handed
    <3> QED
      BY <1>3, <3>1 DEF RunReadsRunning, Claim, MakeWorktree, Describe, Release, Restore, WriteJob,
        Gate
  <2>4. \A q \in disk' \ disk : q = r /\ pc[r] = "worktree" /\ Goto(r, "describe")
    BY <1>3 DEF RunReadsRunning, Claim, MakeWorktree, Describe, Release, Restore, WriteJob, Popen,
        Gate, At
  <2>5. Claimed(r) => label \in Owning \cup {"outcome", "over", "undone"}
    BY <2>1 DEF Claimed, Owner, Owning, Through, Late
  <2>6. /\ label = "worktree" => pc[r] = "claim"
        /\ pc[r] \in Untold => label \notin Closing \cup {"outcome", "over"}
    BY <1>3, <1>a, <2>1 DEF RunReadsRunning, Claim, MakeWorktree, Describe, Release, Restore, WriteJob,
        Popen, Gate, At, Goto, Untold, Closing
  <2>7. Goto(r, "describe") => label = "describe"
    BY <1>a, <2>1 DEF Goto
  <2> QED
    BY <1>a, <1>c, <2>1, <2>2, <2>3, <2>4, <2>5, <2>6, <2>7, OnwardGoes
<1>4. ASSUME NEW r \in Run, WorkerUnit(r) \/ OwnJob(r) \/ AgentEnds(r) \/ ReadToClose(r)
             \/ CloseTree(r) \/ RecordEnd(r) \/ Outcome(r)
      PROVE Onward
  <2>1. PICK label \in {"over", "close", "own", "agent", "tree", "outcome", "record"} :
          /\ Goto(r, label) /\ (Ended(r) => label = "over")
          /\ pc[r] \in Closing => label \in Closing \cup {"outcome", "over"}
    BY <1>4 DEF WorkerUnit, OwnJob, AgentEnds, ReadToClose, CloseTree, RecordEnd, Outcome, At,
        Ended, Closing, Goto
  <2>2. UNCHANGED <<unit, tail>> /\ disk' \subseteq disk /\ landed \subseteq landed'
    BY <1>4 DEF WorkerUnit, OwnJob, AgentEnds, ReadToClose, CloseTree, RecordEnd, Outcome
  <2>3. label \in Owning \cup {"outcome", "over", "undone"}
    BY <2>1 DEF Owning
  <2>4. pc[r] \notin Untold
    BY <1>4 DEF WorkerUnit, OwnJob, AgentEnds, ReadToClose, CloseTree, RecordEnd, Outcome, At, Untold
  <2> QED
    BY <1>a, <1>c, <2>1, <2>2, <2>3, <2>4, OnwardGoes
<1>5. ASSUME NEW r \in Run, Dies(r), pc[r] # "undone", UNCHANGED <<disk, landed, tail>>,
             \A q \in Run : unit'[q] = unit[q]
      PROVE Onward
  <2>1. PICK label \in {"undone", "over"} :
          /\ Goto(r, label) /\ (pc[r] \in {"worktree", "describe", "restore"} => label = "undone")
          /\ pc[r] \in Closing => label = "over"
    BY <1>5 DEF Dies, Closing
  <2>2. pc[r] \in Untold => label \notin Closing \cup {"outcome", "over"}
    BY <1>5, <2>1 DEF Untold, Closing
  <2> QED
    BY <1>a, <1>c, <1>5, <2>1, <2>2, OnwardGoes
<1>6. ASSUME NEW r \in Run, Kill(r) PROVE Onward
  BY <1>5, <1>6 DEF Kill, ThreadAlive
<1>7. ASSUME NEW r \in Run, KillTail(r) PROVE Onward
  <2>1. /\ UNCHANGED <<pc, unit, disk, landed>>
        /\ \A q \in Run : tail[q] = "done" => tail'[q] = "done"
    BY <1>a, <1>7 DEF KillTail
  <2> QED
    BY <1>c, <2>1 DEF Onward, Told, Claimed, Owner, Through, Ended, Late, Untold, Closing
<1>8. ASSUME NEW h \in Helper, Cancel_Kill(h) PROVE Onward
  <2>1. UNCHANGED <<disk, landed, tail>> /\ \A q \in Run : unit'[q] = unit[q]
    BY <1>a, <1>8 DEF Cancel_Kill
  <2>2. (\E r \in Run : Dies(r) /\ pc[r] # "undone") \/ RunsGoOn
    BY <1>8, <1>b DEF Cancel_Kill, LabelFits
  <2>3. RunsGoOn => UNCHANGED pc
    BY DEF RunsGoOn
  <2> QED
    BY <1>a, <1>5, <2>1, <2>2, <2>3, <1>c, OnwardLeaves
<1>9. ASSUME NEW h \in Helper,
             \/ Status_Read(h) \/ Status_Check(h) \/ Status_Fail(h)
             \/ Clean_Start(h) \/ Clean_Read(h) \/ Clean_Check(h) \/ Clean_Fail(h) \/ Clean_Remove(h)
             \/ Clean_Write(h) \/ Clean_End(h)
      PROVE Onward
  <2>1. UNCHANGED <<pc, tail, landed>> /\ disk' \subseteq disk
    BY <1>9 DEF Status_Read, Status_Check, Status_Fail, Clean_Start, Clean_Read, Clean_Check,
        Clean_Fail, Clean_Remove, Clean_Write, Clean_End
  <2>2. \A q \in Run : unit'[q] = unit[q]
    BY <1>a, <1>9 DEF Status_Read, Status_Check, Status_Fail, Clean_Start, Clean_Read, Clean_Check,
        Clean_Fail, Clean_Remove, Clean_Write, Clean_End, Done
  <2> QED
    BY <1>a, <1>c, <2>1, <2>2, OnwardLeaves
<1>10. ASSUME NEW h \in Helper,
             \/ Merge_Read(h) \/ Merge_Apply(h) \/ Merge_Write(h) \/ Resolve_Read(h)
             \/ Cancel_Mark(h) \/ Cancel_Read(h) \/ Cancel_Remove(h) \/ Cancel_Write(h) \/ KillMerge(h)
      PROVE Onward
  <2>1. UNCHANGED <<pc, tail>> /\ disk' \subseteq disk /\ landed \subseteq landed'
    BY <1>10 DEF Merge_Read, Merge_Apply, Merge_Write, Resolve_Read, Cancel_Mark, Cancel_Read,
        Cancel_Remove, Cancel_Write, KillMerge
  <2>2. \A q \in Run : unit'[q] = unit[q]
    BY <1>a, <1>10 DEF Merge_Read, Merge_Apply, Merge_Write, Resolve_Read, Cancel_Mark, Cancel_Read,
        Cancel_Remove, Cancel_Write, KillMerge, Done
  <2> QED
    BY <1>a, <1>c, <2>1, <2>2, OnwardLeaves
<1>11. ASSUME Replan \/ UNCHANGED vars PROVE Onward
  <2>1. UNCHANGED <<pc, tail, unit, disk, landed>>
    BY <1>11 DEF Replan, vars
  <2> QED
    BY <1>a, <1>c, <2>1, OnwardLeaves
<1> QED
  BY <1>a, <1>1, <1>2, <1>3, <1>4, <1>6, <1>7, <1>8, <1>9, <1>10, <1>11 DEF Next, Thread, Tail,
      StatusStep, CleanStep, MergeStep, CancelStep

\* A run that a step does not touch, but for a job file found to be of a worker that is gone.
LEMMA LabelKeeps ==
  ASSUME NEW q \in Run, LabelFits(q), UNCHANGED <<pc[q], tail[q], jobPid[q], ok[q], loc[q]>>,
         job'[q] \in {job[q], "abandoned"}, landed \subseteq landed'
  PROVE LabelFits(q)'
BY DEF LabelFits, Handed, Ended

\* Reading job files changes nothing but that.
LEMMA ReconcileKeeps ==
  ASSUME TypeOK, NEW js, job' = Reconciled(js), NEW q \in Run
  PROVE job'[q] = job[q] \/ (job'[q] = "abandoned" /\ ~WorkerAlive(q) /\ jobPid[q])
BY DEF Reconciled

\* The plan a command has read is not forgotten before the claim.
LEMMA PlanStep == ASSUME Sound PROVE \A q \in Run : PlanRead(q)'
<1> USE DEF runVars, actorVars, helperVars, helperOwn, Others, RunState
<1>a. /\ TypeOK /\ [Next]_vars /\ pc \in [Run -> Label] /\ at \in [Run -> Plan \cup {None}] /\ plan \in Plan
  BY DEF Sound, TypeOK, ThreadTypes, RunTypes, WorldTypes
<1>b. \A q \in Run : PlanRead(q)
  BY DEF Sound, Truthful
<1>1. ASSUME NEW r \in Run, Start(r) PROVE \A q \in Run : PlanRead(q)'
  BY <1>1, <1>a, <1>b DEF Start, Goto, PlanRead
<1>2. ASSUME NEW r \in Run, RunReadsRunning(r) PROVE \A q \in Run : PlanRead(q)'
  BY <1>2, <1>a, <1>b DEF RunReadsRunning, At, Goto, PlanRead
<1>3. ASSUME NEW r \in Run, NEW label, label \notin {"reconcile", "claim"}, Goto(r, label),
             at' = at \/ at' = [at EXCEPT ![r] = None]
      PROVE \A q \in Run : PlanRead(q)'
  BY <1>3, <1>a, <1>b DEF Goto, PlanRead
<1>4. ASSUME NEW r \in Run,
             \/ Claim(r) \/ MakeWorktree(r) \/ Describe(r) \/ Release(r) \/ Restore(r) \/ WriteJob(r)
             \/ Popen(r) \/ Gate(r) \/ WorkerUnit(r) \/ OwnJob(r) \/ AgentEnds(r) \/ ReadToClose(r)
             \/ CloseTree(r) \/ RecordEnd(r) \/ Outcome(r) \/ Kill(r)
      PROVE \A q \in Run : PlanRead(q)'
  <2>1. at' = at \/ at' = [at EXCEPT ![r] = None]
    BY <1>4 DEF Claim, MakeWorktree, Describe, Release, Restore, WriteJob, Popen, Gate, WorkerUnit,
        OwnJob, AgentEnds, ReadToClose, CloseTree, RecordEnd, Outcome, Kill, Dies
  <2>2. PICK label \in Label \ {"reconcile", "claim"} : Goto(r, label)
    BY <1>4 DEF Claim, MakeWorktree, Describe, Release, Restore, WriteJob, Popen, Gate, WorkerUnit,
        OwnJob, AgentEnds, ReadToClose, CloseTree, RecordEnd, Outcome, Kill, Dies, Label
  <2> QED
    BY <1>3, <2>1, <2>2
<1>5. ASSUME UNCHANGED <<pc, at>> PROVE \A q \in Run : PlanRead(q)'
  BY <1>5, <1>b DEF PlanRead
<1>6. ASSUME NEW r \in Run, RunChecksGone(r) \/ RunFailsGone(r) \/ RecordPid(r) \/ RecordJob(r) \/ KillTail(r)
      PROVE UNCHANGED <<pc, at>>
  BY <1>6 DEF RunChecksGone, RunFailsGone, RecordPid, RecordJob, KillTail
<1>7. ASSUME NEW h \in Helper,
             \/ StatusStep(h) \/ CleanStep(h) \/ MergeStep(h) \/ KillMerge(h)
             \/ Cancel_Mark(h) \/ Cancel_Read(h) \/ Cancel_Remove(h) \/ Cancel_Write(h)
      PROVE UNCHANGED <<pc, at>>
  BY <1>7 DEF StatusStep, CleanStep, MergeStep, Status_Read, Status_Check, Status_Fail, Clean_Start,
      Clean_Read, Clean_Check, Clean_Fail, Clean_Remove, Clean_Write, Clean_End, Merge_Read,
      Merge_Apply, Merge_Write, Resolve_Read, Cancel_Mark, Cancel_Read, Cancel_Remove, Cancel_Write,
      KillMerge
<1>8. ASSUME NEW h \in Helper, Cancel_Kill(h) PROVE \A q \in Run : PlanRead(q)'
  <2>1. RunsGoOn \/ \E r \in Run : Dies(r)
    BY <1>8 DEF Cancel_Kill
  <2>2. ASSUME NEW r \in Run, Dies(r) PROVE \A q \in Run : PlanRead(q)'
    <3>1. PICK label \in {"undone", "over"} : Goto(r, label)
      BY <2>2 DEF Dies
    <3> QED
      BY <1>3, <2>2, <3>1 DEF Dies
  <2> QED
    BY <1>5, <2>1, <2>2 DEF RunsGoOn
<1>9. ASSUME Replan \/ UNCHANGED vars PROVE UNCHANGED <<pc, at>>
  BY <1>9 DEF Replan, vars
<1> QED
  BY <1>a, <1>1, <1>2, <1>4, <1>5, <1>6, <1>7, <1>8, <1>9 DEF Next, Thread, Tail, CancelStep

\* What a run's label says of it stays true: each of its steps, and those of others.
LEMMA LabelStep == ASSUME Sound PROVE \A q \in Run : LabelFits(q)'
<1> USE DEF worldVars, runVars, actorVars, helperVars, helperOwn, jobVars, fileVars, Others, RunState
<1>a. /\ TypeOK /\ [Next]_vars /\ Fault \subseteq {"kill", "lag", "replan", "gate"}
      /\ pc \in [Run -> Label] /\ tail \in [Run -> TailLabel] /\ job \in [Run -> JobStatus]
      /\ jobPid \in [Run -> BOOLEAN] /\ ok \in [Run -> BOOLEAN] /\ loc \in [Run -> Run \cup {"tree", None}]
  BY DEF Sound, Orderly, TypeOK, ThreadTypes, RunTypes, JobTypes
<1>b. \A q \in Run : LabelFits(q)
  BY DEF Sound, Truthful
<1>1. ASSUME NEW r \in Run, RunChecksGone(r) PROVE \A q \in Run : LabelFits(q)'
  <2>1. UNCHANGED <<pc, tail, jobPid, ok, loc, landed>> /\ \E t \in todo[r] : job' = Reconciled({t.job})
    BY <1>1 DEF RunChecksGone, CheckGone
  <2> QED
    BY <1>a, <1>b, <2>1, ReconcileKeeps, LabelKeeps
<1>2. ASSUME NEW r \in Run, RunFailsGone(r) \/ KillTail(r) PROVE \A q \in Run : LabelFits(q)'
  <2>1. UNCHANGED <<pc, tail, jobPid, job, ok, loc, landed>>
    BY <1>2, <1>a DEF RunFailsGone, KillTail
  <2> QED
    BY <1>a, <1>b, <2>1, LabelKeeps
<1>3. ASSUME NEW r \in Run, Start(r) \/ RunReadsRunning(r) \/ Claim(r) \/ MakeWorktree(r)
             \/ Describe(r) \/ Release(r) \/ Restore(r)
      PROVE \A q \in Run : LabelFits(q)'
  <2>1. UNCHANGED <<tail, jobVars, ok, landed>> /\ \A q \in Run \ {r} : UNCHANGED <<pc[q], loc[q]>>
    BY <1>3, <1>a DEF Start, RunReadsRunning, Claim, MakeWorktree, Describe, Release, Restore, Goto
  <2>2. ~Ended(r) /\ ~Handed(r) /\ ~ok[r]
    BY <1>3, <1>b DEF Start, RunReadsRunning, Claim, MakeWorktree, Describe, Release, Restore, At,
        LabelFits, Ended
  <2>3. pc'[r] \notin {"gate", "own"}
    BY <1>3, <1>a DEF Start, RunReadsRunning, Claim, MakeWorktree, Describe, Release, Restore, Goto
  <2>4. LabelFits(r)'
    BY <1>b, <2>1, <2>2, <2>3 DEF LabelFits, Handed
  <2> QED
    BY <1>a, <1>b, <2>1, <2>4, LabelKeeps
<1>4. ASSUME NEW r \in Run, WriteJob(r) PROVE \A q \in Run : LabelFits(q)'
  <2>1. UNCHANGED <<tail, jobPid, ok, loc, landed>> /\ \A q \in Run \ {r} : UNCHANGED <<pc[q], job[q]>>
    BY <1>4, <1>a DEF WriteJob, Goto
  <2>2. LabelFits(r)'
    BY <1>4, <1>a, <1>b, <2>1 DEF WriteJob, At, Goto, LabelFits, Handed
  <2> QED
    BY <1>a, <1>b, <2>1, <2>2, LabelKeeps
<1>5. ASSUME NEW r \in Run, Popen(r) PROVE \A q \in Run : LabelFits(q)'
  <2>1. UNCHANGED <<jobPid, ok, loc, landed>> /\ \A q \in Run \ {r} : UNCHANGED <<pc[q], job[q], tail[q]>>
    BY <1>5, <1>a DEF Popen, Goto
  <2>2. pc[r] = "popen" /\ ~Handed(r) /\ ~jobPid[r] /\ ~ok[r] /\ job[r] \notin {"running", "cancelled"}
    BY <1>5, <1>b DEF Popen, At, LabelFits, Ended
  <2>3. \/ tail'[r] = "pid" /\ pc'[r] = "gate" /\ UNCHANGED job
        \/ job'[r] = "failed" /\ pc'[r] = "close" /\ UNCHANGED tail
    BY <1>5, <1>a DEF Popen, Goto
  <2>4. LabelFits(r)'
    BY <2>1, <2>2, <2>3 DEF LabelFits, Handed
  <2> QED
    BY <1>a, <1>b, <2>1, <2>4, LabelKeeps
<1>6. ASSUME NEW r \in Run, RecordPid(r) PROVE \A q \in Run : LabelFits(q)'
  <2>1. UNCHANGED <<pc, ok, loc, landed>> /\ \A q \in Run \ {r} : UNCHANGED <<jobPid[q], job[q], tail[q]>>
    BY <1>6, <1>a DEF RecordPid
  <2>2. LabelFits(r)'
    BY <1>6, <1>a, <1>b, <2>1 DEF RecordPid, LabelFits, Handed, Ended
  <2> QED
    BY <1>a, <1>b, <2>1, <2>2, LabelKeeps
<1>7. ASSUME NEW r \in Run, RecordJob(r) PROVE \A q \in Run : LabelFits(q)'
  <2>1. UNCHANGED <<pc, ok, loc, landed, jobVars>> /\ \A q \in Run \ {r} : UNCHANGED tail[q]
    BY <1>7, <1>a DEF RecordJob
  <2>2. LabelFits(r)'
    BY <1>7, <1>a, <1>b, <2>1 DEF RecordJob, LabelFits, Handed, Ended
  <2> QED
    BY <1>a, <1>b, <2>1, <2>2, LabelKeeps
<1>8. ASSUME NEW r \in Run, Gate(r) PROVE \A q \in Run : LabelFits(q)'
  <2>1. /\ UNCHANGED <<tail, jobPid, ok, loc, landed>>
        /\ \A q \in Run \ {r} : UNCHANGED <<pc[q], job[q]>>
    BY <1>8, <1>a DEF Gate, Goto
  <2>2. pc[r] = "gate" /\ pc'[r] \in {"close", "over"} /\ job'[r] = "failed"
    BY <1>8, <1>a DEF Gate, At, Goto
  <2>3. LabelFits(r)'
    BY <1>b, <2>1, <2>2 DEF LabelFits, Handed, Ended
  <2> QED
    BY <1>a, <1>b, <2>1, <2>3, LabelKeeps
<1>9. ASSUME NEW r \in Run, WorkerUnit(r) \/ OwnJob(r) \/ AgentEnds(r) \/ ReadToClose(r)
             \/ CloseTree(r) \/ RecordEnd(r) \/ Outcome(r)
      PROVE \A q \in Run : LabelFits(q)'
  <2>1. /\ UNCHANGED tail /\ landed \subseteq landed'
        /\ \A q \in Run \ {r} : UNCHANGED <<pc[q], jobPid[q], job[q], ok[q], loc[q]>>
    BY <1>9, <1>a DEF WorkerUnit, OwnJob, AgentEnds, ReadToClose, CloseTree, RecordEnd, Outcome, Goto
  <2>2. CASE WorkerUnit(r)
    BY <2>2, <1>a, <1>b, <2>1 DEF WorkerUnit, At, Goto, LabelFits, Handed, Ended
  <2>3. CASE OwnJob(r)
    BY <2>3, <1>a, <1>b, <2>1 DEF OwnJob, At, Goto, LabelFits, Handed, Ended
  <2>4. CASE AgentEnds(r)
    BY <2>4, <1>a, <1>b, <2>1 DEF AgentEnds, At, Goto, LabelFits, Handed, Ended
  <2>5. CASE ReadToClose(r) \/ CloseTree(r) \/ RecordEnd(r)
    BY <2>5, <1>a, <1>b, <2>1 DEF ReadToClose, CloseTree, RecordEnd, At, Goto, LabelFits, Handed, Ended
  <2>6. CASE Outcome(r)
    BY <2>6, <1>a, <1>b, <2>1 DEF Outcome, At, Goto, LabelFits, Handed, Ended
  <2> QED
    BY <1>9, <2>2, <2>3, <2>4, <2>5, <2>6
<1>10. ASSUME NEW r \in Run, Dies(r), ThreadAlive(r) \/ Handed(r), UNCHANGED <<jobPid, tail, landed>>,
              \A q \in Run : job'[q] \in {job[q], "abandoned"}
       PROVE \A q \in Run : LabelFits(q)'
  <2>1. \A q \in Run \ {r} : UNCHANGED <<pc[q], ok[q], loc[q]>>
    BY <1>10, <1>a DEF Dies, Goto
  <2>2. pc'[r] \in {"over", "undone"} /\ ~ok'[r] /\ (Handed(r) => pc'[r] = "over")
    BY <1>10, <1>a, <1>b DEF Dies, Goto, LabelFits
  <2>3. LabelFits(r)'
    BY <1>10, <1>b, <2>2 DEF LabelFits, Handed, Ended
  <2> QED
    BY <1>10, <1>b, <2>1, <2>3, LabelKeeps
<1>11. ASSUME NEW r \in Run, Kill(r) PROVE \A q \in Run : LabelFits(q)'
  BY <1>10, <1>11 DEF Kill
<1>12. ASSUME NEW h \in Helper, Cancel_Kill(h) PROVE \A q \in Run : LabelFits(q)'
  <2>1. PICK r \in Run : /\ job' = Reconciled({r})
                         /\ RunsGoOn \/ (jobPid[r] /\ Dies(r))
    BY <1>12 DEF Cancel_Kill
  <2>2. UNCHANGED <<jobPid, tail, landed>>
    BY <1>12 DEF Cancel_Kill
  <2>3. \A q \in Run : job'[q] \in {job[q], "abandoned"}
    BY <1>a, <2>1, ReconcileKeeps
  <2>4. CASE RunsGoOn
    BY <1>b, <2>2, <2>3, <2>4, LabelKeeps DEF RunsGoOn
  <2>5. CASE jobPid[r] /\ Dies(r)
    BY <1>10, <1>b, <2>2, <2>3, <2>5 DEF LabelFits
  <2> QED
    BY <2>1, <2>4, <2>5
<1>13. ASSUME NEW h \in Helper, Cancel_Mark(h) PROVE \A q \in Run : LabelFits(q)'
  <2>1. Ended(target[h])
    BY <1>13 DEF Cancel_Mark, Sound, Truthful, CancelFits
  <2>2. /\ UNCHANGED <<pc, tail, jobPid, ok, loc, landed>>
        /\ \A q \in Run : job'[q] = job[q] \/ (q = target[h] /\ job'[q] = "cancelled")
    BY <1>13, <1>a DEF Cancel_Mark
  <2> QED
    BY <1>b, <2>1, <2>2 DEF LabelFits, Handed, Ended
<1>14. ASSUME NEW h \in Helper, Status_Check(h) \/ Clean_Check(h) PROVE \A q \in Run : LabelFits(q)'
  <2>1. UNCHANGED <<pc, tail, jobPid, ok, loc, landed>> /\ \E js : job' = Reconciled(js)
    BY <1>14 DEF Status_Check, Clean_Check, CheckGone
  <2> QED
    BY <1>a, <1>b, <2>1, ReconcileKeeps, LabelKeeps
<1>15. ASSUME NEW h \in Helper,
             \/ Status_Read(h) \/ Status_Fail(h) \/ Clean_Start(h) \/ Clean_Read(h) \/ Clean_Fail(h)
             \/ Clean_Remove(h) \/ Clean_Write(h) \/ Clean_End(h)
             \/ Merge_Read(h) \/ Merge_Apply(h) \/ Merge_Write(h) \/ Resolve_Read(h)
             \/ Cancel_Read(h) \/ Cancel_Remove(h) \/ Cancel_Write(h) \/ KillMerge(h)
       PROVE \A q \in Run : LabelFits(q)'
  <2>1. UNCHANGED <<pc, tail, jobPid, job, ok, loc>> /\ landed \subseteq landed'
    BY <1>15 DEF Status_Read, Status_Fail, Clean_Start, Clean_Read, Clean_Fail, Clean_Remove,
        Clean_Write, Clean_End, Merge_Read, Merge_Apply, Merge_Write, Resolve_Read, Cancel_Read,
        Cancel_Remove, Cancel_Write, KillMerge
  <2> QED
    BY <1>b, <2>1, LabelKeeps
<1>16. ASSUME Replan \/ UNCHANGED vars PROVE \A q \in Run : LabelFits(q)'
  <2>1. UNCHANGED <<pc, tail, jobPid, job, ok, loc, landed>>
    BY <1>16 DEF Replan, vars
  <2> QED
    BY <1>b, <2>1, LabelKeeps
<1> QED
  BY <1>a, <1>1, <1>2, <1>3, <1>4, <1>5, <1>6, <1>7, <1>8, <1>9, <1>11, <1>12, <1>13, <1>14, <1>15,
      <1>16 DEF Next, Thread, Tail, StatusStep, CleanStep, MergeStep, CancelStep

\* Nobody else's step touches a run that owns its unit, nor its record, its job or its worktree.
Untouched(r) ==
  /\ UNCHANGED <<pc[r], tail[r], job[r], ok[r], loc[r], prev[r], snap[r], fields[r]>>
  /\ unit'[r] = unit[r] /\ rec'[unit[r]] = rec[unit[r]]
  /\ r \in disk' <=> r \in disk

\* What an owner's record says, in one place.
LEMMA OwnerSays ==
  ASSUME TypeOK, Truthful, NEW r \in Run, Owner(r)
  PROVE  /\ rec[unit[r]].status = "running" /\ rec[unit[r]].pid = r /\ unit[r] \in Unit
         /\ rec[unit[r]].job = IF tail[r] = "done" THEN r ELSE None
         /\ Handed(r) => job[r] \in {"starting", "running"}
         /\ jobPid[r] => WorkerAlive(r)
         /\ ~Through(r) /\ ThreadAlive(r)
         /\ rec[unit[r]].wt \in {None, r}
<1>1. Owns(r) /\ LabelFits(r) /\ RecFits(rec[unit[r]], unit[r]) /\ unit[r] \in Unit
  BY DEF Truthful, TypeOK, RunTypes, Actor
<1>2. ~Through(r) /\ ThreadAlive(r)
  BY DEF Owner, Owning, Through, Ended, ThreadAlive
<1>3. r # None
  BY ConstantsOK
<1> QED
  BY <1>1, <1>2, <1>3 DEF Owns, LabelFits, RecFits, WorkerAlive

\* The same where a step is taken from.
LEMMA OwnerFacts ==
  ASSUME Sound, NEW r \in Run, Owner(r)
  PROVE  /\ rec[unit[r]].status = "running" /\ rec[unit[r]].pid = r /\ unit[r] \in Unit
         /\ rec[unit[r]].job = IF tail[r] = "done" THEN r ELSE None
         /\ Handed(r) => job[r] \in {"starting", "running"}
         /\ jobPid[r] => WorkerAlive(r)
         /\ ~Through(r) /\ ThreadAlive(r)
         /\ rec[unit[r]].wt \in {None, r}
BY OwnerSays DEF Sound

\* Two owners own two units.
LEMMA OwnersDiffer ==
  ASSUME Sound, NEW r \in Run, NEW q \in Run, Owner(r), rec[unit[q]].pid = q, q # r
  PROVE  unit[q] # unit[r]
BY OwnerFacts

\* The job of a run that goes on is not found gone.
LEMMA ReconcileSpares ==
  ASSUME Sound, NEW r \in Run, Owner(r), NEW js, job' = Reconciled(js)
  PROVE  job'[r] = job[r]
BY OwnerFacts, ReconcileKeeps DEF Sound

\* Nor is a run that goes on recorded as failed: who reads the same job and pid again under the
\* lock reads another run's record, or one that is through.
LEMMA FailGoneSpares ==
  ASSUME Sound, NEW r \in Run, Owner(r), NEW a \in Actor, FailGone(a)
  PROVE  rec'[unit[r]] = rec[unit[r]]
<1>1. PICK t \in todo[a] :
        /\ t.gone
        /\ rec' = IF rec[t.unit].status = "running" /\ <<rec[t.unit].job, rec[t.unit].pid>> = <<t.job, t.pid>>
                  THEN [rec EXCEPT ![t.unit].status = "failed"] ELSE rec
  BY DEF FailGone
<1>2. SuspectFits(t) /\ rec \in [Unit -> Record]
  BY DEF Sound, Truthful, TypeOK, FileTypes
<1>3. CASE t.unit = unit[r] /\ t.pid = r /\ t.job = rec[unit[r]].job
  <2>1. t.job = None /\ tail[r] = "done"
    BY <1>1, <1>2, <1>3, OwnerFacts DEF SuspectFits
  <2> QED
    BY <1>3, <2>1, OwnerFacts, ConstantsOK
<1>4. CASE t.unit = unit[r] /\ ~(t.pid = r /\ t.job = rec[unit[r]].job)
  BY <1>1, <1>4, OwnerFacts
<1>5. CASE t.unit # unit[r]
  BY <1>1, <1>2, <1>5, OwnerFacts
<1> QED
  BY <1>3, <1>4, <1>5

\* No claim passes over a running unit, of its plan or an earlier one.
LEMMA ClaimSpares ==
  ASSUME Sound, NEW r \in Run, Owner(r), NEW q \in Run, Claim(q)
  PROVE  rec'[unit[r]] = rec[unit[r]]
<1>1. rec[unit[r]].status = "running" /\ unit[r] \in Unit /\ unit[q] \in Unit /\ rec \in [Unit -> Record]
  BY OwnerFacts DEF Sound, TypeOK, RunTypes, FileTypes, Actor
<1>2. CASE MayClaim(at[q], unit[q])
  <2>1. owner = at[q]
    BY <1>1, <1>2 DEF MayClaim, Held
  <2>2. EntriesFor(at[q]) = rec
    BY <2>1 DEF EntriesFor
  <2>3. unit[q] # unit[r]
    BY <1>1, <1>2, <2>2 DEF MayClaim, MayStart, StatusIn
  <2>4. rec' = [rec EXCEPT ![unit[q]] = [Blank EXCEPT
          !.status = "running", !.inPlace = RunsInPlace(at[q], EntriesFor(at[q]), unit[q]), !.pid = q]]
    BY <1>2, <2>2 DEF Claim
  <2> QED
    BY <1>1, <2>3, <2>4
<1>3. CASE ~MayClaim(at[q], unit[q])
  BY <1>3 DEF Claim
<1> QED
  BY <1>2, <1>3

\* A run's unit is left alone by every step but its own: each action of another in turn.
LEMMA OthersLeave ==
  ASSUME Sound, NEW r \in Run, Owner(r), pc'[r] \in Owning, ~Thread(r), ~Tail(r)
  PROVE  Untouched(r)
<1> USE DEF worldVars, runVars, actorVars, helperVars, helperOwn, jobVars, fileVars, Others, RunState, Actor, HelperKeeps
<1>a. /\ TypeOK /\ [Next]_vars /\ Fault \subseteq {"kill", "lag", "replan", "gate"} /\ ~strayed'
      /\ pc \in [Run -> Label] /\ tail \in [Run -> TailLabel] /\ job \in [Run -> JobStatus]
      /\ ok \in [Run -> BOOLEAN] /\ loc \in [Run -> Run \cup {"tree", None}]
      /\ prev \in [Run -> Record] /\ rec \in [Unit -> Record] /\ disk \subseteq Run
      /\ unit \in [Actor -> Unit] /\ snap \in [Actor -> Record] /\ fields \in [Actor -> Fields]
  BY DEF Sound, Orderly, TypeOK, ThreadTypes, RunTypes, JobTypes, FileTypes, WorldTypes, ActorTypes
<1>c. Run \cap Helper = {} /\ None \notin Run
  BY ConstantsOK
<1>o. unit[r] \in Unit /\ rec[unit[r]].status = "running" /\ rec[unit[r]].pid = r
  BY OwnerFacts
<1>1. ASSUME NEW q \in Run, Start(q) \/ RunReadsRunning(q) \/ WriteJob(q) \/ Popen(q)
             \/ Gate(q) \/ WorkerUnit(q) \/ OwnJob(q) \/ AgentEnds(q) \/ ReadToClose(q) \/ Outcome(q)
             \/ RecordPid(q)
      PROVE Untouched(r)
  <2>1. q # r
    BY <1>1 DEF Start, Owner, Owning, Thread, Tail
  <2>2. UNCHANGED <<rec, disk>>
    BY <1>1 DEF Start, RunReadsRunning, WriteJob, Popen, Gate, WorkerUnit, OwnJob, AgentEnds,
        ReadToClose, Outcome, RecordPid
  <2>3. /\ UNCHANGED <<pc[r], tail[r], job[r], ok[r], loc[r], prev[r], snap[r], fields[r]>>
        /\ unit'[r] = unit[r]
    BY <1>1, <1>a, <2>1 DEF Start, RunReadsRunning, WriteJob, Popen, Gate, WorkerUnit, OwnJob, AgentEnds,
        ReadToClose, Outcome, RecordPid, Goto
  <2> QED
    BY <2>2, <2>3 DEF Untouched
<1>2. ASSUME NEW q \in Run, RunChecksGone(q) PROVE Untouched(r)
  <2>1. PICK js : job' = Reconciled(js)
    BY <1>2 DEF RunChecksGone, CheckGone
  <2> QED
    BY <1>2, <2>1, ReconcileSpares DEF RunChecksGone, Untouched
<1>3. ASSUME NEW q \in Run, RunFailsGone(q) PROVE Untouched(r)
  BY <1>3, FailGoneSpares DEF RunFailsGone, Untouched
<1>4. ASSUME NEW q \in Run, Claim(q) PROVE Untouched(r)
  <2>1. q # r
    BY <1>4 DEF Thread
  <2>2. rec'[unit[r]] = rec[unit[r]]
    BY <1>4, ClaimSpares
  <2> QED
    BY <1>4, <1>a, <2>1, <2>2 DEF Claim, Untouched, Goto
<1>5. ASSUME NEW q \in Run, MakeWorktree(q) PROVE Untouched(r)
  BY <1>5, <1>a DEF MakeWorktree, Untouched, Goto, Thread
<1>6. ASSUME NEW q \in Run, Describe(q) \/ Release(q) \/ Restore(q) \/ CloseTree(q) \/ RecordEnd(q)
      PROVE Untouched(r)
  <2>1. q # r /\ unit[q] \in Unit
    BY <1>6, <1>a DEF Thread
  <2>2. pc[q] \in Owning /\ ((Owner(q) /\ Owns(q)) \/ (Late(q) /\ Lags(q)))
    BY <1>6 DEF Describe, Release, Restore, CloseTree, RecordEnd, At, Owner, Owning, Sound, Truthful
  <2>3. ~CloseTree(q) => unit[q] # unit[r]
    <3>1. CASE RecordEnd(q)
      BY <3>1, <1>a, <2>1, OwnersDiffer DEF RecordEnd, Strays
    <3>2. CASE Describe(q) \/ Release(q) \/ Restore(q)
      <4>1. Owner(q)
        BY <2>2, <3>2 DEF Describe, Release, Restore, At, Late, Closing
      <4> QED
        BY <2>1, <4>1, OwnersDiffer, OwnerFacts
    <3> QED
      BY <1>6, <3>1, <3>2
  <2>4. Release(q) => rec[unit[q]].wt \in {None, q}
    BY <2>2, OwnerFacts DEF Release, At, Late, Closing
  <2>5. CASE Describe(q) \/ Restore(q) \/ RecordEnd(q)
    <3>1. rec'[unit[r]] = rec[unit[r]]
      BY <2>5, <1>a, <1>o, <2>1, <2>3 DEF Describe, Restore, RecordEnd, CloseTree, At
    <3>2. UNCHANGED <<pc[r], tail[r], job[r], ok[r], loc[r], prev[r], snap[r], fields[r], disk>> /\ unit'[r] = unit[r]
      BY <2>5, <1>a, <2>1 DEF Describe, Restore, RecordEnd, Goto
    <3> QED
      BY <3>1, <3>2 DEF Untouched
  <2>6. CASE Release(q)
    BY <2>6, <1>a, <1>c, <2>1, <2>4 DEF Release, Goto, Untouched
  <2>7. CASE CloseTree(q)
    <3>1. snap[q].wt \in {None, q}
      <4>1. CASE Owner(q)
        BY <2>2, <2>7, <4>1, OwnerFacts DEF CloseTree, At, Owns, Owner
      <4>2. CASE Late(q) /\ Lags(q)
        BY <2>7, <4>2 DEF CloseTree, At, Lags
      <4> QED
        BY <2>2, <4>1, <4>2
    <3>2. disk' = disk \/ disk' = disk \ {snap[q].wt}
      BY <2>7 DEF CloseTree
    <3>3. UNCHANGED <<pc[r], tail[r], job[r], ok[r], loc[r], prev[r], snap[r], fields[r], rec>> /\ unit'[r] = unit[r]
      BY <2>7, <1>a, <2>1 DEF CloseTree, Goto
    <3> QED
      BY <1>c, <2>1, <3>1, <3>2, <3>3 DEF Untouched
  <2> QED
    BY <1>6, <2>5, <2>6, <2>7
<1>7. ASSUME NEW q \in Run, RecordJob(q) PROVE Untouched(r)
  <2>1. q # r /\ unit[q] \in Unit /\ rec[unit[q]].pid = q
    BY <1>7, <1>a DEF Tail, RecordJob, Strays
  <2>2. unit[q] # unit[r]
    BY <2>1, OwnersDiffer
  <2> QED
    BY <1>7, <1>a, <1>o, <2>1, <2>2 DEF RecordJob, Untouched
<1>8. ASSUME NEW q \in Run, KillTail(q) PROVE FALSE
  BY <1>8, <1>a DEF KillTail
<1>9. ASSUME NEW q \in Run, Dies(q), UNCHANGED <<tail, rec, disk, unit>>, job'[r] = job[r]
      PROVE Untouched(r)
  <2>1. q # r
    BY <1>9, <1>a DEF Dies, Goto, Owner, Owning
  <2> QED
    BY <1>9, <1>a, <2>1 DEF Dies, Goto, Untouched
<1>10. ASSUME NEW q \in Run, Kill(q) PROVE Untouched(r)
  <2>1. q # r
    BY <1>10, <1>a DEF Kill, Dies, Goto, Owner, Owning
  <2> QED
    BY <1>10, <1>a, <2>1 DEF Kill, Dies, Goto, Untouched
<1>11. ASSUME NEW h \in Helper, Status_Check(h) \/ Clean_Check(h) PROVE Untouched(r)
  <2>1. PICK js : job' = Reconciled(js)
    BY <1>11 DEF Status_Check, Clean_Check, CheckGone
  <2>2. UNCHANGED <<pc, tail, ok, loc, prev, snap, fields, unit, rec, disk>>
    BY <1>11 DEF Status_Check, Clean_Check
  <2> QED
    BY <2>1, <2>2, ReconcileSpares DEF Untouched
<1>12. ASSUME NEW h \in Helper, Status_Fail(h) \/ Clean_Fail(h) PROVE Untouched(r)
  <2>1. rec'[unit[r]] = rec[unit[r]]
    BY <1>12, FailGoneSpares DEF Status_Fail, Clean_Fail
  <2>2. UNCHANGED <<pc, tail, ok, loc, prev, job, disk>>
    BY <1>12 DEF Status_Fail, Clean_Fail
  <2>3. UNCHANGED <<snap[r], fields[r]>> /\ unit'[r] = unit[r]
    BY <1>12, <1>a, <1>c DEF Status_Fail, Clean_Fail, Done
  <2> QED
    BY <2>1, <2>2, <2>3 DEF Untouched
<1>13. ASSUME NEW h \in Helper,
             \/ Status_Read(h) \/ Clean_Start(h) \/ Clean_Read(h) \/ Clean_End(h)
             \/ Merge_Read(h) \/ Merge_Apply(h) \/ Resolve_Read(h) \/ Cancel_Read(h) \/ KillMerge(h)
       PROVE Untouched(r)
  <2>1. UNCHANGED <<pc, tail, ok, loc, prev, job, disk, rec>>
    BY <1>13 DEF Status_Read, Clean_Start, Clean_Read, Clean_End, Merge_Read, Merge_Apply,
        Resolve_Read, Cancel_Read, KillMerge
  <2>2. UNCHANGED <<snap[r], fields[r]>> /\ unit'[r] = unit[r]
    BY <1>13, <1>a, <1>c DEF Status_Read, Clean_Start, Clean_Read, Clean_End, Merge_Read, Merge_Apply,
        Resolve_Read, Cancel_Read, KillMerge, Done
  <2> QED
    BY <2>1, <2>2 DEF Untouched
<1>14. ASSUME NEW h \in Helper, Clean_Remove(h) \/ Cancel_Remove(h) PROVE Untouched(r)
  <2>1. RecFits(snap[h], unit[h]) /\ Through(snap[h].pid) /\ snap[h].pid # None
    BY <1>14, <1>c DEF Clean_Remove, Cancel_Remove, HGoto, Sound, Truthful, CleanFits, CancelFits, Past,
        Through
  <2>2. snap[h].wt # r
    BY <2>1, <1>c, OwnerFacts DEF RecFits
  <2>3. r \in disk' <=> r \in disk
    BY <1>14, <2>2 DEF Clean_Remove, Cancel_Remove
  <2>4. UNCHANGED <<pc, tail, ok, loc, prev, job, rec, unit, snap>> /\ UNCHANGED fields[r]
    BY <1>14, <1>a, <1>c DEF Clean_Remove, Cancel_Remove
  <2> QED
    BY <2>3, <2>4 DEF Untouched
<1>15. ASSUME NEW h \in Helper, Clean_Write(h) \/ Merge_Write(h) \/ Cancel_Write(h) PROVE Untouched(r)
  <2>0. ~Through(r)
    BY OwnerFacts
  <2>1. rec[unit[h]].pid # r
    <3>1. CASE Clean_Write(h)
      <4>1. rec[unit[h]].pid = snap[h].pid
        BY <1>a, <3>1 DEF Clean_Write, Strays
      <4>2. Through(snap[h].pid)
        BY <3>1 DEF Clean_Write, HGoto, Sound, Truthful, CleanFits, Past
      <4> QED
        BY <2>0, <4>1, <4>2
    <3>2. CASE Merge_Write(h)
      <4>1. rec[unit[h]].pid = snap[h].pid
        BY <1>a, <3>2 DEF Merge_Write, Strays
      <4>2. Through(snap[h].pid)
        BY <3>2 DEF Merge_Write, Sound, Truthful, MergeFits, Past, Through
      <4> QED
        BY <2>0, <4>1, <4>2
    <3>3. CASE Cancel_Write(h)
      <4>1. rec[unit[h]].pid = target[h]
        BY <1>a, <3>3 DEF Cancel_Write, Strays
      <4>2. Through(target[h])
        BY <3>3 DEF Cancel_Write, Sound, Truthful, CancelFits, Through
      <4> QED
        BY <2>0, <4>1, <4>2
    <3> QED
      BY <1>15, <3>1, <3>2, <3>3
  <2>2. unit[h] # unit[r] /\ unit[h] \in Unit
    BY <1>a, <1>o, <2>1
  <2>3. rec'[unit[r]] = rec[unit[r]]
    BY <1>15, <1>a, <1>o, <2>2 DEF Clean_Write, Merge_Write, Cancel_Write
  <2>4. UNCHANGED <<pc, tail, ok, loc, prev, job, disk>>
    BY <1>15 DEF Clean_Write, Merge_Write, Cancel_Write
  <2>5. UNCHANGED <<snap[r], fields[r]>> /\ unit'[r] = unit[r]
    BY <1>15, <1>a, <1>c DEF Clean_Write, Merge_Write, Cancel_Write, Done
  <2> QED
    BY <2>3, <2>4, <2>5 DEF Untouched
<1>16. ASSUME NEW h \in Helper, Cancel_Kill(h) PROVE Untouched(r)
  <2>1. PICK q \in Run : /\ job' = Reconciled({q}) /\ unit' = [unit EXCEPT ![h] = unit[q]]
                         /\ RunsGoOn \/ (jobPid[q] /\ Dies(q))
    BY <1>16 DEF Cancel_Kill
  <2>2. UNCHANGED <<tail, rec, disk>> /\ job'[r] = job[r] /\ unit'[r] = unit[r]
    BY <1>16, <1>a, <1>c, <2>1, ReconcileSpares DEF Cancel_Kill
  <2>3. CASE RunsGoOn
    BY <2>2, <2>3 DEF RunsGoOn, Untouched
  <2>4. CASE Dies(q)
    <3>1. q # r
      BY <2>4, <1>a DEF Dies, Goto, Owner, Owning
    <3> QED
      BY <1>a, <2>2, <2>4, <3>1 DEF Dies, Goto, Untouched
  <2> QED
    BY <2>1, <2>3, <2>4
<1>17. ASSUME NEW h \in Helper, Cancel_Mark(h) PROVE Untouched(r)
  <2>1. target[h] # r
    BY <1>17, OwnerFacts DEF Cancel_Mark, Sound, Truthful, CancelFits, Through
  <2>2. UNCHANGED <<pc, tail, ok, loc, prev, rec, disk, job[r]>>
    BY <1>17, <1>a, <2>1 DEF Cancel_Mark
  <2>3. UNCHANGED <<snap[r], fields[r]>> /\ unit'[r] = unit[r]
    BY <1>17, <1>a, <1>c DEF Cancel_Mark, Done
  <2> QED
    BY <2>2, <2>3 DEF Untouched
<1>18. ASSUME Replan \/ UNCHANGED vars PROVE Untouched(r)
  <2>1. UNCHANGED <<pc, tail, job, ok, loc, prev, snap, fields, unit, rec, disk>>
    BY <1>18 DEF Replan, vars
  <2> QED
    BY <2>1 DEF Untouched
<1> QED
  BY <1>a, <1>1, <1>2, <1>3, <1>4, <1>5, <1>6, <1>7, <1>8, <1>10, <1>11, <1>12, <1>13, <1>14, <1>15,
      <1>16, <1>17, <1>18 DEF Next, Thread, Tail, StatusStep, CleanStep, MergeStep, CancelStep

\* What a step does to the record of a unit.  It goes on being the same run's ...
Moves(u) ==
  LET x == rec[u]
      y == rec'[u]
  IN
  /\ x.pid # None /\ y.pid = x.pid /\ y.inPlace = x.inPlace
  /\ y.job = x.job \/ (y.job = x.pid /\ tail'[x.pid] = "done")
  /\ y.wt = x.wt \/ (y.wt \in {None, x.pid} /\ x.wt \notin disk')
  /\ \/ y.status = x.status
     \/ /\ x.status = "running" /\ ~Through(x.pid) /\ pc'[x.pid] = "outcome"
        /\ y.status \in {"failed", "succeeded", "merged"} /\ (y.status = "merged" => x.pid \in landed')
     \/ /\ x.status \in {"running", "failed", "cancelled"} /\ Through(x.pid)
        /\ y.status \in {"failed", "cancelled"}
     \/ /\ x.status \in {"succeeded", "conflicted"} /\ x.pid \in landed
        /\ y.status \in {"merged", "conflicted"} /\ mergeLock' = None

\* ... or a run claims the unit, or a claim for another plan forgets it, ...
Free(u) == rec[u].status # "running" /\ rec[u].wt = None
Claimable(u) == owner' = owner => rec[u].status \in {"pending", "failed", "cancelled"}
StartsOn(u, r) ==
  /\ unit[r] = u /\ pc[r] = "claim" /\ Free(u) /\ Claimable(u) /\ pc'[r] \in Claiming
  /\ rec'[u].pid = r /\ rec'[u].status = "running" /\ rec'[u].job = None /\ rec'[u].wt = None
  /\ owner' \in Plan /\ \A d \in DependsOn[owner'][u] : rec'[d].status = "merged"
Forgets(u) == owner' # owner /\ Free(u) /\ rec'[u] = Blank

\* ... or its claim is undone.
Undoes(u, r) == unit[r] = u /\ pc[r] = "restore" /\ pc'[r] = "undone" /\ rec'[u] = prev[r]

Turns(u) ==
  \/ rec'[u] = rec[u]
  \/ Moves(u)
  \/ \E r \in Run : StartsOn(u, r)
  \/ Forgets(u)
  \/ \E r \in Run : Undoes(u, r)

\* A run that is recorded as failed is through.
LEMMA FailGoneTurns ==
  ASSUME Sound, NEW a \in Actor, FailGone(a), UNCHANGED disk, NEW u \in Unit
  PROVE  rec'[u] = rec[u] \/ (Moves(u) /\ \E t \in todo[a] : t.unit = u /\ t.pid = rec[u].pid /\ Through(t.pid))
<1>1. PICK t \in todo[a] :
        /\ t.gone
        /\ rec' = IF rec[t.unit].status = "running" /\ <<rec[t.unit].job, rec[t.unit].pid>> = <<t.job, t.pid>>
                  THEN [rec EXCEPT ![t.unit].status = "failed"] ELSE rec
  BY DEF FailGone
<1>2. SuspectFits(t) /\ rec \in [Unit -> Record]
  BY DEF Sound, Truthful, TypeOK, FileTypes
<1>3. CASE u = t.unit /\ rec[u].status = "running" /\ rec[u].job = t.job /\ rec[u].pid = t.pid
  <2>1. Through(t.pid)
    <3>1. t.pid \in Run /\ Claimed(t.pid) /\ unit[t.pid] = u
      BY <1>2, <1>3 DEF SuspectFits
    <3>2. ASSUME Owner(t.pid) PROVE FALSE
      <4>1. t.job = None /\ tail[t.pid] = "done"
        BY <1>1, <1>2, <3>1, <3>2, OwnerFacts DEF SuspectFits
      <4>2. rec[u].job = t.pid
        BY <3>1, <3>2, <4>1, OwnerFacts
      <4> QED
        BY <1>3, <3>1, <4>1, <4>2, ConstantsOK
    <3> QED
      BY <3>1, <3>2 DEF Claimed
  <2>2. rec'[u] = [rec[u] EXCEPT !.status = "failed"] /\ rec[u] \in Record
    BY <1>1, <1>2, <1>3
  <2>3. rec[u].pid # None
    BY <1>2, <1>3, ConstantsOK DEF SuspectFits
  <2> QED
    BY <1>3, <2>1, <2>2, <2>3 DEF Moves, Record
<1>4. CASE ~(u = t.unit /\ rec[u].status = "running" /\ rec[u].job = t.job /\ rec[u].pid = t.pid)
  BY <1>1, <1>2, <1>4
<1> QED
  BY <1>3, <1>4

\* The records a claim leaves.
LEMMA ClaimTurns ==
  ASSUME Sound, NEW r \in Run, Claim(r), NEW u \in Unit
  PROVE  rec'[u] = rec[u] \/ StartsOn(u, r) \/ Forgets(u)
<1>1. rec \in [Unit -> Record] /\ unit[r] \in Unit /\ pc \in [Run -> Label] /\ Blank \in Record
  BY BlankType DEF Sound, TypeOK, FileTypes, RunTypes, ThreadTypes, Actor
<1>2. CASE MayClaim(at[r], unit[r])
  <2>1. /\ rec' = [EntriesFor(at[r]) EXCEPT ![unit[r]] = [Blank EXCEPT
             !.status = "running", !.inPlace = RunsInPlace(at[r], EntriesFor(at[r]), unit[r]), !.pid = r]]
        /\ owner' = at[r] /\ pc[r] = "claim" /\ pc'[r] \in Claiming
    BY <1>1, <1>2 DEF Claim, At, Goto, Claiming
  <2>2. EntriesFor(at[r]) = (IF owner = at[r] THEN rec ELSE [v \in Unit |-> Blank])
    BY DEF EntriesFor
  <2>3. owner # at[r] => Free(u)
    BY <1>2 DEF MayClaim, Held, Free
  <2>4. CASE u = unit[r]
    <3>1. EntriesFor(at[r])[u].status \in {"pending", "failed", "cancelled"} /\ EntriesFor(at[r])[u].wt = None
      BY <1>2, <2>4 DEF MayClaim, MayStart, StatusIn
    <3>2. owner = at[r] => Free(u)
      BY <2>2, <3>1 DEF Free
    <3>3. Claimable(u)
      BY <2>1, <2>2, <3>1 DEF Claimable
    <3>4. rec'[u].pid = r /\ rec'[u].status = "running" /\ rec'[u].job = None /\ rec'[u].wt = None
      BY <1>1, <2>1, <2>2, <2>4 DEF Blank
    <3>5. at[r] \in Plan
      BY <2>1 DEF Sound, Truthful, PlanRead
    <3>6. ASSUME NEW d \in DependsOn[owner'][u] PROVE rec'[d].status = "merged"
      <4>1. d \in Unit /\ EntriesFor(at[r])[d].status = "merged"
        BY <1>2, <2>1, <2>4, <3>5, ConstantsOK DEF MayClaim, MayStart, StatusIn
      <4>2. d # u
        BY <3>1, <4>1
      <4> QED
        BY <1>1, <2>1, <2>2, <2>4, <4>1, <4>2
    <3> QED
      BY <2>1, <2>3, <2>4, <3>2, <3>3, <3>4, <3>5, <3>6 DEF StartsOn
  <2>5. CASE u # unit[r]
    <3>1. rec'[u] = EntriesFor(at[r])[u]
      BY <1>1, <2>1, <2>2, <2>5
    <3> QED
      BY <2>1, <2>2, <2>3, <3>1 DEF Forgets
  <2> QED
    BY <2>4, <2>5
<1>3. CASE ~MayClaim(at[r], unit[r])
  BY <1>3 DEF Claim
<1> QED
  BY <1>2, <1>3

\* What a run that was taken for gone writes at its end, if into its own record still.
LEMMA LateTurns ==
  ASSUME Sound, NEW r \in Run, RecordEnd(r), Late(r)
  PROVE  Moves(unit[r])
<1> DEFINE x == rec[unit[r]]
           y == rec'[unit[r]]
<1>1. /\ rec \in [Unit -> Record] /\ unit[r] \in Unit /\ snap[r] \in Record /\ fields[r] \in Fields
      /\ None \notin disk /\ r # None
  BY ConstantsOK DEF Sound, TypeOK, FileTypes, RunTypes, ActorTypes, WorldTypes, Actor
<1>2. y = Update(x, fields[r], snap[r]) /\ x.pid = r /\ pc[r] = "record" /\ disk' = disk
  BY <1>1 DEF RecordEnd, At, Strays, Sound, worldVars
<1>3. /\ fields[r].status = "failed" /\ (fields[r].worktree = "gone" => r \notin disk)
      /\ fields[r].worktree = "stays" => snap[r].wt = r
  BY <1>2 DEF Sound, Truthful, Lags
<1>4. /\ x \in Record /\ x.wt \in {None, r} /\ Through(r)
      /\ x.status \in {"running", "failed", "cancelled"}
  <2>1. RecFits(x, unit[r]) /\ x \in Record
    BY <1>1 DEF Sound, Truthful
  <2>2. ~Ended(r) /\ Through(r)
    BY <1>2 DEF Ended, Through
  <2> QED
    BY <1>1, <1>2, <2>1, <2>2 DEF RecFits, Record, Status
<1>5. y.pid = x.pid /\ y.inPlace = x.inPlace /\ y.job = x.job /\ y.status = "failed"
  BY <1>2, <1>3, <1>4 DEF Update, Record
<1>6. y.wt = x.wt \/ (y.wt = None /\ fields[r].worktree = "gone") \/ y.wt = r
  BY <1>1, <1>2, <1>3, <1>4 DEF Update, Record, Fields
<1> HIDE DEF x, y
<1>7. y.wt = x.wt \/ (y.wt \in {None, x.pid} /\ x.wt \notin disk')
  BY <1>1, <1>2, <1>3, <1>4, <1>6
<1> QED
  BY <1>1, <1>2, <1>4, <1>5, <1>7 DEF Moves, x, y

\* What any run writes into its own record at its end.
LEMMA RecordEndTurns ==
  ASSUME Sound, NEW r \in Run, RecordEnd(r), NEW u \in Unit
  PROVE  rec'[u] = rec[u] \/ Moves(u)
<1>1. /\ rec \in [Unit -> Record] /\ unit[r] \in Unit /\ pc \in [Run -> Label]
      /\ snap[r] \in Record /\ fields[r] \in Fields /\ disk \subseteq Run
  BY DEF Sound, TypeOK, FileTypes, RunTypes, ThreadTypes, ActorTypes, WorldTypes, Actor
<1>2. /\ rec' = [rec EXCEPT ![unit[r]] = Update(rec[unit[r]], fields[r], snap[r])]
      /\ pc[r] = "record" /\ pc'[r] = "outcome" /\ UNCHANGED <<disk, landed, tail>>
  BY <1>1 DEF RecordEnd, At, Goto, worldVars
<1>3. Owner(r) \/ Late(r)
  BY <1>2 DEF Owner, Owning
<1>4. CASE u = unit[r] /\ Owner(r)
  <2>0. Owns(r)
    BY <1>4 DEF Sound, Truthful
  <2> DEFINE x == rec[u]
             y == rec'[u]
  <2>1. x \in Record /\ x.pid = r /\ x.status = "running" /\ x.wt \in {None, r} /\ r # None /\ ~Through(r)
    BY <1>1, <1>4, OwnerFacts, ConstantsOK
  <2>2. /\ fields[r].status \in {"failed", "merged", "succeeded"}
        /\ fields[r].status = "merged" => r \in landed
        /\ fields[r].worktree = "gone" => r \notin disk
        /\ snap[r].wt = x.wt
    BY <1>2, <1>4, <2>0 DEF Owns
  <2>3. y = Update(x, fields[r], snap[r])
    BY <1>1, <1>2, <1>4
  <2>4. y.pid = x.pid /\ y.inPlace = x.inPlace /\ y.job = x.job
    BY <2>1, <2>3 DEF Update, Record
  <2>5. y.status = fields[r].status
    BY <2>1, <2>2, <2>3 DEF Update, Record
  <2>6. y.wt = x.wt \/ (y.wt = None /\ fields[r].worktree = "gone")
    BY <1>1, <2>1, <2>2, <2>3 DEF Update, Record, Fields
  <2>7. None \notin disk
    BY <1>1, ConstantsOK
  <2> HIDE DEF x, y
  <2>8. y.wt = x.wt \/ (y.wt \in {None, x.pid} /\ x.wt \notin disk')
    BY <1>2, <2>1, <2>2, <2>6, <2>7
  <2>9. /\ x.pid # None /\ y.pid = x.pid /\ y.inPlace = x.inPlace /\ y.job = x.job
        /\ x.status = "running" /\ ~Through(x.pid) /\ pc'[x.pid] = "outcome"
        /\ y.status \in {"failed", "succeeded", "merged"} /\ (y.status = "merged" => x.pid \in landed')
    BY <1>2, <2>1, <2>2, <2>4, <2>5
  <2> QED
    BY <2>8, <2>9 DEF Moves, x, y
<1>5. CASE u # unit[r]
  BY <1>1, <1>2, <1>5
<1> QED
  BY <1>3, <1>4, <1>5, LateTurns

\* What others write into the record of a run that is through.
LEMMA CleanTurns ==
  ASSUME Sound, NEW h \in Helper, Clean_Write(h), NEW u \in Unit
  PROVE  rec'[u] = rec[u] \/ Moves(u)
<1>1. rec \in [Unit -> Record] /\ unit[h] \in Unit /\ disk \subseteq Run /\ None \notin disk
  BY ConstantsOK DEF Sound, TypeOK, FileTypes, RunTypes, WorldTypes, Actor
<1>2. rec' = [rec EXCEPT ![unit[h]].wt = None] /\ rec[unit[h]].pid = snap[h].pid /\ disk' = disk
  BY DEF Clean_Write, Strays, Sound, worldVars
<1>3. Past(snap[h], unit[h]) /\ snap[h].wt # None /\ snap[h].wt \notin disk
  BY DEF Clean_Write, HGoto, Sound, Truthful, CleanFits
<1>4. RecFits(rec[unit[h]], unit[h])
  BY <1>1 DEF Sound, Truthful
<1>5. snap[h].wt = snap[h].pid /\ snap[h].pid # None
  BY <1>3 DEF Past, RecFits
<1>6. rec[unit[h]].wt \notin disk
  BY <1>1, <1>2, <1>3, <1>4, <1>5 DEF RecFits
<1>7. CASE u = unit[h]
  <2>1. rec'[u] = [rec[u] EXCEPT !.wt = None] /\ rec[u] \in Record
    BY <1>1, <1>2, <1>7
  <2> QED
    BY <1>2, <1>5, <1>6, <1>7, <2>1 DEF Moves, Record
<1>8. CASE u # unit[h]
  BY <1>1, <1>2, <1>8
<1> QED
  BY <1>7, <1>8

\* What a merge writes goes into the record it read.
LEMMA MergeTurns ==
  ASSUME Sound, NEW h \in Helper, Merge_Write(h), NEW u \in Unit
  PROVE  rec'[u] = rec[u] \/ Moves(u)
<1>1. rec \in [Unit -> Record] /\ unit[h] \in Unit
  BY DEF Sound, TypeOK, FileTypes, RunTypes, Actor
<1>2. /\ rec' = [rec EXCEPT ![unit[h]].status = hpc[h]] /\ rec[unit[h]].pid = snap[h].pid
      /\ hpc[h] \in {"merged", "conflicted"} /\ mergeLock' = None
  BY DEF Merge_Write, Strays, Sound
<1>3. MergeFits(h)
  BY DEF Sound, Truthful
<1>4. rec[unit[h]].status \in {"succeeded", "conflicted"} /\ snap[h].pid \in landed
  BY <1>2, <1>3 DEF MergeFits
<1>5. snap[h].pid # None
  BY <1>2, <1>3 DEF MergeFits, Past
<1>7. CASE u = unit[h]
  <2>1. rec'[u] = [rec[u] EXCEPT !.status = hpc[h]] /\ rec[u] \in Record
    BY <1>1, <1>2, <1>7
  <2> QED
    BY <1>2, <1>4, <1>5, <1>7, <2>1 DEF Moves, Record
<1>8. CASE u # unit[h]
  BY <1>1, <1>2, <1>8
<1> QED
  BY <1>7, <1>8

\* A cancel writes into the record of the run it was aimed at, which is through.
LEMMA CancelTurns ==
  ASSUME Sound, NEW h \in Helper, Cancel_Write(h), NEW u \in Unit
  PROVE  rec'[u] = rec[u] \/ Moves(u)
<1>1. /\ rec \in [Unit -> Record] /\ unit[h] \in Unit /\ disk \subseteq Run /\ None \notin disk
      /\ fields[h] \in Fields
  BY ConstantsOK DEF Sound, TypeOK, FileTypes, RunTypes, WorldTypes, ActorTypes, Actor
<1>2. /\ rec' = [rec EXCEPT ![unit[h]] = Update(rec[unit[h]], fields[h], snap[h])]
      /\ rec[unit[h]].pid = target[h] /\ disk' = disk
  BY DEF Cancel_Write, Strays, Sound, worldVars
<1>3. /\ target[h] \in Run /\ Ended(target[h]) /\ RecFits(snap[h], unit[h]) /\ snap[h].pid = target[h]
      /\ fields[h].status \in {"cancelled", "same"}
      /\ fields[h].worktree = "gone" => snap[h].wt \notin disk
      /\ fields[h].worktree # "same" => snap[h].wt # None
      /\ rec[unit[h]].status \in {"running", "failed", "cancelled"}
  BY <1>2 DEF Cancel_Write, Sound, Truthful, CancelFits
<1>4. RecFits(rec[unit[h]], unit[h])
  BY <1>1 DEF Sound, Truthful
<1>5. target[h] # None
  BY <1>3, ConstantsOK
<1>6. fields[h].worktree # "same" => snap[h].wt = target[h]
  BY <1>3, <1>5 DEF RecFits
<1>7. CASE u = unit[h]
  <2> DEFINE x == rec[u]
             y == rec'[u]
             p == target[h]
  <2>1. x \in Record /\ x.pid = p /\ x.wt \in {None, p}
    BY <1>1, <1>2, <1>4, <1>5, <1>7 DEF RecFits
  <2>2. y = Update(x, fields[h], snap[h])
    BY <1>1, <1>2, <1>7
  <2>3. y.pid = x.pid /\ y.inPlace = x.inPlace /\ y.job = x.job
    BY <2>1, <2>2 DEF Update, Record
  <2>4. y.status = IF fields[h].status = "same" THEN x.status ELSE "cancelled"
    BY <1>3, <2>1, <2>2 DEF Update, Record
  <2>5. y.wt = x.wt \/ (y.wt = None /\ fields[h].worktree = "gone") \/ (y.wt = p /\ x.wt = None)
    BY <1>1, <1>6, <2>1, <2>2 DEF Update, Record, Fields
  <2>6. /\ Through(p) /\ x.status \in {"running", "failed", "cancelled"} /\ x.pid # None
        /\ fields[h].worktree = "gone" => x.wt \notin disk'
        /\ None \notin disk'
    BY <1>1, <1>2, <1>3, <1>5, <1>6, <1>7, <2>1 DEF Through
  <2> HIDE DEF x, y, p
  <2>7. y.wt = x.wt \/ (y.wt \in {None, x.pid} /\ x.wt \notin disk')
    BY <2>1, <2>5, <2>6
  <2>8. y.status = x.status \/ y.status \in {"failed", "cancelled"}
    BY <2>4
  <2> QED
    BY <2>1, <2>3, <2>6, <2>7, <2>8 DEF Moves, x, y
<1>8. CASE u # unit[h]
  BY <1>1, <1>2, <1>8
<1> QED
  BY <1>7, <1>8

\* What a run's command writes into its record before its agent works.
LEMMA CommandTurns ==
  ASSUME Sound, NEW r \in Run, Describe(r) \/ RecordJob(r), NEW u \in Unit
  PROVE  rec'[u] = rec[u] \/ Moves(u)
<1>1. /\ rec \in [Unit -> Record] /\ unit[r] \in Unit /\ disk \subseteq Run /\ None \notin disk /\ r # None
      /\ tail \in [Run -> TailLabel]
  BY ConstantsOK DEF Sound, TypeOK, FileTypes, RunTypes, WorldTypes, ThreadTypes, Actor
<1>2. CASE Describe(r)
  <2>1. Owner(r) /\ Owns(r) /\ pc[r] = "describe"
    BY <1>2 DEF Describe, At, Owner, Owning, Late, Closing, Sound, Truthful
  <2>2. rec[unit[r]].pid = r /\ rec[unit[r]].wt = None
    BY <2>1 DEF Owns
  <2>3. UNCHANGED <<disk, tail>> /\ rec' = [rec EXCEPT ![unit[r]].wt = IF loc[r] = "tree" THEN None ELSE r]
    BY <1>2 DEF Describe, worldVars
  <2>4. CASE u = unit[r]
    <3>1. PICK w \in {None, r} : rec'[u] = [rec[u] EXCEPT !.wt = w] /\ rec[u] \in Record
      BY <1>1, <2>3, <2>4
    <3> QED
      BY <1>1, <2>2, <2>3, <2>4, <3>1 DEF Moves, Record
  <2>5. CASE u # unit[r]
    BY <1>1, <2>3, <2>5
  <2> QED
    BY <2>4, <2>5
<1>3. CASE RecordJob(r)
  <2>1. /\ rec[unit[r]].pid = r /\ rec' = [rec EXCEPT ![unit[r]].job = r] /\ tail'[r] = "done"
        /\ UNCHANGED disk
    BY <1>1, <1>3 DEF RecordJob, Strays, Sound, worldVars
  <2>2. CASE u = unit[r]
    <3>1. rec'[u] = [rec[u] EXCEPT !.job = r] /\ rec[u] \in Record
      BY <1>1, <2>1, <2>2
    <3> QED
      BY <1>1, <2>1, <2>2, <3>1 DEF Moves, Record
  <2>3. CASE u # unit[r]
    BY <1>1, <2>1, <2>3
  <2> QED
    BY <2>2, <2>3
<1> QED
  BY <1>2, <1>3

\* An undone claim puts back the record it replaced.
LEMMA RestoreTurns ==
  ASSUME Sound, NEW r \in Run, Restore(r), NEW u \in Unit
  PROVE  rec'[u] = rec[u] \/ Undoes(u, r)
BY DEF Restore, At, Goto, Undoes, Sound, TypeOK, FileTypes, ThreadTypes

\* Every step does one of these to every record.
LEMMA RecordStep == ASSUME Sound PROVE \A u \in Unit : Turns(u)
<1> USE DEF fileVars, worldVars, Actor
<1>a. [Next]_vars /\ Fault \subseteq {"kill", "lag", "replan", "gate"}
  BY DEF Sound, Orderly
<1> SUFFICES ASSUME NEW u \in Unit PROVE rec'[u] = rec[u] \/ Turns(u)
  BY DEF Turns
<1>1. ASSUME NEW r \in Run,
             \/ Start(r) \/ RunReadsRunning(r) \/ RunChecksGone(r) \/ MakeWorktree(r) \/ Release(r)
             \/ WriteJob(r) \/ Popen(r) \/ Gate(r) \/ WorkerUnit(r) \/ OwnJob(r) \/ AgentEnds(r)
             \/ ReadToClose(r) \/ CloseTree(r) \/ Outcome(r) \/ RecordPid(r) \/ Kill(r) \/ KillTail(r)
      PROVE rec' = rec
  BY <1>1 DEF Start, RunReadsRunning, RunChecksGone, MakeWorktree, Release, WriteJob, Popen, Gate,
      WorkerUnit, OwnJob, AgentEnds, ReadToClose, CloseTree, Outcome, RecordPid, Kill, KillTail
<1>2. ASSUME NEW r \in Run, RunFailsGone(r) PROVE Turns(u)
  BY <1>2, FailGoneTurns DEF RunFailsGone, Turns
<1>3. ASSUME NEW r \in Run, Claim(r) PROVE Turns(u)
  BY <1>3, ClaimTurns DEF Turns
<1>4. ASSUME NEW r \in Run, Describe(r) \/ RecordJob(r) PROVE Turns(u)
  BY <1>4, CommandTurns DEF Turns
<1>5. ASSUME NEW r \in Run, Restore(r) PROVE Turns(u)
  BY <1>5, RestoreTurns DEF Turns
<1>6. ASSUME NEW r \in Run, RecordEnd(r) PROVE Turns(u)
  BY <1>6, RecordEndTurns DEF Turns
<1>7. ASSUME NEW h \in Helper,
             \/ Status_Read(h) \/ Status_Check(h) \/ Clean_Start(h) \/ Clean_Read(h) \/ Clean_Check(h)
             \/ Clean_Remove(h) \/ Clean_End(h) \/ Merge_Read(h) \/ Merge_Apply(h) \/ Resolve_Read(h)
             \/ Cancel_Kill(h) \/ Cancel_Mark(h) \/ Cancel_Read(h) \/ Cancel_Remove(h) \/ KillMerge(h)
      PROVE rec' = rec
  BY <1>7 DEF Status_Read, Status_Check, Clean_Start, Clean_Read, Clean_Check, Clean_Remove,
      Clean_End, Merge_Read, Merge_Apply, Resolve_Read, Cancel_Kill, Cancel_Mark, Cancel_Read,
      Cancel_Remove, KillMerge
<1>8. ASSUME NEW h \in Helper, Status_Fail(h) \/ Clean_Fail(h) PROVE rec'[u] = rec[u] \/ Turns(u)
  BY <1>8, FailGoneTurns DEF Status_Fail, Clean_Fail, Turns
<1>9. ASSUME NEW h \in Helper, Clean_Write(h) \/ Merge_Write(h) \/ Cancel_Write(h) PROVE Turns(u)
  BY <1>9, CleanTurns, MergeTurns, CancelTurns DEF Turns
<1>10. ASSUME Replan \/ UNCHANGED vars PROVE rec' = rec
  BY <1>10 DEF Replan, vars
<1> QED
  BY <1>a, <1>1, <1>2, <1>3, <1>4, <1>5, <1>6, <1>7, <1>8, <1>9, <1>10 DEF Next, Thread, Tail,
      StatusStep, CleanStep, MergeStep, CancelStep

\* What a copy of a record says of its run stays true.
LEMMA FitsOnward ==
  ASSUME Onward, NEW x, x.pid \in Run \cup {None}, NEW u, RecFits(x, u)
  PROVE  RecFits(x, u)'
BY DEF Onward, RecFits, Claimed

\* A record that goes on being the same run's fits it still.
LEMMA MovesFits ==
  ASSUME Sound, Onward, NEW u \in Unit, Moves(u)
  PROVE  RecFits(rec[u], u)'
<1>1. RecFits(rec[u], u) /\ rec[u] \in Record
  BY DEF Sound, Truthful, TypeOK, FileTypes
<1>2. PICK p \in Run : p = rec[u].pid /\ p # None
  BY <1>1 DEF Moves, Record
<1>3. /\ Claimed(p)' /\ unit'[p] = u /\ (tail[p] = "done" => tail'[p] = "done")
      /\ (Through(p) => Through(p)') /\ (Ended(p) => Ended(p)')
  BY <1>1, <1>2 DEF RecFits, Onward
<1>4. /\ rec'[u].pid = p /\ rec'[u].job \in {rec[u].job, p} /\ rec'[u].wt \in {rec[u].wt, None, p}
      /\ rec'[u].job = rec[u].job \/ tail'[p] = "done"
  BY <1>2 DEF Moves
<1>5. /\ rec[u].job \in {None, p} /\ rec[u].wt \in {None, p} /\ (rec[u].job # None => tail[p] = "done")
      /\ rec[u].status # "pending" /\ (rec[u].status # "running" => Through(p))
      /\ rec[u].status \in {"succeeded", "merged", "conflicted"} => Ended(p)
  BY <1>1, <1>2 DEF RecFits
<1>6. /\ rec'[u].status # "pending" /\ (rec'[u].status # "running" => Through(p)')
      /\ rec'[u].status \in {"succeeded", "merged", "conflicted"} => Ended(p)'
  <2>1. pc'[p] = "outcome" => Ended(p)' /\ Through(p)'
    BY DEF Ended, Through
  <2> QED
    BY <1>2, <1>3, <1>5, <2>1 DEF Moves
<1> QED
  BY <1>2, <1>3, <1>4, <1>5, <1>6 DEF RecFits

\* The records fit their runs after any step.
LEMMA RecordsFit == ASSUME Sound PROVE \A u \in Unit : RecFits(rec[u], u)'
<1> SUFFICES ASSUME NEW u \in Unit PROVE RecFits(rec[u], u)'
  OBVIOUS
<1>a. Onward /\ Turns(u)
  BY OnwardStep, RecordStep
<1>b. RecFits(rec[u], u) /\ rec[u] \in Record /\ unit \in [Actor -> Unit]
  BY DEF Sound, Truthful, TypeOK, FileTypes, RunTypes
<1>1. CASE rec'[u] = rec[u]
  <2>1. PICK x : x = rec[u]
    OBVIOUS
  <2>2. RecFits(x, u)'
    BY <1>a, <1>b, <2>1, FitsOnward DEF Record
  <2> QED
    BY <1>1, <2>1, <2>2 DEF RecFits
<1>2. CASE Moves(u)
  BY <1>a, <1>2, MovesFits
<1>3. ASSUME NEW r \in Run, StartsOn(u, r) PROVE RecFits(rec[u], u)'
  <2>1. unit'[r] = unit[r] /\ unit[r] = u /\ Owner(r)' /\ r # None
    BY <1>a, <1>3, ConstantsOK DEF Onward, StartsOn, Owner, Owning, Claiming, Late, Closing
  <2> QED
    BY <1>3, <2>1 DEF StartsOn, RecFits, Claimed
<1>4. CASE Forgets(u)
  BY <1>4 DEF Forgets, RecFits, Blank
<1>5. ASSUME NEW r \in Run, Undoes(u, r) PROVE RecFits(rec[u], u)'
  <2>1. RecFits(prev[r], u) /\ prev[r] \in Record
    BY <1>5 DEF Undoes, Sound, Truthful, Owner, Owning, Owns, Claiming, Late, Closing, TypeOK, RunTypes
  <2>2. PICK x : x = prev[r]
    OBVIOUS
  <2>3. RecFits(x, u)'
    BY <1>a, <2>1, <2>2, FitsOnward DEF Record
  <2> QED
    BY <1>5, <2>2, <2>3 DEF RecFits, Undoes
<1> QED
  BY <1>a, <1>1, <1>2, <1>3, <1>4, <1>5 DEF Turns

\* A run with its claim being undone has its unit recorded as running, over a record that ran to no
\* result.
LEMMA UndoesFacts ==
  ASSUME Sound, NEW u \in Unit, NEW r \in Run, Undoes(u, r)
  PROVE  /\ rec[u].status = "running" /\ rec[u].pid = r /\ ~Through(r)
         /\ rec'[u].status \in {"pending", "failed", "cancelled"} /\ rec'[u].wt = None
         /\ RecFits(prev[r], u) /\ pc[r] \in Claiming
<1>1. Owner(r) /\ Owns(r) /\ pc[r] \in Claiming /\ unit[r] = u /\ rec'[u] = prev[r]
  BY DEF Undoes, Owner, Owning, Claiming, Late, Closing, Sound, Truthful
<1> QED
  BY <1>1, OwnerFacts DEF Owns

\* A unit recorded as merged, or as in conflict, is in the user's tree after any step.
LEMMA TreeStep == ASSUME Sound PROVE \A u \in Unit : InTree(u)'
<1> SUFFICES ASSUME NEW u \in Unit, rec'[u].status \in {"merged", "conflicted"}
             PROVE  rec'[u].pid \in landed'
  BY DEF InTree
<1>1. Turns(u) /\ landed \subseteq landed' /\ InTree(u)
  BY OnwardStep, RecordStep DEF Onward, Sound, Truthful
<1>2. CASE rec'[u] = rec[u]
  BY <1>1, <1>2 DEF InTree
<1>3. CASE Moves(u)
  BY <1>1, <1>3 DEF Moves, InTree
<1>4. CASE (\E r \in Run : StartsOn(u, r)) \/ Forgets(u)
  BY <1>4 DEF StartsOn, Forgets, Blank
<1>5. ASSUME NEW r \in Run, Undoes(u, r) PROVE FALSE
  BY <1>5, UndoesFacts
<1> QED
  BY <1>1, <1>2, <1>3, <1>4, <1>5 DEF Turns

\* A result lasts within its plan: a record that has one goes on to merged or conflicted.
LEMMA ResultStep ==
  ASSUME Sound, owner' = owner, NEW u \in Unit
  PROVE  /\ rec[u].status = "merged" => rec'[u].status = "merged"
         /\ rec[u].status = "conflicted" => rec'[u].status \in {"conflicted", "merged"}
         /\ rec[u].status = "succeeded" => rec'[u].status \in {"succeeded", "conflicted", "merged"}
<1>1. Turns(u)
  BY RecordStep
<1>2. CASE rec'[u] = rec[u]
  BY <1>2
<1>3. CASE Moves(u)
  BY <1>3 DEF Moves
<1>4. ASSUME NEW r \in Run, StartsOn(u, r) PROVE rec[u].status \in {"pending", "failed", "cancelled"}
  BY <1>4 DEF StartsOn, Claimable
<1>5. CASE Forgets(u)
  BY <1>5 DEF Forgets
<1>6. ASSUME NEW r \in Run, Undoes(u, r) PROVE rec[u].status = "running"
  BY <1>6, UndoesFacts
<1> QED
  BY <1>1, <1>2, <1>3, <1>4, <1>5, <1>6 DEF Turns

\* Another plan's claim is made only over units that neither run nor hold a worktree.
LEMMA OwnerChanges == ASSUME Sound, owner' # owner PROVE \A u \in Unit : Free(u)
<1> USE DEF fileVars
<1>1. ASSUME NEW r \in Run, Claim(r) PROVE \A u \in Unit : Free(u)
  <2>1. MayClaim(at[r], unit[r]) /\ owner' = at[r]
    BY <1>1 DEF Claim
  <2> QED
    BY <2>1 DEF MayClaim, Held, Free
<1>2. ASSUME NEW r \in Run, Start(r) \/ Thread(r) \/ Tail(r) \/ Kill(r) \/ KillTail(r), ~Claim(r)
      PROVE owner' = owner
  BY <1>2 DEF Start, Thread, Tail, Kill, KillTail, RunReadsRunning, RunChecksGone, RunFailsGone,
      MakeWorktree, Describe, Release, Restore, WriteJob, Popen, Gate, WorkerUnit, OwnJob, AgentEnds,
      ReadToClose, CloseTree, RecordEnd, Outcome, RecordPid, RecordJob
<1>3. ASSUME NEW h \in Helper, StatusStep(h) \/ CleanStep(h) \/ MergeStep(h) \/ CancelStep(h) \/ KillMerge(h)
      PROVE owner' = owner
  BY <1>3 DEF StatusStep, CleanStep, MergeStep, CancelStep, Status_Read, Status_Check, Status_Fail,
      Clean_Start, Clean_Read, Clean_Check, Clean_Fail, Clean_Remove, Clean_Write, Clean_End,
      Merge_Read, Merge_Apply, Merge_Write, Resolve_Read, Cancel_Kill, Cancel_Mark, Cancel_Read,
      Cancel_Remove, Cancel_Write, KillMerge
<1>4. ASSUME Replan \/ UNCHANGED vars PROVE owner' = owner
  BY <1>4 DEF Replan, vars
<1> QED
  BY <1>1, <1>2, <1>3, <1>4 DEF Sound, Next

\* A unit is recorded as running only on top of merged dependencies, after any step.
LEMMA MergedStep == ASSUME Sound PROVE \A u \in Unit : OnMerged(u)'
<1> SUFFICES ASSUME NEW u \in Unit, rec'[u].status = "running"
             PROVE  owner' \in Plan /\ \A d \in DependsOn[owner'][u] : rec'[d].status = "merged"
  BY DEF OnMerged
<1>1. Turns(u) /\ OnMerged(u)
  BY RecordStep DEF Sound, Truthful
<1>2. CASE \E r \in Run : StartsOn(u, r)
  BY <1>2 DEF StartsOn
<1>3. CASE rec'[u] = rec[u] \/ Moves(u)
  <2>1. rec[u].status = "running"
    BY <1>3 DEF Moves
  <2>2. owner' = owner
    BY <2>1, OwnerChanges DEF Free
  <2>3. owner \in Plan /\ \A d \in DependsOn[owner][u] : d \in Unit /\ rec[d].status = "merged"
    BY <1>1, <2>1, ConstantsOK DEF OnMerged
  <2> QED
    BY <2>2, <2>3, ResultStep
<1>4. CASE Forgets(u)
  BY <1>4 DEF Forgets, Blank
<1>5. ASSUME NEW r \in Run, Undoes(u, r) PROVE FALSE
  BY <1>5, UndoesFacts
<1> QED
  BY <1>1, <1>2, <1>3, <1>4, <1>5 DEF Turns

\* The record a claim replaced stays one of an earlier run.
LEMMA PrevFits ==
  ASSUME Sound, NEW r \in Run, pc[r] \in Claiming, prev'[r] = prev[r]
  PROVE  RecFits(prev[r], unit[r])'
<1>1. Owner(r) /\ Owns(r) /\ prev[r] \in Record /\ Onward
  BY OnwardStep DEF Owner, Owning, Claiming, Late, Closing, Sound, Truthful, TypeOK, RunTypes
<1>2. RecFits(prev[r], unit[r]) /\ unit'[r] = unit[r]
  BY <1>1 DEF Owns, Onward, Claimed
<1>3. PICK x, u : x = prev[r] /\ u = unit[r]
  OBVIOUS
<1>4. RecFits(x, u)'
  BY <1>1, <1>2, <1>3, FitsOnward DEF Record
<1> QED
  BY <1>2, <1>3, <1>4 DEF RecFits

\* A run that nobody touches owns its unit as before.
LEMMA OwnsKeeps ==
  ASSUME Sound, NEW r \in Run, Owner(r), Untouched(r)
  PROVE  Owns(r)'
<1>1. Owns(r) /\ Onward
  BY OnwardStep DEF Sound, Truthful
<1>2. pc[r] \in Claiming => RecFits(prev[r], unit[r])'
  BY PrevFits DEF Untouched
<1>3. landed \subseteq landed' /\ (r \in disk' <=> r \in disk)
  BY <1>1 DEF Onward, Untouched
<1>4. UNCHANGED <<pc[r], tail[r], job[r], ok[r], loc[r], prev[r], snap[r], fields[r]>>
      /\ unit'[r] = unit[r] /\ rec'[unit[r]] = rec[unit[r]]
  BY DEF Untouched
<1> QED
  BY <1>1, <1>2, <1>3, <1>4 DEF Owns, Handed

\* A claim makes its run the owner of the unit.
LEMMA ClaimOwns ==
  ASSUME Sound, NEW r \in Run, Claim(r), Owner(r)'
  PROVE  Owns(r)'
<1>1. /\ rec \in [Unit -> Record] /\ unit[r] \in Unit /\ pc \in [Run -> Label] /\ loc \in [Run -> Run \cup {"tree", None}]
      /\ prev \in [Run -> Record] /\ LabelFits(r) /\ RecFits(rec[unit[r]], unit[r]) /\ Onward
      /\ disk \subseteq Run
  BY OnwardStep DEF Sound, Truthful, TypeOK, FileTypes, RunTypes, ThreadTypes, WorldTypes, Actor
<1>2. MayClaim(at[r], unit[r]) /\ pc[r] = "claim"
  BY <1>1 DEF Claim, At, Goto, Owner, Owning
<1>3. PICK u \in Unit : u = unit[r]
  BY <1>1
<1>4. PICK in \in BOOLEAN : in = RunsInPlace(at[r], EntriesFor(at[r]), unit[r])
  BY DEF RunsInPlace
<1>5. PICK old : old = EntriesFor(at[r])[u]
  OBVIOUS
<1>6. /\ rec'[u] = [Blank EXCEPT !.status = "running", !.inPlace = in, !.pid = r]
      /\ prev'[r] = old /\ loc'[r] = (IF in THEN "tree" ELSE r)
      /\ pc'[r] = IF in THEN "describe" ELSE "worktree"
      /\ UNCHANGED <<unit, tail, job, disk>>
  BY <1>1, <1>2, <1>3, <1>4, <1>5 DEF Claim, EntriesFor, Goto, jobVars, worldVars
<1>7. old.status \in {"pending", "failed", "cancelled"} /\ old.wt = None
  BY <1>2, <1>3, <1>5 DEF MayClaim, MayStart, StatusIn
<1>8. RecFits(old, u) /\ old \in Record
  BY <1>1, <1>3, <1>5, BlankType DEF EntriesFor, RecFits, Blank
<1>9. RecFits(old, u)'
  BY <1>1, <1>8, FitsOnward DEF Record
<1>10. RecFits(prev[r], unit[r])'
  BY <1>3, <1>6, <1>9 DEF RecFits
<1>11. tail[r] = "none"
  BY <1>1, <1>2 DEF LabelFits, Handed
<1>12. /\ rec'[u].status = "running" /\ rec'[u].inPlace = in /\ rec'[u].pid = r
       /\ rec'[u].job = None /\ rec'[u].wt = None
  BY <1>6 DEF Blank
<1> HIDE DEF Owning, Claiming
<1> QED
  BY <1>3, <1>6, <1>7, <1>10, <1>11, <1>12 DEF Owns, Handed

\* A run's own steps, from the worktree to the end of its agent, leave it the owner.
LEMMA MakeWorktreeOwns ==
  ASSUME Sound, NEW r \in Run, MakeWorktree(r) \/ Release(r)
  PROVE  Owns(r)'
<1>1. /\ pc \in [Run -> Label] /\ r # None /\ Owner(r) /\ Owns(r)
      /\ pc[r] \in {"worktree", "release"} /\ pc'[r] \in {"describe", "restore"}
      /\ prev'[r] = prev[r] /\ UNCHANGED <<rec, unit, loc, job, tail>>
      /\ pc'[r] = "describe" => pc[r] = "worktree" /\ r \in disk'
  BY ConstantsOK DEF MakeWorktree, Release, At, Goto, Sound, Truthful, TypeOK, ThreadTypes, Owner, Owning,
     Late, Closing, fileVars, jobVars, runVars
<1>2. RecFits(prev[r], unit[r])'
  BY <1>1, PrevFits DEF Claiming
<1> QED
  BY <1>1, <1>2 DEF Owns, Handed, Claiming

\* Naming the worktree in the record leaves the run the owner.
LEMMA DescribeOwns ==
  ASSUME Sound, NEW r \in Run, Describe(r)
  PROVE  Owns(r)'
<1>1. /\ pc \in [Run -> Label] /\ r # None /\ Owner(r) /\ Owns(r) /\ pc[r] = "describe"
      /\ rec \in [Unit -> Record] /\ unit[r] \in Unit
      /\ UNCHANGED <<unit, loc, job, tail, disk>> /\ pc'[r] \in {"agent", "spawn", "release"}
      /\ pc'[r] = "release" => prev'[r] = prev[r]
      /\ rec' = [rec EXCEPT ![unit[r]].wt = IF loc[r] = "tree" THEN None ELSE r]
  BY ConstantsOK DEF Describe, At, Goto, Sound, Truthful, TypeOK, ThreadTypes, FileTypes, RunTypes, Actor,
     Owner, Owning, Late, Closing, jobVars, worldVars
<1>2. pc'[r] = "release" => RecFits(prev[r], unit[r])'
  BY <1>1, PrevFits DEF Claiming
<1>3. PICK u, x, w : u = unit[r] /\ x = rec[u] /\ x \in Record /\ w = (IF loc[r] = "tree" THEN None ELSE r)
  BY <1>1
<1>4. rec'[u] = [x EXCEPT !.wt = w]
  BY <1>1, <1>3
<1>5. /\ rec'[u].status = x.status /\ rec'[u].pid = x.pid /\ rec'[u].job = x.job
      /\ rec'[u].inPlace = x.inPlace /\ rec'[u].wt = w
  BY <1>3, <1>4 DEF Record
<1>6. w = (IF x.inPlace THEN None ELSE r)
  BY <1>1, <1>3, ConstantsOK DEF Owns
<1> QED
  BY <1>1, <1>2, <1>3, <1>5, <1>6 DEF Owns, Handed, Claiming

\* So does handing the run to a worker,
LEMMA SpawnOwns ==
  ASSUME Sound, NEW r \in Run, WriteJob(r) \/ Popen(r)
  PROVE  Owns(r)'
<1>1. /\ pc \in [Run -> Label] /\ job \in [Run -> JobStatus] /\ tail \in [Run -> TailLabel]
      /\ Owner(r) /\ Owns(r) /\ pc[r] \in {"spawn", "popen"} /\ tail[r] = "none" /\ job[r] \in JobStatus
  BY DEF WriteJob, Popen, At, Sound, Truthful, TypeOK, ThreadTypes, JobTypes, LabelFits, Handed, Owner, Owning,
     Late, Closing
<1>2. /\ UNCHANGED <<rec, unit, loc, disk>> /\ pc'[r] \in {"popen", "gate", "close"}
      /\ tail'[r] \in {"none", "pid"} /\ (tail'[r] = "pid" => pc[r] = "popen" /\ job'[r] = job[r])
      /\ pc'[r] = "popen" => job'[r] = "starting"
      /\ pc'[r] = "popen" => tail'[r] = "none"
  BY <1>1 DEF WriteJob, Popen, At, Goto, fileVars, worldVars, runVars
<1> QED
  BY <1>1, <1>2 DEF Owns, Handed, Claiming

\* the worker's start, its agent and the reading of the record at the end,
LEMMA WorkerOwns ==
  ASSUME Sound, NEW r \in Run, WorkerUnit(r) \/ OwnJob(r) \/ AgentEnds(r) \/ ReadToClose(r),
         Owner(r), Owner(r)'
  PROVE  Owns(r)'
<1>1. /\ pc \in [Run -> Label] /\ job \in [Run -> JobStatus] /\ loc \in [Run -> Run \cup {"tree", None}]
      /\ snap \in [Actor -> Record] /\ r \in Actor /\ Owner(r) /\ Owns(r)
      /\ pc[r] \in {"gate", "own", "agent", "close"} /\ rec[unit[r]].status = "running"
      /\ Onward
  BY OnwardStep, OwnerFacts DEF WorkerUnit, OwnJob, AgentEnds, ReadToClose, At, Sound, Truthful, TypeOK,
     ThreadTypes, JobTypes, RunTypes, ActorTypes, Actor, Owner, Owning
<1>2. /\ UNCHANGED <<rec, unit, tail, disk>>
      /\ pc'[r] \in {"own", "agent", "close", "tree"}
      /\ pc'[r] \in {"own", "agent"} => pc[r] \in {"gate", "own"}
      /\ pc'[r] = "tree" => snap'[r] = rec[unit[r]]
  BY <1>1 DEF WorkerUnit, OwnJob, AgentEnds, ReadToClose, At, Goto, fileVars, worldVars, runVars
<1>3. Handed(r) => job'[r] \in {"starting", "running"}
  <2>1. CASE AgentEnds(r) /\ job' # job
    <3>1. Handed(r)' /\ job'[r] = "failed" /\ pc'[r] = "close"
      BY <1>1, <2>1 DEF AgentEnds, Goto, Handed
    <3>2. Late(r)'
      BY <3>1 DEF Late, Closing, SaidOver, Finished
    <3> QED
      BY <3>2 DEF Owner
  <2>2. CASE ~(AgentEnds(r) /\ job' # job)
    BY <1>1, <2>2 DEF WorkerUnit, OwnJob, AgentEnds, ReadToClose, At, jobVars, Owns
  <2> QED
    BY <2>1, <2>2
<1>4. loc'[r] = loc[r]
  <2>1. CASE WorkerUnit(r)
    <3>1. pc[r] = "gate" /\ (loc' = loc \/ loc' = [loc EXCEPT ![r] =
            IF rec[unit[r]].inPlace THEN "tree" ELSE rec[unit[r]].wt])
      BY <2>1 DEF WorkerUnit, At
    <3> QED
      BY <1>1, <3>1 DEF Owns
  <2>2. CASE ~WorkerUnit(r)
    BY <2>2 DEF OwnJob, AgentEnds, ReadToClose, runVars
  <2> QED
    BY <2>1, <2>2
<1> QED
  BY <1>1, <1>2, <1>3, <1>4 DEF Owns, Handed, Claiming

\* the work on the tree, which decides what is written of it,
LEMMA CloseTreeOwns ==
  ASSUME Sound, NEW r \in Run, CloseTree(r), Owner(r)
  PROVE  Owns(r)'
<1>1. /\ pc \in [Run -> Label] /\ fields \in [Actor -> Fields] /\ r \in Actor /\ Owner(r) /\ Owns(r)
      /\ pc[r] = "tree" /\ pc'[r] = "record" /\ LabelFits(r) /\ r # None
      /\ UNCHANGED <<rec, unit, tail, landed, job, loc, snap>>
  BY ConstantsOK DEF CloseTree, At, Goto, Sound, Truthful, TypeOK, ThreadTypes, ActorTypes, Actor, Owner, Owning,
     fileVars, jobVars, runVars
<1>2. PICK written \in BOOLEAN, removed \in BOOLEAN :
        LET result == written /\ (snap[r].inPlace \/ snap[r].wt \in disk)
            keeps == snap[r].inPlace \/ snap[r].wt = None \/ (ok[r] /\ ~result)
        IN /\ fields' = [fields EXCEPT ![r] =
                [status |-> IF ~ok[r] THEN "failed"
                            ELSE IF snap[r].inPlace THEN "merged"
                            ELSE IF result THEN "succeeded" ELSE "failed",
                 result |-> result,
                 worktree |-> IF keeps THEN "same"
                              ELSE IF removed \/ snap[r].wt \notin disk THEN "gone" ELSE "stays"]]
           /\ disk' = IF keeps \/ ~removed THEN disk ELSE disk \ {snap[r].wt}
  BY DEF CloseTree
<1>3. snap[r].inPlace = rec[unit[r]].inPlace /\ snap[r].wt = IF rec[unit[r]].inPlace THEN None ELSE r
  BY <1>1 DEF Owns
<1>4. ok[r] /\ rec[unit[r]].inPlace => r \in landed
  BY <1>1 DEF Owns, LabelFits
<1>5. fields'[r].worktree = "gone" => r \notin disk'
  <2>1. PICK result \in BOOLEAN, keeps \in BOOLEAN :
          /\ result = (written /\ (snap[r].inPlace \/ snap[r].wt \in disk))
          /\ keeps = (snap[r].inPlace \/ snap[r].wt = None \/ (ok[r] /\ ~result))
    OBVIOUS
  <2>2. /\ fields'[r].worktree = (IF keeps THEN "same"
                                  ELSE IF removed \/ snap[r].wt \notin disk THEN "gone" ELSE "stays")
        /\ disk' = IF keeps \/ ~removed THEN disk ELSE disk \ {snap[r].wt}
    BY <1>1, <1>2, <2>1
  <2>3. ~keeps => snap[r].wt = r
    BY <1>3, <2>1
  <2> QED
    BY <2>2, <2>3
<1>6. /\ fields'[r].status \in {"failed", "merged", "succeeded"}
      /\ fields'[r].status = "merged" => ok[r] /\ snap[r].inPlace
  BY <1>1, <1>2
<1> QED
  BY <1>1, <1>3, <1>4, <1>5, <1>6 DEF Owns, Handed, Claiming

\* and what the command writes down about the worker.
LEMMA TailOwns ==
  ASSUME Sound, NEW r \in Run, RecordPid(r) \/ RecordJob(r), Owner(r)
  PROVE  Owns(r)'
<1>1. /\ job \in [Run -> JobStatus] /\ tail \in [Run -> TailLabel] /\ rec \in [Unit -> Record] /\ unit[r] \in Unit
      /\ Owns(r) /\ LabelFits(r) /\ Handed(r) /\ tail[r] \in {"pid", "job"} /\ pc[r] \notin Claiming
  BY DEF RecordPid, RecordJob, Handed, Sound, Truthful, TypeOK, ThreadTypes, JobTypes, FileTypes, RunTypes, Actor,
     LabelFits, Claiming
<1>2. UNCHANGED <<pc, unit, loc, disk, landed, snap, fields>>
  BY DEF RecordPid, RecordJob, worldVars, runVars, actorVars
<1>3. CASE RecordPid(r)
  <2>1. tail[r] # "done" /\ tail'[r] = "job" /\ UNCHANGED rec /\ job'[r] \in {"starting", "running"}
    BY <1>1, <1>3 DEF RecordPid, Owns, fileVars
  <2> QED
    BY <1>1, <1>2, <2>1 DEF Owns, Handed
<1>4. CASE RecordJob(r)
  <2>1. tail'[r] = "done" /\ UNCHANGED job /\ rec' = [rec EXCEPT ![unit[r]].job = r]
    BY <1>1, <1>4 DEF RecordJob, jobVars
  <2>2. PICK x \in Record : x = rec[unit[r]]
    BY <1>1
  <2>3. rec'[unit[r]] = [x EXCEPT !.job = r]
    BY <1>1, <2>1, <2>2
  <2>4. PICK y : y = rec'[unit[r]] /\ y.status = x.status /\ y.pid = x.pid /\ y.job = r
                 /\ y.inPlace = x.inPlace /\ y.wt = x.wt
    BY <2>2, <2>3 DEF Record
  <2> QED
    BY <1>1, <1>2, <2>1, <2>2, <2>4 DEF Owns, Handed
<1> QED
  BY <1>3, <1>4

\* A claim is the only way to get to work on a unit,
LEMMA OwningClaims ==
  ASSUME Sound, NEW r \in Run, pc[r] \notin Owning, pc'[r] \in Owning
  PROVE  Claim(r)
<1>a. [Next]_vars /\ pc \in [Run -> Label]
  BY DEF Sound, TypeOK, ThreadTypes
<1>b. pc'[r] # pc[r] /\ pc'[r] \in Owning /\ pc[r] \notin Owning
  OBVIOUS
<1>1. ASSUME NEW q \in Run, Start(q) \/ RunReadsRunning(q) \/ Outcome(q) PROVE FALSE
  BY <1>1, <1>a, <1>b DEF Start, RunReadsRunning, Outcome, Goto, Owning
<1>2. ASSUME NEW q \in Run,
             \/ MakeWorktree(q) \/ Describe(q) \/ Release(q) \/ Restore(q) \/ WriteJob(q) \/ Popen(q) \/ Gate(q)
             \/ WorkerUnit(q) \/ OwnJob(q) \/ AgentEnds(q) \/ ReadToClose(q) \/ CloseTree(q) \/ RecordEnd(q)
      PROVE FALSE
  <2>1. PICK label : Goto(q, label) /\ pc[q] \in Owning
    BY <1>2 DEF MakeWorktree, Describe, Release, Restore, WriteJob, Popen, Gate, WorkerUnit, OwnJob,
        AgentEnds, ReadToClose, CloseTree, RecordEnd, At, Owning
  <2> QED
    BY <1>a, <1>b, <2>1 DEF Goto
<1>3. ASSUME NEW q \in Run, Dies(q) PROVE FALSE
  BY <1>3, <1>a, <1>b DEF Dies, Goto, Owning
<1>4. ASSUME NEW q \in Run, Claim(q), q # r PROVE FALSE
  BY <1>4, <1>a, <1>b DEF Claim, Goto
<1>5. ASSUME NEW q \in Run, RunChecksGone(q) \/ RunFailsGone(q) \/ Tail(q) \/ KillTail(q) PROVE FALSE
  BY <1>5, <1>b DEF RunChecksGone, RunFailsGone, Tail, RecordPid, RecordJob, KillTail
<1>6. ASSUME NEW h \in Helper, Cancel_Kill(h) PROVE FALSE
  <2>1. (\E q \in Run : Dies(q)) \/ UNCHANGED pc
    BY <1>6 DEF Cancel_Kill, RunsGoOn
  <2> QED
    BY <1>3, <1>b, <2>1
<1>7. ASSUME NEW h \in Helper,
             \/ StatusStep(h) \/ CleanStep(h) \/ MergeStep(h) \/ KillMerge(h)
             \/ Cancel_Mark(h) \/ Cancel_Read(h) \/ Cancel_Remove(h) \/ Cancel_Write(h)
      PROVE FALSE
  <2>1. UNCHANGED pc
    BY <1>7 DEF StatusStep, CleanStep, MergeStep, Status_Read, Status_Check, Status_Fail, Clean_Start,
        Clean_Read, Clean_Check, Clean_Fail, Clean_Remove, Clean_Write, Clean_End, Merge_Read,
        Merge_Apply, Merge_Write, Resolve_Read, Cancel_Mark, Cancel_Read, Cancel_Remove, Cancel_Write,
        KillMerge, Others, RunState
  <2> QED
    BY <1>b, <2>1
<1>8. ~Replan /\ ~UNCHANGED vars
  BY <1>b DEF Replan, vars
<1> QED
  BY <1>a, <1>1, <1>2, <1>3, <1>4, <1>5, <1>6, <1>7, <1>8 DEF Next, Thread, Tail, Kill, CancelStep

\* and to own it.
LEMMA OwnersClaim ==
  ASSUME Sound, NEW r \in Run, ~Owner(r), Owner(r)'
  PROVE  Claim(r)
<1>1. ~Through(r)'
  BY DEF Owner, Owning, Through, Ended
<1>2. ~Through(r)
  BY <1>1, OnwardStep DEF Onward
<1> QED
  BY <1>2, OwningClaims DEF Owner, Through

\* Who owns a unit after a step is what its record says.
LEMMA OwnsStep == ASSUME Sound PROVE \A r \in Run : Owner(r)' => Owns(r)'
<1> SUFFICES ASSUME NEW r \in Run, Owner(r)' PROVE Owns(r)'
  OBVIOUS
<1>1. CASE ~Owner(r)
  BY <1>1, OwnersClaim, ClaimOwns
<1>2. CASE Owner(r) /\ ~Thread(r) /\ ~Tail(r)
  BY <1>2, OthersLeave, OwnsKeeps DEF Owner
<1>3. CASE Owner(r) /\ Tail(r)
  BY <1>3, TailOwns DEF Tail
<1>4. CASE Owner(r) /\ Thread(r)
  <2>1. ~RunReadsRunning(r) /\ ~RunChecksGone(r) /\ ~RunFailsGone(r) /\ ~Claim(r) /\ ~Outcome(r)
    BY <1>4 DEF RunReadsRunning, RunChecksGone, RunFailsGone, Claim, Outcome, At, Owner, Owning
  <2>2. ~Restore(r) /\ ~RecordEnd(r)
    BY DEF Restore, RecordEnd, Goto, Owner, Owning, Sound, TypeOK, ThreadTypes
  <2>3. ASSUME Gate(r) PROVE FALSE
    <3>1. Handed(r) /\ pc'[r] \in {"close", "over"} /\ job'[r] = "failed" /\ tail' = tail
      BY <2>3 DEF Gate, At, Goto, Sound, Truthful, LabelFits, TypeOK, ThreadTypes, JobTypes
    <3>2. ~Owner(r)'
      BY <3>1 DEF Owner, Owning, Late, Closing, SaidOver, Finished, Handed
    <3> QED
      BY <3>2
  <2> QED
    BY <1>4, <2>1, <2>2, <2>3, MakeWorktreeOwns, DescribeOwns, SpawnOwns, WorkerOwns, CloseTreeOwns
       DEF Thread
<1> QED
  BY <1>1, <1>2, <1>3, <1>4

\* A worker says that its run is over before it closes the unit only when that run has failed.
LEMMA LateStarts ==
  ASSUME Sound, NEW r \in Run, ~Late(r), Late(r)'
  PROVE  ~ok'[r] /\ pc'[r] = "close"
<1>1. /\ pc \in [Run -> Label] /\ job \in [Run -> JobStatus] /\ tail \in [Run -> TailLabel]
      /\ ok \in [Run -> BOOLEAN] /\ LabelFits(r)
  BY DEF Sound, Truthful, TypeOK, ThreadTypes, JobTypes, RunTypes
<1>2. pc'[r] \in Closing /\ tail'[r] # "none" /\ job'[r] \in Finished
  BY DEF Late, SaidOver, Handed
<1>3. Owner(r) /\ Owns(r)
  <2>1. ~Claim(r)
    BY <1>1, <1>2 DEF Claim, Goto, Closing
  <2>2. ASSUME pc[r] \notin Owning PROVE FALSE
    BY <1>2, <2>1, <2>2, OwningClaims DEF Closing, Owning
  <2> QED
    BY <2>2 DEF Owner, Sound, Truthful
<1>4. Handed(r) => job[r] \notin Finished
  BY <1>3, OwnerFacts DEF Finished
<1>5. CASE ~Thread(r) /\ ~Tail(r)
  <2>1. Untouched(r)
    BY <1>2, <1>3, <1>5, OthersLeave DEF Closing, Owning
  <2> QED
    BY <1>2, <1>4, <2>1 DEF Untouched, Handed
<1>6. CASE Tail(r)
  BY <1>1, <1>2, <1>4, <1>6 DEF Tail, RecordPid, RecordJob, jobVars, Handed, Finished
<1>7. CASE Thread(r)
  <2>1. CASE Gate(r)
    BY <1>1, <1>2, <2>1 DEF Gate, At, Goto, LabelFits, Closing, runVars
  <2>2. CASE AgentEnds(r)
    BY <1>1, <1>2, <1>4, <2>2 DEF AgentEnds, At, Goto, LabelFits, Handed
  <2>3. CASE Popen(r)
    BY <1>1, <1>2, <2>3 DEF Popen, At, Goto, LabelFits, Handed, Closing
  <2>4. CASE WorkerUnit(r) \/ ReadToClose(r) \/ CloseTree(r)
    BY <1>1, <1>2, <1>4, <2>4 DEF WorkerUnit, ReadToClose, CloseTree, jobVars, Goto, Handed, Closing
  <2>5. CASE ~Gate(r) /\ ~AgentEnds(r) /\ ~Popen(r) /\ ~WorkerUnit(r) /\ ~ReadToClose(r) /\ ~CloseTree(r)
    BY <1>1, <1>2, <1>7, <2>5 DEF Thread, RunReadsRunning, RunChecksGone, RunFailsGone, Claim, MakeWorktree,
       Describe, Release, Restore, WriteJob, OwnJob, RecordEnd, Outcome, At, Goto, Closing
  <2> QED
    BY <2>1, <2>2, <2>3, <2>4, <2>5
<1> QED
  BY <1>5, <1>6, <1>7

\* What a run knows of its agent and its unit at the end is its own: nobody else changes it.
LEMMA CloserRests ==
  ASSUME Sound, NEW r \in Run, pc[r] \in Closing, pc'[r] \in Closing, ~Thread(r)
  PROVE  UNCHANGED <<pc[r], ok[r], snap[r], fields[r]>>
<1> USE DEF runVars, actorVars, helperVars, helperOwn, jobVars, Others, RunState, Actor, HelperKeeps
<1>a. /\ [Next]_vars /\ pc \in [Run -> Label] /\ ok \in [Run -> BOOLEAN]
      /\ snap \in [Actor -> Record] /\ fields \in [Actor -> Fields] /\ Run \cap Helper = {}
  BY ConstantsOK DEF Sound, TypeOK, ThreadTypes, RunTypes, ActorTypes
<1>1. ASSUME NEW q \in Run, Start(q) \/ Thread(q), q # r PROVE UNCHANGED <<pc[r], ok[r], snap[r], fields[r]>>
  BY <1>a, <1>1 DEF Start, Thread, RunReadsRunning, RunChecksGone, RunFailsGone, Claim, MakeWorktree,
     Describe, Release, Restore, WriteJob, Popen, Gate, WorkerUnit, OwnJob, AgentEnds, ReadToClose,
     CloseTree, RecordEnd, Outcome, Goto
<1>2. ~Start(r)
  BY DEF Start, Closing
<1>3. ASSUME NEW q \in Run, Tail(q) \/ KillTail(q) PROVE UNCHANGED <<pc[r], ok[r], snap[r], fields[r]>>
  BY <1>3 DEF Tail, RecordPid, RecordJob, KillTail
<1>4. ASSUME NEW q \in Run, Dies(q) PROVE UNCHANGED <<pc[r], ok[r], snap[r], fields[r]>>
  <2>1. q # r
    BY <1>a, <1>4 DEF Dies, Goto, Closing
  <2> QED
    BY <1>a, <1>4, <2>1 DEF Dies, Goto
<1>5. ASSUME NEW h \in Helper, Cancel_Kill(h) PROVE UNCHANGED <<pc[r], ok[r], snap[r], fields[r]>>
  <2>1. RunsGoOn \/ \E q \in Run : Dies(q)
    BY <1>5 DEF Cancel_Kill
  <2> QED
    BY <1>4, <2>1 DEF RunsGoOn
<1>6. ASSUME NEW h \in Helper,
             \/ StatusStep(h) \/ CleanStep(h) \/ MergeStep(h) \/ KillMerge(h)
             \/ Cancel_Mark(h) \/ Cancel_Read(h) \/ Cancel_Remove(h) \/ Cancel_Write(h)
      PROVE UNCHANGED <<pc[r], ok[r], snap[r], fields[r]>>
  <2>1. UNCHANGED <<pc, ok>>
    BY <1>6 DEF StatusStep, CleanStep, MergeStep, Status_Read, Status_Check, Status_Fail, Clean_Start,
        Clean_Read, Clean_Check, Clean_Fail, Clean_Remove, Clean_Write, Clean_End, Merge_Read,
        Merge_Apply, Merge_Write, Resolve_Read, Cancel_Mark, Cancel_Read, Cancel_Remove, Cancel_Write,
        KillMerge
  <2>2. UNCHANGED <<snap[r], fields[r]>>
    BY <1>a, <1>6 DEF StatusStep, CleanStep, MergeStep, Status_Read, Status_Check, Status_Fail, Clean_Start,
        Clean_Read, Clean_Check, Clean_Fail, Clean_Remove, Clean_Write, Clean_End, Merge_Read,
        Merge_Apply, Merge_Write, Resolve_Read, Cancel_Mark, Cancel_Read, Cancel_Remove, Cancel_Write,
        KillMerge, Done
  <2> QED
    BY <2>1, <2>2
<1>7. ASSUME Replan \/ UNCHANGED vars PROVE UNCHANGED <<pc[r], ok[r], snap[r], fields[r]>>
  BY <1>7 DEF Replan, vars
<1> QED
  BY <1>a, <1>1, <1>2, <1>3, <1>4, <1>5, <1>6, <1>7 DEF Next, Kill, CancelStep

\* What a late run closes its unit with is that it failed, and its own worktree.
LEMMA LagsStep == ASSUME Sound PROVE \A r \in Run : Late(r)' => Lags(r)'
<1> SUFFICES ASSUME NEW r \in Run, Late(r)' PROVE Lags(r)'
  OBVIOUS
<1>1. CASE ~Late(r)
  BY <1>1, LateStarts DEF Lags
<1>a. /\ pc \in [Run -> Label] /\ ok \in [Run -> BOOLEAN] /\ fields \in [Actor -> Fields]
      /\ snap \in [Actor -> Record] /\ r \in Actor /\ unit[r] \in Unit /\ pc'[r] \in Closing
      /\ None \notin disk /\ Onward
  BY OnwardStep, ConstantsOK DEF Sound, TypeOK, ThreadTypes, RunTypes, ActorTypes, WorldTypes, Actor, Late
<1>b. pc[r] # "worktree" /\ r \notin disk => r \notin disk'
  BY <1>a DEF Onward
<1>2. CASE Late(r) /\ ~Thread(r)
  <2>1. Lags(r) /\ UNCHANGED <<pc[r], ok[r], snap[r], fields[r]>> /\ pc[r] # "worktree"
    BY <1>2, <1>a, CloserRests DEF Sound, Truthful, Late, Closing
  <2> QED
    BY <1>b, <2>1 DEF Lags
<1>3. CASE Late(r) /\ Thread(r)
  <2>1. Lags(r) /\ pc[r] \in Closing
    BY <1>3 DEF Sound, Truthful, Late
  <2>2. ReadToClose(r) \/ CloseTree(r)
    BY <1>3, <1>a, <2>1 DEF Thread, RunReadsRunning, RunChecksGone, RunFailsGone, Claim, MakeWorktree,
       Describe, Release, Restore, WriteJob, Popen, Gate, WorkerUnit, OwnJob, AgentEnds, RecordEnd, Outcome,
       At, Goto, Closing
  <2>3. CASE ReadToClose(r)
    <3>1. /\ pc'[r] = "tree" /\ ok' = ok /\ snap'[r] = rec[unit[r]] /\ rec[unit[r]].pid = r
      BY <1>a, <2>3 DEF ReadToClose, Goto, Closing, Strays, Sound, runVars
    <3>2. rec[unit[r]].wt \in {None, r}
      BY <1>a, <3>1, ConstantsOK DEF Sound, Truthful, RecFits
    <3> QED
      BY <2>1, <3>1, <3>2 DEF Lags
  <2>4. CASE CloseTree(r)
    <3>1. /\ pc[r] = "tree" /\ pc'[r] = "record" /\ ok' = ok /\ snap' = snap
          /\ ~ok[r] /\ snap[r].pid = r /\ snap[r].wt \in {None, r}
      BY <1>a, <2>1, <2>4 DEF CloseTree, Lags, At, Goto, runVars
    <3>a. PICK removed \in BOOLEAN, result \in BOOLEAN :
            LET keeps == snap[r].inPlace \/ snap[r].wt = None \/ (ok[r] /\ ~result)
            IN /\ fields' = [fields EXCEPT ![r] =
                    [status |-> IF ~ok[r] THEN "failed"
                                ELSE IF snap[r].inPlace THEN "merged"
                                ELSE IF result THEN "succeeded" ELSE "failed",
                     result |-> result,
                     worktree |-> IF keeps THEN "same"
                                  ELSE IF removed \/ snap[r].wt \notin disk THEN "gone" ELSE "stays"]]
               /\ disk' = IF keeps \/ ~removed THEN disk ELSE disk \ {snap[r].wt}
      BY <2>4 DEF CloseTree
    <3>b. PICK keeps \in BOOLEAN :
            keeps = (snap[r].inPlace \/ snap[r].wt = None \/ (ok[r] /\ ~result))
      OBVIOUS
    <3>2. /\ fields'[r].status = "failed"
          /\ snap[r].wt = None => keeps
          /\ fields'[r].worktree = (IF keeps THEN "same"
                                    ELSE IF removed \/ snap[r].wt \notin disk THEN "gone" ELSE "stays")
          /\ disk' = IF keeps \/ ~removed THEN disk ELSE disk \ {snap[r].wt}
      BY <1>a, <3>1, <3>a, <3>b
    <3>3. fields'[r].worktree # "same" => snap[r].wt = r
      BY <3>1, <3>2
    <3>4. fields'[r].worktree = "gone" => r \notin disk'
      BY <3>2, <3>3
    <3> QED
      BY <3>1, <3>2, <3>3, <3>4 DEF Lags
  <2> QED
    BY <2>2, <2>3, <2>4
<1> QED
  BY <1>1, <1>2, <1>3

\* A record goes on saying where its run works, for as long as the run owns the unit.
LEMMA PlaceStep ==
  ASSUME Sound, NEW r \in Run, Owner(r), Owner(r)'
  PROVE  rec'[unit[r]].inPlace = rec[unit[r]].inPlace
<1>1. PICK u \in Unit : u = unit[r]
  BY OwnerFacts
<1>2. Turns(u) /\ rec[u].status = "running" /\ rec[u].pid = r
  BY <1>1, OwnerFacts, RecordStep
<1>3. ASSUME NEW q \in Run, StartsOn(u, q) \/ Forgets(u) PROVE FALSE
  BY <1>2, <1>3 DEF StartsOn, Forgets, Free
<1>4. ASSUME NEW q \in Run, Undoes(u, q) PROVE FALSE
  <2>1. q = r
    BY <1>2, <1>4, UndoesFacts
  <2> QED
    BY <1>4, <2>1 DEF Undoes, Owner, Owning
<1> QED
  BY <1>1, <1>2, <1>3, <1>4 DEF Turns, Moves

\* A worktree that is named stays named for as long as it is on disk.
LEMMA NameStep ==
  ASSUME Sound, NEW w \in Run, NEW u \in Unit, rec[u].wt = w, w \in disk', pc[w] \notin Untold
  PROVE  rec'[u].wt = w
<1>1. Turns(u) /\ w # None /\ RecFits(rec[u], u)
  BY RecordStep, ConstantsOK DEF Sound, Truthful
<1>2. ASSUME NEW q \in Run, StartsOn(u, q) \/ Forgets(u) PROVE FALSE
  BY <1>1, <1>2 DEF StartsOn, Forgets, Free
<1>3. ASSUME NEW q \in Run, Undoes(u, q) PROVE FALSE
  <2>1. rec[u].pid = q /\ pc[q] = "restore"
    BY <1>3, UndoesFacts DEF Undoes
  <2>2. w = q
    BY <1>1, <2>1 DEF RecFits, Blank
  <2> QED
    BY <2>1, <2>2 DEF Untold
<1> QED
  BY <1>1, <1>2, <1>3 DEF Turns, Moves

\* The worktrees on disk are where the records, or the runs between two writes, say.
LEMMA DiskStep == ASSUME Sound PROVE \A w \in Run : DiskFits(w)'
<1> SUFFICES ASSUME NEW w \in Run, w \in disk'
             PROVE  /\ Claimed(w)' /\ pc'[w] # "worktree"
                    /\ pc'[w] \in {"describe", "restore", "undone"} \/ rec'[unit'[w]].wt = w
                    /\ Owner(w)' => ~rec'[unit'[w]].inPlace
  BY DEF DiskFits
<1>1. DiskFits(w) /\ Onward /\ (Owner(w) => Owns(w)) /\ (Owner(w)' => Owns(w)')
  BY OnwardStep, OwnsStep DEF Sound, Truthful
<1>2. w \in disk \/ (pc[w] = "worktree" /\ pc'[w] = "describe")
  BY <1>1 DEF Onward
<1>3. Claimed(w) /\ Claimed(w)' /\ unit'[w] = unit[w] /\ pc'[w] # "worktree"
  <2>1. Claimed(w)
    BY <1>1, <1>2 DEF DiskFits, Claimed, Owner, Owning, Late, Closing
  <2>2. pc[w] # "claim"
    BY <2>1 DEF Claimed, Owner, Owning, Through, Ended, Late, Closing
  <2> QED
    BY <1>1, <1>2, <2>1, <2>2 DEF Onward, DiskFits
<1>4. CASE Owner(w)'
  <2>1. Owner(w)
    BY <1>1, <1>3, <1>4 DEF Onward, Claimed, Owner, Owning, Through, Ended
  <2>2. ~rec[unit[w]].inPlace
    BY <1>1, <1>2, <2>1 DEF DiskFits, Owns
  <2>3. ~rec'[unit'[w]].inPlace
    BY <1>3, <1>4, <2>1, <2>2, PlaceStep
  <2>4. pc'[w] \in {"describe", "restore"} \/ rec'[unit'[w]].wt = w
    BY <1>1, <1>3, <1>4, <2>3 DEF Owns
  <2> QED
    BY <1>3, <2>3, <2>4
<1>5. CASE ~Owner(w)' /\ pc'[w] # "undone"
  <2>1. pc'[w] \in Closing \cup {"outcome", "over"}
    BY <1>3, <1>5 DEF Claimed, Through, Ended, Late
  <2>2. pc[w] \notin Untold /\ w \in disk
    BY <1>1, <1>2, <2>1 DEF Onward, Closing
  <2>3. rec[unit[w]].wt = w
    BY <1>1, <2>2 DEF DiskFits, Untold
  <2>4. PICK u \in Unit : u = unit[w]
    BY DEF Sound, TypeOK, RunTypes, Actor
  <2>5. rec'[u].wt = w
    BY <2>2, <2>3, <2>4, NameStep
  <2> QED
    BY <1>3, <1>5, <2>4, <2>5
<1>6. CASE ~Owner(w)' /\ pc'[w] = "undone"
  BY <1>3, <1>6
<1> QED
  BY <1>4, <1>5, <1>6

\* What was read of a run stays true.
LEMMA SuspectOnward ==
  ASSUME Onward, NEW t, SuspectFits(t)
  PROVE  SuspectFits(t)'
BY DEF Onward, SuspectFits, Claimed

\* A run that is found gone is through, or its record did not name its job when it was read.
LEMMA GoneFits ==
  ASSUME Sound, NEW p \in Run, Claimed(p), NEW j \in {None, p}, j # None => tail[p] = "done", ~StillGoing(j, p)
  PROVE  Through(p) \/ (j = None /\ tail[p] = "done")
<1>1. SUFFICES ASSUME ~Through(p) PROVE j = None /\ tail[p] = "done"
  OBVIOUS
<1>2. Owner(p) /\ p # None /\ LabelFits(p) /\ tail[p] \in TailLabel
  BY <1>1, ConstantsOK DEF Claimed, Sound, Truthful, TypeOK, ThreadTypes
<1>3. /\ Handed(p) => job[p] \in {"starting", "running"}
      /\ jobPid[p] => WorkerAlive(p)
      /\ ThreadAlive(p)
  BY <1>2, OwnerFacts
<1>4. CASE j = None
  <2>1. ~CommandAlive(p)
    BY <1>2, <1>4 DEF StillGoing
  <2>2. Handed(p) /\ tail[p] \notin {"pid", "job"}
    BY <1>3, <2>1 DEF CommandAlive
  <2> QED
    BY <1>2, <1>4, <2>2 DEF Handed, TailLabel, LabelFits
<1>5. CASE j = p
  <2>1. Handed(p)
    BY <1>2, <1>5 DEF Handed
  <2> QED
    BY <1>2, <1>3, <1>5, <2>1 DEF StillGoing, JobMayRun, Finished
<1> QED
  BY <1>4, <1>5

\* The suspects a step leaves an actor with: those it had, those it reads, and those it finds gone.
LEMMA ReadFits ==
  ASSUME Sound, NEW a \in Actor, ReadRunning(a), NEW t \in todo'[a]
  PROVE  SuspectFits(t)
<1>1. PICK u \in Running(rec) : t = [unit |-> u, job |-> rec[u].job, pid |-> rec[u].pid, gone |-> FALSE]
  BY DEF ReadRunning, Sound, TypeOK, ActorTypes
<1>2. u \in Unit /\ rec[u].status = "running" /\ RecFits(rec[u], u) /\ rec[u] \in Record
  BY <1>1 DEF Running, StatusIn, Sound, Truthful, TypeOK, FileTypes
<1>3. rec[u].pid # None
  BY <1>2 DEF RecFits, Blank
<1> QED
  BY <1>1, <1>2, <1>3 DEF RecFits, SuspectFits, Record

\* Those it checks were read before, or are found gone now.
LEMMA CheckFits ==
  ASSUME Sound, NEW a \in Actor, CheckGone(a), NEW t \in todo'[a]
  PROVE  SuspectFits(t)
<1>1. PICK s \in todo[a] :
        todo' = [todo EXCEPT ![a] = (@ \ {s}) \cup
                  (IF StillGoing(s.job, s.pid) THEN {} ELSE {[s EXCEPT !.gone = TRUE]})]
  BY DEF CheckGone
<1>2. SuspectFits(s) /\ s \in Suspect /\ todo \in [Actor -> SUBSET Suspect]
  BY DEF Sound, Truthful, TypeOK, ActorTypes
<1>3. CASE t \in todo[a]
  BY <1>3 DEF Sound, Truthful
<1>4. CASE ~StillGoing(s.job, s.pid) /\ t = [s EXCEPT !.gone = TRUE]
  <2>1. t.unit = s.unit /\ t.job = s.job /\ t.pid = s.pid
    BY <1>2, <1>4 DEF Suspect
  <2>2. Through(s.pid) \/ (s.job = None /\ tail[s.pid] = "done")
    BY <1>2, <1>4, GoneFits DEF SuspectFits
  <2> QED
    BY <1>2, <2>1, <2>2 DEF SuspectFits
<1> QED
  BY <1>1, <1>2, <1>3, <1>4

\* A clean suspects the run whose record it has read.
LEMMA CleanCheckFits ==
  ASSUME Sound, NEW h \in Helper, Clean_Check(h), NEW t \in todo'[h]
  PROVE  SuspectFits(t) /\ t.pid = snap[h].pid /\ t.unit = unit[h]
<1>1. /\ RecFits(snap[h], unit[h]) /\ snap[h].status = "running" /\ snap[h] \in Record
      /\ todo \in [Actor -> SUBSET Suspect] /\ h \in Actor
  BY DEF Clean_Check, HGoto, Sound, Truthful, CleanFits, TypeOK, ActorTypes, Actor
<1>2. /\ ~MayStillRun(snap[h])
      /\ t = [unit |-> unit[h], job |-> snap[h].job, pid |-> snap[h].pid, gone |-> TRUE]
  BY <1>1 DEF Clean_Check
<1>3. snap[h].pid # None /\ snap[h].pid \in Run
  BY <1>1 DEF RecFits, Blank, Record
<1>4. Through(snap[h].pid) \/ (snap[h].job = None /\ tail[snap[h].pid] = "done")
  BY <1>1, <1>2, <1>3, GoneFits DEF MayStillRun, RecFits
<1> QED
  BY <1>1, <1>2, <1>3, <1>4 DEF RecFits, SuspectFits

\* The runs an actor suspects are runs that claimed their units, and those found gone are through.
LEMMA SuspectStep ==
  ASSUME Sound, NEW a \in Actor, NEW t \in todo'[a]
  PROVE  SuspectFits(t)'
<1>a. [Next]_vars /\ todo \in [Actor -> SUBSET Suspect] /\ Run \cap Helper = {} /\ Onward
  BY ConstantsOK, OnwardStep DEF Sound, TypeOK, ActorTypes
<1>b. SUFFICES t \notin todo[a] => SuspectFits(t)
  BY <1>a, SuspectOnward DEF Sound, Truthful
<1> SUFFICES ASSUME t \notin todo[a] PROVE SuspectFits(t)
  OBVIOUS
<1>1. ASSUME NEW b \in Actor, ReadRunning(b) PROVE SuspectFits(t)
  <2>1. b = a
    BY <1>1, <1>a DEF ReadRunning
  <2> QED
    BY <1>1, <2>1, ReadFits
<1>2. ASSUME NEW b \in Actor, CheckGone(b) PROVE SuspectFits(t)
  <2>1. b = a
    BY <1>2, <1>a DEF CheckGone
  <2> QED
    BY <1>2, <2>1, CheckFits
<1>3. ASSUME NEW b \in Actor, FailGone(b) PROVE FALSE
  BY <1>3, <1>a DEF FailGone
<1>4. ASSUME NEW h \in Helper, Clean_Check(h) PROVE SuspectFits(t)
  <2>1. h = a
    BY <1>4, <1>a DEF Clean_Check, Actor
  <2> QED
    BY <1>4, <2>1, CleanCheckFits
<1>5. ASSUME NEW r \in Run, Dies(r) PROVE FALSE
  BY <1>5, <1>a DEF Dies, Actor
<1>6. ASSUME NEW r \in Run,
             \/ Start(r) \/ Claim(r) \/ MakeWorktree(r) \/ Describe(r) \/ Release(r) \/ Restore(r)
             \/ WriteJob(r) \/ Popen(r) \/ Gate(r) \/ WorkerUnit(r) \/ OwnJob(r) \/ AgentEnds(r)
             \/ ReadToClose(r) \/ CloseTree(r) \/ RecordEnd(r) \/ Outcome(r) \/ Tail(r) \/ KillTail(r)
      PROVE FALSE
  BY <1>6 DEF Start, Claim, MakeWorktree, Describe, Release, Restore, WriteJob, Popen, Gate, WorkerUnit,
     OwnJob, AgentEnds, ReadToClose, CloseTree, RecordEnd, Outcome, Tail, RecordPid, RecordJob, KillTail,
     actorVars
<1>7. ASSUME NEW h \in Helper,
             \/ Clean_Start(h) \/ Clean_Read(h) \/ Clean_Remove(h) \/ Clean_Write(h) \/ Clean_End(h)
             \/ MergeStep(h) \/ KillMerge(h) \/ Cancel_Mark(h) \/ Cancel_Read(h) \/ Cancel_Remove(h)
             \/ Cancel_Write(h)
      PROVE FALSE
  BY <1>7 DEF Clean_Start, Clean_Read, Clean_Remove, Clean_Write, Clean_End, MergeStep, Merge_Read,
     Merge_Apply, Merge_Write, Resolve_Read, KillMerge, Cancel_Mark, Cancel_Read, Cancel_Remove, Cancel_Write
<1>8. ASSUME NEW h \in Helper, Cancel_Kill(h) PROVE FALSE
  <2>1. (\E q \in Run : Dies(q)) \/ UNCHANGED todo
    BY <1>8 DEF Cancel_Kill, RunsGoOn, actorVars
  <2> QED
    BY <1>5, <2>1
<1>9. ASSUME NEW r \in Run, RunReadsRunning(r) \/ RunChecksGone(r) \/ RunFailsGone(r) PROVE SuspectFits(t)
  BY <1>1, <1>2, <1>3, <1>9 DEF RunReadsRunning, RunChecksGone, RunFailsGone, Actor
<1>10. ASSUME NEW h \in Helper, StatusStep(h) \/ Clean_Fail(h) PROVE SuspectFits(t)
  BY <1>1, <1>2, <1>3, <1>10 DEF StatusStep, Status_Read, Status_Check, Status_Fail, Clean_Fail, Actor
<1>11. ~Replan /\ ~UNCHANGED vars
  BY DEF Replan, vars, actorVars
<1> QED
  BY <1>a, <1>4, <1>5, <1>6, <1>7, <1>8, <1>9, <1>10, <1>11 DEF Next, Thread, Kill, CleanStep, CancelStep

\* A helper's own step.
HelperStep(h) == StatusStep(h) \/ CleanStep(h) \/ MergeStep(h) \/ CancelStep(h) \/ KillMerge(h)

\* Nobody else's step touches what a helper remembers, nor the merge lock it holds.
LEMMA HelperRests ==
  ASSUME Sound, NEW h \in Helper, ~HelperStep(h)
  PROVE  /\ UNCHANGED <<hpc[h], snap[h], fields[h], target[h], todo[h]>> /\ unit'[h] = unit[h]
         /\ mergeLock = h <=> mergeLock' = h
<1> USE DEF runVars, actorVars, helperVars, helperOwn, Others, RunState, Actor, HelperKeeps
<1>a. /\ [Next]_vars /\ Run \cap Helper = {} /\ None \notin Helper
      /\ unit \in [Actor -> Unit] /\ snap \in [Actor -> Record] /\ fields \in [Actor -> Fields]
      /\ todo \in [Actor -> SUBSET Suspect] /\ hpc \in [Helper -> HelperLabel]
      /\ target \in [Helper -> Run \cup {None}]
  BY ConstantsOK DEF Sound, TypeOK, RunTypes, ActorTypes, HelperTypes
<1> DEFINE Rests == /\ UNCHANGED <<hpc[h], snap[h], fields[h], target[h], todo[h]>> /\ unit'[h] = unit[h]
                    /\ mergeLock = h <=> mergeLock' = h
<1>1. ASSUME NEW r \in Run,
             \/ Start(r) \/ RunReadsRunning(r) \/ RunChecksGone(r) \/ RunFailsGone(r) \/ Claim(r)
             \/ MakeWorktree(r) \/ Describe(r) \/ Release(r) \/ Restore(r) \/ WriteJob(r) \/ Popen(r)
             \/ Gate(r) \/ WorkerUnit(r) \/ OwnJob(r) \/ AgentEnds(r)
      PROVE Rests
  BY <1>1, <1>a DEF Start, RunReadsRunning, RunChecksGone, RunFailsGone, Claim, MakeWorktree, Describe,
     Release, Restore, WriteJob, Popen, Gate, WorkerUnit, OwnJob, AgentEnds, ReadRunning, CheckGone, FailGone
<1>2. ASSUME NEW r \in Run,
             \/ ReadToClose(r) \/ CloseTree(r) \/ RecordEnd(r) \/ Outcome(r) \/ Tail(r) \/ KillTail(r)
      PROVE Rests
  BY <1>2, <1>a DEF ReadToClose, CloseTree, RecordEnd, Outcome, Tail, RecordPid, RecordJob, KillTail
<1>3. ASSUME NEW r \in Run, Dies(r) PROVE UNCHANGED <<snap[h], fields[h], todo[h]>>
  BY <1>3, <1>a DEF Dies
<1>4. ASSUME NEW r \in Run, Kill(r) PROVE Rests
  BY <1>3, <1>4 DEF Kill
<1>5. ASSUME NEW g \in Helper, g # h, StatusStep(g) \/ CleanStep(g) PROVE Rests
  BY <1>5, <1>a DEF StatusStep, CleanStep, Status_Read, Status_Check, Status_Fail, Clean_Start, Clean_Read,
     Clean_Check, Clean_Fail, Clean_Remove, Clean_Write, Clean_End, HGoto, Done, ReadRunning, CheckGone,
     FailGone
<1>6. ASSUME NEW g \in Helper, g # h, MergeStep(g) \/ KillMerge(g) PROVE Rests
  <2>1. UNCHANGED <<hpc[h], snap[h], fields[h], target[h], todo[h]>> /\ unit'[h] = unit[h]
    BY <1>6, <1>a DEF MergeStep, KillMerge, Merge_Read, Merge_Apply, Merge_Write, Resolve_Read, HGoto, Done
  <2>2. mergeLock # h /\ mergeLock' # h
    <3>1. hpc[g] \in {"merge", "merged", "conflicted"} => mergeLock = g
      BY DEF Sound, Truthful, MergeFits
    <3>2. mergeLock = None \/ mergeLock = g
      BY <1>6, <3>1 DEF MergeStep, KillMerge, Merge_Read, Merge_Apply, Merge_Write, Resolve_Read
    <3>3. mergeLock' = None \/ mergeLock' = g
      BY <1>6, <3>1 DEF MergeStep, KillMerge, Merge_Read, Merge_Apply, Merge_Write, Resolve_Read
    <3> QED
      BY <1>6, <1>a, <3>2, <3>3
  <2> QED
    BY <2>1, <2>2
<1>7. ASSUME NEW g \in Helper, g # h, CancelStep(g) PROVE Rests
  <2>1. CASE Cancel_Kill(g)
    <3>1. /\ UNCHANGED mergeLock /\ (RunsGoOn \/ \E r \in Run : Dies(r))
          /\ \E r \in Run : /\ target' = [target EXCEPT ![g] = r] /\ unit' = [unit EXCEPT ![g] = unit[r]]
          /\ \E label : HGoto(g, "idle", label)
      BY <2>1 DEF Cancel_Kill
    <3>2. UNCHANGED <<snap[h], fields[h], todo[h]>>
      BY <1>3, <3>1 DEF RunsGoOn
    <3> QED
      BY <1>7, <1>a, <3>1, <3>2 DEF HGoto
  <2>2. CASE ~Cancel_Kill(g)
    BY <1>7, <1>a, <2>2 DEF CancelStep, Cancel_Mark, Cancel_Read, Cancel_Remove, Cancel_Write, HGoto, Done
  <2> QED
    BY <2>1, <2>2
<1>8. ASSUME Replan \/ UNCHANGED vars PROVE Rests
  BY <1>8 DEF Replan, vars
<1> QED
  BY <1>a, <1>1, <1>2, <1>4, <1>5, <1>6, <1>7, <1>8 DEF Next, Thread, HelperStep

\* What a helper has read stays true while it remembers it.
LEMMA SnapFits ==
  ASSUME Sound, NEW h \in Helper, snap'[h] = snap[h], unit'[h] = unit[h], RecFits(snap[h], unit[h])
  PROVE  /\ RecFits(snap[h], unit[h])'
         /\ Past(snap[h], unit[h]) => Past(snap[h], unit[h])'
         /\ Past(snap[h], unit[h]) /\ Ended(snap[h].pid) => Ended(snap[h].pid)'
         /\ Past(snap[h], unit[h]) /\ snap[h].wt \notin disk => snap'[h].wt \notin disk'
<1>1. Onward /\ snap[h] \in Record
  BY OnwardStep DEF Sound, TypeOK, ActorTypes, Actor
<1>2. PICK x, u : x = snap[h] /\ u = unit[h]
  OBVIOUS
<1>3. RecFits(x, u)'
  BY <1>1, <1>2, FitsOnward DEF Record
<1>4. Past(x, u) => Through(x.pid)' /\ (Ended(x.pid) => Ended(x.pid)')
  BY <1>1, <1>2 DEF Onward, Past, Record
<1>5. Past(x, u) /\ x.wt \notin disk => x.wt \notin disk'
  <2>1. SUFFICES ASSUME Past(x, u), x.wt \notin disk, x.wt # None PROVE x.wt \notin disk'
    BY ConstantsOK, TypeInductive DEF Sound, TypeOK, WorldTypes
  <2>2. x.wt = x.pid /\ x.pid \in Run /\ pc[x.pid] # "worktree"
    BY <1>1, <1>2, <2>1 DEF Past, RecFits, Record, Through, Ended, Late, Closing
  <2> QED
    BY <1>1, <2>1, <2>2 DEF Onward
<1> QED
  BY <1>2, <1>3, <1>4, <1>5 DEF RecFits, Past, Ended

\* A clean removes the worktree of a run that is through, and forgets it when it is gone.
LEMMA CleanStepFits == ASSUME Sound, NEW h \in Helper PROVE CleanFits(h)'
<1> USE DEF Actor, HelperKeeps
<1>a. /\ [Next]_vars /\ Run \cap Helper = {} /\ None \notin Run /\ CleanFits(h)
      /\ unit \in [Actor -> Unit] /\ snap \in [Actor -> Record] /\ hpc \in [Helper -> HelperLabel]
      /\ todo \in [Actor -> SUBSET Suspect] /\ rec \in [Unit -> Record] /\ disk \subseteq Run
  BY ConstantsOK DEF Sound, Truthful, TypeOK, RunTypes, ActorTypes, HelperTypes, FileTypes, WorldTypes
<1>b. \A u \in Unit : RecFits(rec[u], u)
  BY DEF Sound, Truthful
<1>c. Onward
  BY OnwardStep
<1>1. CASE ~HelperStep(h)
  <2>1. UNCHANGED <<hpc[h], snap[h], todo[h]>> /\ unit'[h] = unit[h]
    BY <1>1, HelperRests
  <2>2. CASE hpc[h] \in {"cleanCheck", "cleanFail"}
    BY <1>a, <2>1, <2>2, SnapFits DEF CleanFits
  <2>3. CASE hpc[h] \in {"cleanRemove", "cleanWrite"}
    BY <1>a, <2>1, <2>3, SnapFits DEF CleanFits, Past
  <2>4. CASE hpc[h] \notin {"cleanCheck", "cleanFail", "cleanRemove", "cleanWrite"}
    BY <2>1, <2>4 DEF CleanFits
  <2> QED
    BY <2>2, <2>3, <2>4
<1>2. CASE StatusStep(h) \/ MergeStep(h) \/ CancelStep(h) \/ KillMerge(h) \/ Clean_Start(h) \/ Clean_Write(h)
           \/ Clean_End(h)
  <2>1. hpc'[h] \notin {"cleanCheck", "cleanFail", "cleanRemove", "cleanWrite"}
    BY <1>2, <1>a DEF StatusStep, MergeStep, CancelStep, KillMerge, Clean_Start, Clean_Write, Clean_End,
       Status_Read, Status_Check, Status_Fail, Merge_Read, Merge_Apply, Merge_Write, Resolve_Read,
       Cancel_Kill, Cancel_Mark, Cancel_Read, Cancel_Remove, Cancel_Write, HGoto, Done
  <2> QED
    BY <2>1 DEF CleanFits
<1>3. CASE Clean_Read(h)
  <2>1. PICK u \in Unit : /\ unit'[h] = u /\ snap'[h] = rec[u]
                          /\ hpc'[h] = IF rec[u].status = "running" THEN "cleanCheck"
                                       ELSE IF rec[u].wt # None THEN "cleanRemove" ELSE "clean"
    BY <1>3, <1>a DEF Clean_Read, HGoto, Sound, TypeOK, HelperTypes
  <2>2. UNCHANGED rec /\ RecFits(rec[u], u)'
    BY <1>3, RecordsFit DEF Clean_Read, fileVars
  <2>3. rec[u].status # "running" /\ rec[u].wt # None => rec[u].pid # None /\ Through(rec[u].pid)
    BY <1>b DEF RecFits, Blank
  <2>4. \A p \in Run : Through(p) => Through(p)'
    BY <1>c DEF Onward
  <2>5. rec[u].pid # None => rec[u].pid \in Run
    BY <1>a DEF Record
  <2> QED
    BY <2>1, <2>2, <2>3, <2>4, <2>5 DEF CleanFits, Past, RecFits
<1>4. CASE Clean_Check(h)
  <2>1. /\ UNCHANGED <<snap, unit>> /\ hpc'[h] \in {"clean", "cleanFail"}
        /\ RecFits(snap[h], unit[h]) /\ snap[h].status = "running"
    BY <1>4, <1>a DEF Clean_Check, HGoto, CleanFits
  <2>2. \A t \in todo'[h] : t.pid = snap[h].pid /\ t.unit = unit[h]
    BY <1>4, CleanCheckFits
  <2>3. RecFits(snap[h], unit[h])'
    BY <2>1, SnapFits
  <2> QED
    BY <2>1, <2>2, <2>3 DEF CleanFits
<1>5. CASE Clean_Fail(h)
  <2>1. /\ UNCHANGED <<snap, unit, disk>> /\ FailGone(h) /\ RecFits(snap[h], unit[h])
        /\ hpc'[h] = IF rec' # rec /\ snap[h].wt # None THEN "cleanRemove" ELSE "clean"
        /\ \A t \in todo[h] : t.pid = snap[h].pid
    BY <1>5, <1>a DEF Clean_Fail, HGoto, CleanFits, worldVars
  <2>2. CASE hpc'[h] = "clean"
    BY <2>2 DEF CleanFits
  <2>3. CASE hpc'[h] = "cleanRemove"
    <3>1. rec' # rec /\ snap[h].wt # None
      BY <2>1, <2>3
    <3>2. rec' \in [Unit -> Record]
      BY TypeInductive DEF Sound, TypeOK, FileTypes
    <3>3. PICK u \in Unit : rec'[u] # rec[u]
      BY <1>a, <3>1, <3>2
    <3>4. Through(snap[h].pid)
      BY <2>1, <3>3, FailGoneTurns
    <3>5. Past(snap[h], unit[h])
      BY <2>1, <3>1, <3>4 DEF Past, RecFits, Blank
    <3>6. Past(snap[h], unit[h])'
      BY <2>1, <3>5, SnapFits
    <3> QED
      BY <2>1, <2>3, <3>1, <3>6 DEF CleanFits
  <2> QED
    BY <2>1, <2>2, <2>3
<1>6. CASE Clean_Remove(h)
  <2>1. /\ UNCHANGED <<snap, unit>> /\ Past(snap[h], unit[h]) /\ snap[h].wt # None
        /\ hpc'[h] \in {"cleanWrite", "clean"} /\ (hpc'[h] = "cleanWrite" => snap[h].wt \notin disk')
    BY <1>6, <1>a DEF Clean_Remove, HGoto, CleanFits
  <2>2. Past(snap[h], unit[h])'
    BY <2>1, SnapFits DEF Past
  <2> QED
    BY <2>1, <2>2 DEF CleanFits
<1> QED
  BY <1>1, <1>2, <1>3, <1>4, <1>5, <1>6 DEF HelperStep, CleanStep

\* The record a run would put back is the one its claim replaced, with no result in it.
LEMMA PrevStep ==
  ASSUME Sound, NEW r \in Run, pc'[r] \in Claiming
  PROVE  \/ pc[r] \in Claiming /\ prev'[r] = prev[r]
         \/ /\ pc[r] = "claim"
            /\ prev'[r] = Blank \/ (/\ prev'[r] = rec[unit[r]]
                                    /\ rec[unit[r]].status \in {"pending", "failed", "cancelled"})
<1>a. Owner(r)' /\ pc \in [Run -> Label] /\ prev \in [Run -> Record] /\ unit[r] \in Unit
  BY DEF Owner, Owning, Claiming, Late, Closing, Sound, TypeOK, ThreadTypes, RunTypes, Actor
<1>1. CASE ~Owner(r)
  <2>1. Claim(r)
    BY <1>a, <1>1, OwnersClaim
  <2>2. MayClaim(at[r], unit[r]) /\ pc[r] = "claim" /\ prev'[r] = EntriesFor(at[r])[unit[r]]
    BY <1>a, <2>1 DEF Claim, At, Goto, Claiming
  <2>3. prev'[r].status \in {"pending", "failed", "cancelled"}
    BY <2>2 DEF MayClaim, MayStart, StatusIn
  <2> QED
    BY <1>a, <2>2, <2>3 DEF EntriesFor
<1>2. CASE Owner(r) /\ ~Thread(r) /\ ~Tail(r)
  BY <1>a, <1>2, OthersLeave DEF Untouched, Owner
<1>3. CASE Tail(r)
  BY <1>3 DEF Tail, RecordPid, RecordJob, runVars
<1>4. CASE Owner(r) /\ Thread(r)
  <2>1. ~RunReadsRunning(r) /\ ~RunChecksGone(r) /\ ~RunFailsGone(r) /\ ~Claim(r) /\ ~Outcome(r)
    BY <1>4 DEF RunReadsRunning, RunChecksGone, RunFailsGone, Claim, Outcome, At, Owner, Owning
  <2>2. /\ ~Restore(r) /\ ~WriteJob(r) /\ ~Popen(r) /\ ~Gate(r) /\ ~WorkerUnit(r) /\ ~OwnJob(r)
        /\ ~AgentEnds(r) /\ ~ReadToClose(r) /\ ~CloseTree(r) /\ ~RecordEnd(r)
    BY <1>a DEF Restore, WriteJob, Popen, Gate, WorkerUnit, OwnJob, AgentEnds, ReadToClose, CloseTree,
       RecordEnd, Goto, Claiming
  <2>3. MakeWorktree(r) \/ Describe(r) \/ Release(r)
    BY <1>4, <2>1, <2>2 DEF Thread
  <2> QED
    BY <1>a, <2>3 DEF MakeWorktree, Describe, Release, At, Goto, Claiming, runVars
<1> QED
  BY <1>1, <1>2, <1>3, <1>4

\* While a merge holds its lock, a record of the run it read keeps its status.
LEMMA MergeKeeps ==
  ASSUME Sound, NEW h \in Helper, mergeLock = h, mergeLock' = h, rec'[unit[h]].pid = snap[h].pid
  PROVE  rec[unit[h]].pid = snap[h].pid /\ rec'[unit[h]].status = rec[unit[h]].status
<1>1. /\ MergeFits(h) /\ h # None
  BY ConstantsOK DEF Sound, Truthful
<1>2. PICK u \in Unit : u = unit[h]
  BY DEF Sound, TypeOK, RunTypes, Actor
<1>3. /\ Turns(u) /\ Past(snap[h], u)
      /\ \A r \in Run : pc[r] \in Claiming => prev[r].pid # snap[h].pid
      /\ rec[u].pid = snap[h].pid => rec[u].status \in {"succeeded", "conflicted"}
  BY <1>1, <1>2, RecordStep DEF MergeFits
<1>4. ASSUME NEW r \in Run, StartsOn(u, r) PROVE FALSE
  BY <1>2, <1>3, <1>4 DEF StartsOn, Past, Through, Ended, Late, Closing
<1>5. CASE Forgets(u)
  BY <1>2, <1>3, <1>5 DEF Forgets, Past, Blank
<1>6. ASSUME NEW r \in Run, Undoes(u, r) PROVE FALSE
  BY <1>2, <1>3, <1>6 DEF Undoes, Claiming
<1>7. CASE Moves(u)
  BY <1>1, <1>2, <1>3, <1>7 DEF Moves
<1> QED
  BY <1>2, <1>3, <1>4, <1>5, <1>6, <1>7 DEF Turns

\* Nor can a run put the record back that a merge has read: none claimed over it.
LEMMA MergeUndone ==
  ASSUME Sound, NEW h \in Helper, mergeLock = h, NEW r \in Run, pc'[r] \in Claiming
  PROVE  prev'[r].pid # snap[h].pid
<1>1. /\ MergeFits(h) /\ Past(snap[h], unit[h]) /\ \A q \in Run : pc[q] \in Claiming => prev[q].pid # snap[h].pid
  BY DEF Sound, Truthful, MergeFits
<1>2. CASE pc[r] \in Claiming /\ prev'[r] = prev[r]
  BY <1>1, <1>2
<1>3. CASE prev'[r] = Blank
  BY <1>1, <1>3 DEF Past, Blank
<1>4. CASE prev'[r] = rec[unit[r]] /\ rec[unit[r]].status \in {"pending", "failed", "cancelled"}
  <2>1. SUFFICES ASSUME rec[unit[r]].pid = snap[h].pid PROVE FALSE
    BY <1>4
  <2>2. unit[snap[h].pid] = unit[h] /\ snap[h].pid # None /\ hpc[h] \in {"merge", "merged", "conflicted"}
    BY <1>1 DEF Past, RecFits, Sound, Truthful, MergeFits
  <2>3. RecFits(rec[unit[r]], unit[r])
    BY DEF Sound, Truthful, TypeOK, RunTypes, Actor
  <2>4. unit[r] = unit[h]
    BY <2>1, <2>2, <2>3 DEF RecFits
  <2> QED
    BY <1>1, <1>4, <2>1, <2>2, <2>4 DEF MergeFits
<1> QED
  BY <1>2, <1>3, <1>4, PrevStep

\* What a merge read, and what its record says meanwhile, fit after any step.
LEMMA MergeStepFits == ASSUME Sound, NEW h \in Helper PROVE MergeFits(h)'
<1> USE DEF Actor, HelperKeeps
<1>a. /\ MergeFits(h) /\ Onward /\ None \notin Helper
      /\ unit \in [Actor -> Unit] /\ snap \in [Actor -> Record] /\ hpc \in [Helper -> HelperLabel]
      /\ rec \in [Unit -> Record]
  BY ConstantsOK, OnwardStep DEF Sound, Truthful, TypeOK, RunTypes, ActorTypes, HelperTypes, FileTypes
<1>b. ASSUME hpc'[h] \notin {"merge", "merged", "conflicted"}, mergeLock' # h PROVE MergeFits(h)'
  BY <1>b DEF MergeFits
<1>1. CASE ~HelperStep(h)
  <2>1. /\ UNCHANGED <<hpc[h], snap[h]>> /\ unit'[h] = unit[h] /\ (mergeLock = h <=> mergeLock' = h)
    BY <1>1, HelperRests
  <2>2. CASE mergeLock = h
    <3>1. Past(snap[h], unit[h]) /\ RecFits(snap[h], unit[h]) /\ Ended(snap[h].pid)
      BY <1>a, <2>2 DEF MergeFits, Past
    <3>2. Past(snap[h], unit[h])' /\ Ended(snap[h].pid)'
      BY <2>1, <3>1, SnapFits
    <3>3. \A r \in Run : pc'[r] \in Claiming => prev'[r].pid # snap'[h].pid
      BY <2>1, <2>2, MergeUndone
    <3>4. rec'[unit[h]].pid = snap[h].pid =>
            rec[unit[h]].pid = snap[h].pid /\ rec'[unit[h]].status = rec[unit[h]].status
      BY <2>1, <2>2, MergeKeeps
    <3>5. hpc[h] \in {"merged", "conflicted"} => snap[h].pid \in landed'
      BY <1>a DEF MergeFits, Onward
    <3> QED
      BY <1>a, <2>1, <2>2, <3>2, <3>3, <3>4, <3>5 DEF MergeFits
  <2>3. CASE mergeLock # h
    BY <1>a, <1>b, <2>1, <2>3 DEF MergeFits
  <2> QED
    BY <2>2, <2>3
<1>2. CASE StatusStep(h) \/ CleanStep(h) \/ CancelStep(h)
  <2>1. UNCHANGED mergeLock
    BY <1>2 DEF StatusStep, CleanStep, CancelStep, Status_Read, Status_Check, Status_Fail, Clean_Start,
       Clean_Read, Clean_Check, Clean_Fail, Clean_Remove, Clean_Write, Clean_End, Cancel_Kill, Cancel_Mark,
       Cancel_Read, Cancel_Remove, Cancel_Write
  <2>2. hpc[h] \notin {"merge", "merged", "conflicted"}
    BY <1>2 DEF StatusStep, CleanStep, CancelStep, Status_Read, Status_Check, Status_Fail, Clean_Start,
       Clean_Read, Clean_Check, Clean_Fail, Clean_Remove, Clean_Write, Clean_End, Cancel_Kill, Cancel_Mark,
       Cancel_Read, Cancel_Remove, Cancel_Write, HGoto
  <2>3. hpc'[h] \notin {"merge", "merged", "conflicted"}
    BY <1>2, <1>a, <2>2 DEF StatusStep, CleanStep, CancelStep, Status_Read, Status_Check, Status_Fail,
       Clean_Start, Clean_Read, Clean_Check, Clean_Fail, Clean_Remove, Clean_Write, Clean_End, Cancel_Kill,
       Cancel_Mark, Cancel_Read, Cancel_Remove, Cancel_Write, HGoto, Done
  <2> QED
    BY <1>a, <1>b, <2>1, <2>2, <2>3 DEF MergeFits
<1>3. CASE Merge_Read(h) \/ Resolve_Read(h)
  <2>1. PICK u \in Unit : /\ unit'[h] = u /\ snap'[h] = rec[u] /\ mergeLock' = h /\ UNCHANGED <<rec, pc, prev, landed>>
                          /\ \/ rec[u].status = "succeeded" /\ hpc'[h] = "merge"
                             \/ rec[u].status = "conflicted" /\ hpc'[h] = "merged"
    BY <1>3, <1>a DEF Merge_Read, Resolve_Read, HGoto, Others, RunState, fileVars, worldVars
  <2>2. RecFits(rec[u], u)' /\ RecFits(rec[u], u) /\ InTree(u)
    BY RecordsFit DEF Sound, Truthful
  <2>3. rec[u].pid # None /\ Ended(rec[u].pid)
    BY <2>1, <2>2 DEF RecFits, Blank
  <2>4. Past(snap[h], unit[h])' /\ Ended(snap[h].pid)'
    BY <2>1, <2>2, <2>3 DEF Past, RecFits, Through, Ended
  <2>5. ASSUME NEW r \in Run, pc[r] \in Claiming, prev[r].pid = rec[u].pid PROVE FALSE
    <3>1. Owner(r) /\ Owns(r) /\ unit[r] \in Unit
      BY <1>a, <2>5 DEF Owner, Owning, Claiming, Late, Closing, Sound, Truthful
    <3>2. RecFits(prev[r], unit[r])
      BY <2>5, <3>1 DEF Owns
    <3>3. unit[r] = u
      BY <2>2, <2>3, <2>5, <3>2 DEF RecFits
    <3> QED
      BY <2>1, <3>1, <3>3, OwnerFacts
  <2>6. rec[u].status = "conflicted" => rec[u].pid \in landed
    BY <2>2 DEF InTree
  <2> QED
    BY <2>1, <2>4, <2>5, <2>6 DEF MergeFits
<1>4. CASE Merge_Apply(h)
  <2>1. CASE hpc'[h] \in {"merged", "conflicted"}
    <3>1. /\ UNCHANGED <<mergeLock, snap, unit, rec, pc, prev>> /\ hpc[h] = "merge" /\ snap[h].pid \in landed'
      BY <1>4, <1>a, <2>1 DEF Merge_Apply, HGoto, Done, fileVars, Others, RunState
    <3>2. mergeLock = h /\ Past(snap[h], unit[h]) /\ Ended(snap[h].pid)
      BY <1>a, <3>1 DEF MergeFits
    <3>3. Past(snap[h], unit[h])' /\ Ended(snap[h].pid)'
      BY <3>1, <3>2, SnapFits DEF Past
    <3> QED
      BY <1>a, <2>1, <3>1, <3>2, <3>3 DEF MergeFits
  <2>2. CASE hpc'[h] \notin {"merged", "conflicted"}
    <3>1. hpc'[h] = "idle" /\ mergeLock' = None
      BY <1>4, <1>a, <2>2 DEF Merge_Apply, HGoto, Done
    <3> QED
      BY <1>a, <1>b, <3>1
  <2> QED
    BY <2>1, <2>2
<1>5. CASE Merge_Write(h) \/ KillMerge(h)
  <2>1. hpc'[h] = "idle" /\ mergeLock' = None
    BY <1>5, <1>a DEF Merge_Write, KillMerge, Done
  <2> QED
    BY <1>a, <1>b, <2>1
<1> QED
  BY <1>1, <1>2, <1>3, <1>4, <1>5 DEF HelperStep, MergeStep

\* The record of a run that is through and has no result gets none.
LEMMA CancelKeeps ==
  ASSUME Sound, NEW p \in Run, Through(p), NEW u \in Unit, rec'[u].pid = p,
         rec[u].pid = p => rec[u].status \in {"running", "failed", "cancelled"}
  PROVE  rec'[u].status \in {"running", "failed", "cancelled"}
<1>1. Turns(u) /\ p # None
  BY RecordStep, ConstantsOK
<1>2. ASSUME NEW r \in Run, StartsOn(u, r) PROVE FALSE
  BY <1>2 DEF StartsOn, Through, Ended, Late, Closing
<1>3. CASE Forgets(u)
  BY <1>1, <1>3 DEF Forgets, Blank
<1>4. ASSUME NEW r \in Run, Undoes(u, r) PROVE rec'[u].status \in {"failed", "cancelled"}
  <2>1. rec'[u] = prev[r] /\ RecFits(prev[r], u) /\ rec'[u].status \in {"pending", "failed", "cancelled"}
    BY <1>4, UndoesFacts DEF Undoes
  <2> QED
    BY <1>1, <2>1 DEF RecFits
<1>5. CASE Moves(u)
  BY <1>5 DEF Moves
<1> QED
  BY <1>1, <1>2, <1>3, <1>4, <1>5 DEF Turns

\* What a cancel aims at is through when it marks it, and what it read fits after any step.
LEMMA CancelStepFits == ASSUME Sound, NEW h \in Helper PROVE CancelFits(h)'
<1> USE DEF Actor, HelperKeeps
<1>a. /\ CancelFits(h) /\ Onward /\ Fault \subseteq {"kill", "lag", "replan", "gate"} /\ Run \cap Helper = {}
      /\ unit \in [Actor -> Unit] /\ snap \in [Actor -> Record] /\ hpc \in [Helper -> HelperLabel]
      /\ fields \in [Actor -> Fields] /\ target \in [Helper -> Run \cup {None}] /\ rec \in [Unit -> Record]
      /\ pc \in [Run -> Label] /\ job \in [Run -> JobStatus]
  BY ConstantsOK, OnwardStep DEF Sound, Orderly, Truthful, TypeOK, RunTypes, ActorTypes, HelperTypes,
     FileTypes, ThreadTypes, JobTypes
<1>b. ASSUME hpc'[h] \notin {"cancelMark", "cancelRead", "cancelRemove", "cancelWrite"} PROVE CancelFits(h)'
  BY <1>b DEF CancelFits
\* A target that is kept is through still, and its record and what was read of it are as they were.
<1>c. ASSUME target'[h] = target[h], unit'[h] = unit[h],
             hpc[h] \in {"cancelMark", "cancelRead", "cancelRemove", "cancelWrite"}
      PROVE  /\ target[h] \in Run /\ Ended(target[h]) /\ Ended(target[h])' /\ unit'[h] = unit'[target[h]]
             /\ hpc[h] \in {"cancelRemove", "cancelWrite"} /\ snap'[h] = snap[h] =>
                  /\ RecFits(snap[h], unit[h])' /\ snap[h].pid = target[h]
                  /\ snap[h].wt \notin disk => snap'[h].wt \notin disk'
                  /\ rec'[unit[h]].pid = target[h] => rec'[unit[h]].status \in {"running", "failed", "cancelled"}
  <2>1. target[h] \in Run /\ Ended(target[h]) /\ unit[h] = unit[target[h]] /\ unit[h] \in Unit
    BY <1>a, <1>c DEF CancelFits
  <2>2. Ended(target[h])' /\ unit'[target[h]] = unit[target[h]]
    <3>1. PICK p \in Run : p = target[h]
      BY <2>1
    <3>2. Ended(p)' /\ unit'[p] = unit[p]
      BY <1>a, <2>1, <3>1 DEF Onward, Claimed, Through
    <3> QED
      BY <1>c, <3>1, <3>2 DEF Ended
  <2>3. ASSUME hpc[h] \in {"cancelRemove", "cancelWrite"}, snap'[h] = snap[h]
        PROVE  /\ RecFits(snap[h], unit[h])' /\ snap[h].pid = target[h]
               /\ snap[h].wt \notin disk => snap'[h].wt \notin disk'
               /\ rec'[unit[h]].pid = target[h] => rec'[unit[h]].status \in {"running", "failed", "cancelled"}
    <3>1. /\ RecFits(snap[h], unit[h]) /\ snap[h].pid = target[h] /\ target[h] # None
          /\ rec[unit[h]].pid = target[h] => rec[unit[h]].status \in {"running", "failed", "cancelled"}
      BY <1>a, <2>1, <2>3, ConstantsOK DEF CancelFits
    <3>2. Past(snap[h], unit[h])
      BY <2>1, <3>1 DEF Past, Through
    <3>3. rec'[unit[h]].pid = target[h] => rec'[unit[h]].status \in {"running", "failed", "cancelled"}
      BY <2>1, <3>1, CancelKeeps DEF Through
    <3> QED
      BY <1>c, <2>3, <3>1, <3>2, <3>3, SnapFits
  <2> QED
    BY <1>c, <2>1, <2>2, <2>3
<1>1. CASE ~HelperStep(h)
  <2>1. UNCHANGED <<hpc[h], snap[h], fields[h], target[h]>> /\ unit'[h] = unit[h]
    BY <1>1, HelperRests
  <2>2. CASE hpc[h] \in {"cancelMark", "cancelRead", "cancelRemove", "cancelWrite"}
    BY <1>a, <1>c, <2>1, <2>2 DEF CancelFits, Ended
  <2>3. CASE hpc[h] \notin {"cancelMark", "cancelRead", "cancelRemove", "cancelWrite"}
    BY <1>b, <2>1, <2>3
  <2> QED
    BY <2>2, <2>3
<1>2. CASE StatusStep(h) \/ CleanStep(h) \/ MergeStep(h) \/ KillMerge(h) \/ Cancel_Write(h)
  <2>1. hpc'[h] \notin {"cancelMark", "cancelRead", "cancelRemove", "cancelWrite"}
    BY <1>2, <1>a DEF StatusStep, CleanStep, MergeStep, Status_Read, Status_Check, Status_Fail, Clean_Start,
       Clean_Read, Clean_Check, Clean_Fail, Clean_Remove, Clean_Write, Clean_End, Merge_Read, Merge_Apply,
       Merge_Write, Resolve_Read, KillMerge, Cancel_Write, HGoto, Done
  <2> QED
    BY <1>b, <2>1
<1>3. CASE Cancel_Kill(h)
  <2>1. PICK r \in Run :
          /\ job[r] # "none" /\ (job[r] = "starting" => "early" \in Fault)
          /\ target'[h] = r /\ unit'[h] = unit[r] /\ unit'[r] = unit[r]
          /\ hpc'[h] \in {"cancelRead", "cancelMark"}
          /\ \/ Reconciled({r})[r] = "cancelled" /\ RunsGoOn
             \/ Reconciled({r})[r] \notin Finished /\ (IF jobPid[r] THEN Dies(r) ELSE RunsGoOn)
    BY <1>3, <1>a DEF Cancel_Kill, HGoto
  <2>2. LabelFits(r) /\ job[r] # "starting" /\ job[r] \in JobStatus
    BY <1>a, <2>1 DEF Sound, Truthful
  <2>3. Ended(r)'
    <3>1. CASE job[r] = "cancelled"
      <4>1. Ended(r)
        BY <2>2, <3>1 DEF LabelFits
      <4> QED
        BY <1>a, <4>1 DEF Onward
    <3>2. CASE job[r] # "cancelled"
      <4>1. Reconciled({r})[r] \in {job[r], "abandoned"}
        BY DEF Reconciled
      <4>2. Reconciled({r})[r] \notin Finished
        BY <2>1, <3>2, <4>1
      <4>3. job[r] = "running"
        BY <2>1, <2>2, <4>1, <4>2 DEF JobStatus, Finished
      <4>4. Dies(r)
        BY <2>1, <2>2, <3>2, <4>1, <4>3 DEF LabelFits
      <4> QED
        BY <1>a, <4>4 DEF Dies, Goto, Ended
    <3> QED
      BY <3>1, <3>2
  <2> QED
    BY <2>1, <2>3 DEF CancelFits, Ended
<1>4. CASE Cancel_Mark(h)
  <2>1. CASE hpc'[h] = "cancelRead"
    <3>1. UNCHANGED <<target, unit>> /\ hpc[h] = "cancelMark"
      BY <1>4, <1>a, <2>1 DEF Cancel_Mark, HGoto, Done
    <3> QED
      BY <1>c, <2>1, <3>1 DEF CancelFits, Ended
  <2>2. CASE hpc'[h] # "cancelRead"
    <3>1. hpc'[h] = "idle"
      BY <1>4, <1>a, <2>2 DEF Cancel_Mark, HGoto, Done
    <3> QED
      BY <1>b, <3>1
  <2> QED
    BY <2>1, <2>2
<1>5. CASE Cancel_Read(h)
  <2>1. CASE hpc'[h] = "cancelRemove"
    <3>1. /\ UNCHANGED <<target, unit, rec>> /\ hpc[h] = "cancelRead" /\ snap'[h] = rec[unit[h]]
          /\ rec[unit[h]].pid = target[h] /\ rec[unit[h]].status \in {"running", "failed"}
      BY <1>5, <1>a, <2>1 DEF Cancel_Read, HGoto, Done, Strays, Sound, fileVars
    <3>2. RecFits(rec[unit[h]], unit[h])'
      <4>1. PICK u \in Unit : u = unit[h]
        BY <1>a
      <4>2. RecFits(rec[u], u)'
        BY RecordsFit
      <4> QED
        BY <3>1, <4>1, <4>2 DEF RecFits
    <3> QED
      BY <1>c, <2>1, <3>1, <3>2 DEF CancelFits, Ended, RecFits
  <2>2. CASE hpc'[h] # "cancelRemove"
    <3>1. hpc'[h] = "idle"
      BY <1>5, <1>a, <2>2 DEF Cancel_Read, HGoto, Done
    <3> QED
      BY <1>b, <3>1
  <2> QED
    BY <2>1, <2>2
<1>6. CASE Cancel_Remove(h)
  <2>1. /\ UNCHANGED <<target, unit, snap>> /\ hpc[h] = "cancelRemove" /\ hpc'[h] = "cancelWrite"
        /\ fields'[h].status \in {"cancelled", "same"}
        /\ fields'[h].worktree = "gone" => snap[h].wt \notin disk'
        /\ fields'[h].worktree # "same" => snap[h].wt # None
    BY <1>6, <1>a DEF Cancel_Remove, HGoto
  <2> QED
    BY <1>c, <2>1 DEF CancelFits, Ended
<1> QED
  BY <1>1, <1>2, <1>3, <1>4, <1>5, <1>6 DEF HelperStep, CancelStep

\* Whether an update has strayed is never forgotten.
LEMMA StraysStay == TypeOK /\ [Next]_vars /\ ~strayed' => ~strayed
<1> SUFFICES ASSUME TypeOK, [Next]_vars, strayed PROVE strayed'
  OBVIOUS
<1>1. ASSUME NEW r \in Run, Start(r) \/ Thread(r) \/ RecordPid(r) \/ Kill(r) \/ KillTail(r) PROVE strayed'
  BY <1>1 DEF Start, Thread, Kill, KillTail, RunReadsRunning, RunChecksGone, RunFailsGone, Claim,
     MakeWorktree, Describe, Release, Restore, WriteJob, Popen, Gate, WorkerUnit, OwnJob, AgentEnds,
     ReadToClose, CloseTree, RecordEnd, Outcome, RecordPid, helperVars, Strays
<1>2. ASSUME NEW h \in Helper, StatusStep(h) \/ CleanStep(h) \/ MergeStep(h) \/ CancelStep(h) \/ KillMerge(h)
      PROVE strayed'
  BY <1>2 DEF StatusStep, CleanStep, MergeStep, CancelStep, Status_Read, Status_Check, Status_Fail,
     Clean_Start, Clean_Read, Clean_Check, Clean_Fail, Clean_Remove, Clean_Write, Clean_End, Merge_Read,
     Merge_Apply, Merge_Write, Resolve_Read, Cancel_Kill, Cancel_Mark, Cancel_Read, Cancel_Remove,
     Cancel_Write, KillMerge, Others, Strays
<1>3. ASSUME NEW r \in Run, RecordJob(r) PROVE strayed'
  BY <1>3 DEF RecordJob, Strays
<1>4. CASE Replan \/ UNCHANGED vars
  BY <1>4 DEF Replan, vars, helperVars
<1> QED
  BY <1>1, <1>2, <1>3, <1>4 DEF Next, Tail

\* The invariant, and that it holds of the states the files start from and after every step.
UInv == ~strayed => Truthful

\* Blank records and runs that have not started are told the truth about.
LEMMA TruthInit == Init => Truthful
<1> SUFFICES ASSUME Init PROVE Truthful
  OBVIOUS
<1> USE DEF Init, Actor
<1>1. \A r \in Run : PlanRead(r) /\ LabelFits(r) /\ DiskFits(r) /\ ~Owner(r) /\ ~Late(r)
  BY DEF PlanRead, LabelFits, DiskFits, Owner, Owning, Late, Closing, Handed, Ended
<1>2. \A u \in Unit : RecFits(rec[u], u) /\ InTree(u) /\ OnMerged(u)
  BY DEF RecFits, InTree, OnMerged, Blank
<1>3. \A a \in Actor : todo[a] = {}
  OBVIOUS
<1>4. \A h \in Helper : CleanFits(h) /\ MergeFits(h) /\ CancelFits(h)
  BY ConstantsOK DEF CleanFits, MergeFits, CancelFits
<1> QED
  BY <1>1, <1>2, <1>3, <1>4 DEF Truthful

\* Every step from a state that is told the truth about leads to another: one part after the other.
LEMMA TruthStep == ASSUME Sound PROVE Truthful'
<1>1. \A r \in Run : PlanRead(r)' /\ LabelFits(r)' /\ DiskFits(r)' /\ (Owner(r) => Owns(r))' /\ (Late(r) => Lags(r))'
  BY PlanStep, LabelStep, DiskStep, OwnsStep, LagsStep
<1>2. \A u \in Unit : RecFits(rec[u], u)' /\ InTree(u)' /\ OnMerged(u)'
  BY RecordsFit, TreeStep, MergedStep
<1>3. \A a \in Actor : \A t \in todo'[a] : SuspectFits(t)'
  BY SuspectStep
<1>4. \A h \in Helper : CleanFits(h)' /\ MergeFits(h)' /\ CancelFits(h)'
  BY CleanStepFits, MergeStepFits, CancelStepFits
<1> QED
  BY <1>1, <1>2, <1>3, <1>4 DEF Truthful

\* So the records tell the truth for as long as no update strays.
LEMMA TruthHolds == ASSUME Orderly PROVE Spec => [](TypeOK /\ UInv)
<1>1. Init => TypeOK /\ UInv
  BY TypeInit, TruthInit DEF UInv
<1>2. TypeOK /\ UInv /\ [Next]_vars => (TypeOK /\ UInv)'
  <2>1. ASSUME TypeOK, UInv, [Next]_vars PROVE TypeOK'
    BY <2>1, TypeInductive
  <2>2. ASSUME TypeOK, UInv, [Next]_vars, ~strayed' PROVE Truthful'
    <3>1. Sound
      BY <2>2, StraysStay, Orderly DEF UInv, Sound
    <3> QED
      BY <3>1, TruthStep
  <2> QED
    BY <2>1, <2>2 DEF UInv
<1> QED
  BY <1>1, <1>2, PTL DEF Spec

\* The unit of a run at work is its own.
THEOREM AgentsOwnTheirRecords == ASSUME Orderly PROVE Spec => []AgentOwnsRecord
<1>1. ASSUME TypeOK, UInv PROVE AgentOwnsRecord
  <2> SUFFICES ASSUME ~strayed, NEW r \in Run,
                      At(r, "agent") \/ (pc[r] \in Closing /\ ~SaidOver(r))
               PROVE  /\ rec[unit[r]].status = "running" /\ rec[unit[r]].pid = r
                      /\ MayStillRun(rec[unit[r]])
    BY DEF AgentOwnsRecord
  <2>1. Truthful /\ Owner(r) /\ LabelFits(r) /\ tail[r] \in TailLabel /\ r # None
    BY <1>1, ConstantsOK DEF UInv, Truthful, At, Owner, Owning, Late, Closing, TypeOK, ThreadTypes
  <2>2. /\ rec[unit[r]].status = "running" /\ rec[unit[r]].pid = r
        /\ rec[unit[r]].job = IF tail[r] = "done" THEN r ELSE None
        /\ Handed(r) => job[r] \in {"starting", "running"}
        /\ jobPid[r] => WorkerAlive(r)
        /\ ThreadAlive(r)
    BY <1>1, <2>1, OwnerSays
  <2>3. CASE tail[r] = "done"
    BY <2>1, <2>2, <2>3 DEF MayStillRun, StillGoing, JobMayRun, Finished, Handed
  <2>4. CASE tail[r] # "done"
    BY <2>1, <2>2, <2>4 DEF MayStillRun, StillGoing, CommandAlive, Handed, TailLabel, LabelFits
  <2> QED
    BY <2>2, <2>3, <2>4
<1> QED
  BY <1>1, TruthHolds, PTL

\* No two agents work in the same place, and one in the user's tree works alone: an owner's place is
\* what its record says, and a unit in place is alone in running.
THEOREM AgentsKeepApart == ASSUME Orderly PROVE Spec => []AgentsApart
<1>1. ASSUME TypeOK, UInv, InPlaceAlone PROVE AgentsApart
  <2> SUFFICES ASSUME ~strayed, NEW r \in Agents, NEW s \in Agents, r # s
               PROVE  loc[r] # loc[s] /\ loc[r] # "tree"
    BY DEF AgentsApart
  <2>1. /\ Truthful /\ r \in Run /\ s \in Run /\ Owner(r) /\ Owner(s) /\ Owns(r) /\ Owns(s)
        /\ unit[r] \in Unit /\ unit[s] \in Unit /\ "tree" \notin Run
    BY <1>1, ConstantsOK DEF UInv, Truthful, Agents, At, Owner, Owning, Late, Closing, TypeOK, RunTypes, Actor
  <2>2. unit[r] # unit[s]
    BY <2>1 DEF Owns
  <2>3. ~rec[unit[r]].inPlace /\ ~rec[unit[s]].inPlace
    BY <1>1, <2>1, <2>2 DEF Owns, InPlaceAlone
  <2> QED
    BY <2>1, <2>3 DEF Owns
<1> QED
  BY <1>1, TruthHolds, InPlaceIsAlone, PTL

\* No worktree is taken from the agent in it, and none is forgotten.
THEOREM WorktreesAreKept == ASSUME Orderly PROVE Spec => []WorktreesKept
<1>1. ASSUME TypeOK, UInv PROVE WorktreesKept
  <2>1. RunningKeepsWorktree
    <3> SUFFICES ASSUME ~strayed, NEW r \in Agents, loc[r] # "tree" PROVE loc[r] \in disk
      BY DEF RunningKeepsWorktree
    <3>1. Owns(r) /\ pc[r] = "agent"
      BY <1>1 DEF UInv, Truthful, Agents, At, Owner, Owning, Late, Closing
    <3> QED
      BY <3>1 DEF Owns
  <2>2. WorktreeFindable
    <3> SUFFICES ASSUME ~strayed, NEW w \in Unnamed PROVE pc[w] \in {"describe", "restore", "undone"}
      BY DEF WorktreeFindable
    <3>1. w \in Run /\ w \in disk /\ unit[w] \in Unit /\ DiskFits(w)
      BY <1>1 DEF UInv, Truthful, Unnamed, TypeOK, WorldTypes, RunTypes, Actor
    <3>2. rec[unit[w]].wt # w
      BY <3>1 DEF Unnamed
    <3> QED
      BY <3>1, <3>2 DEF DiskFits
  <2> QED
    BY <2>1, <2>2 DEF WorktreesKept
<1> QED
  BY <1>1, TruthHolds, PTL

\* A unit runs only on top of merged dependencies.
THEOREM UnitsStartOnMerged == ASSUME Orderly PROVE Spec => []StartsOnMerged
<1>1. ASSUME UInv PROVE StartsOnMerged
  BY <1>1 DEF UInv, Truthful, OnMerged, StartsOnMerged
<1> QED
  BY <1>1, TruthHolds, PTL

\* A result lasts until it is merged, and a merged unit is in the user's tree.
THEOREM UnitResultsLast == ASSUME Orderly PROVE Spec => ResultsLast
<1>1. ASSUME UInv PROVE MergedIsInTree
  BY <1>1 DEF UInv, Truthful, InTree, MergedIsInTree
<1>2. ASSUME TypeOK, UInv, [Next]_vars
      PROVE  [~strayed' => \A u \in Unit : owner' = owner =>
               /\ rec[u].status = "merged" => rec'[u].status = "merged"
               /\ rec[u].status = "conflicted" => rec'[u].status \in {"conflicted", "merged"}
               /\ rec[u].status = "succeeded" => rec'[u].status \in {"succeeded", "conflicted", "merged"}]_vars
  <2> SUFFICES ASSUME ~strayed', owner' = owner, NEW u \in Unit
               PROVE /\ rec[u].status = "merged" => rec'[u].status = "merged"
                     /\ rec[u].status = "conflicted" => rec'[u].status \in {"conflicted", "merged"}
                     /\ rec[u].status = "succeeded" => rec'[u].status \in {"succeeded", "conflicted", "merged"}
    OBVIOUS
  <2>1. Sound
    BY <1>2, StraysStay, Orderly DEF UInv, Sound
  <2> QED
    BY <2>1, ResultStep
<1> QED
  BY <1>1, <1>2, TruthHolds, PTL DEF Spec, ResultsLast, ResultsKept

=============================================================================
