--------------------------- MODULE DetachedProofs ---------------------------
(* Proofs about a run handed to a detached worker: an outcome that is sure    *)
(* stands, who sees a job succeeded finds the books closed, and a workflow    *)
(* that is not forced is not removed under a run that is still working.       *)
(*                                                                            *)
(* The argument is about copies. Everybody works from a copy of the job file  *)
(* that may be old when it is used: a reader that takes the worker for dead,  *)
(* a cancel between its signal and its mark, a removal that lists one job     *)
(* after another. What a copy says of a run that is over stays true, because  *)
(* a run goes only onward: a copy that fits its run once fits it for good.    *)
EXTENDS Detached, TLAPS

-----------------------------------------------------------------------------
(* Types. *)

ParentStep == {"idle", "ready", "recorded", "spawned", "done"}
WorkerStep ==
  {"none", "gone", "born", "entered", "refused", "claimed", "granted", "running", "ran", "counted", "unsent",
   "rejected", "rejected_counted", "ended", "finished"}

CancelSteps == {"look", "kill", "mark"}
CancelWork == [at: CancelSteps, run: Run, copy: Job, killed: BOOLEAN]
RemoveWork == [at: RemoveSteps, flow: Workflow, there: SUBSET Run, copies: [Run -> Job \cup {None}],
               left: SUBSET Run, now: Run \cup {None}]

StepsOK ==
  /\ parent \in [Run -> ParentStep] /\ worker \in [Run -> WorkerStep]
  /\ resumed \in [Run -> BOOLEAN] /\ ok \in [Run -> BOOLEAN] /\ stranger \in [Run -> BOOLEAN]
  /\ late \in [Run -> BOOLEAN] /\ invoked \in [Run -> Nat]
  /\ helper \in [Helper -> {Idle} \cup CancelWork \cup RemoveWork]

-----------------------------------------------------------------------------
(* The inductive invariant. *)

\* The parent has recorded the run; only then has anybody anything to read of it.
Known(r) == parent[r] \notin {"idle", "ready"}

\* Parent and worker are in step, and the worker is in its parent's workflow.
InStep(r) ==
  /\ parent[r] \in {"idle", "ready", "recorded"} => worker[r] = "none"
  /\ parent[r] = "spawned" => worker[r] # "none"
  /\ parent[r] # "idle" => home[r] \in Workflow
  /\ worker[r] \notin {"none", "born", "gone"} => at[r] = home[r]

\* A job file, or a copy of one, fits its run: it names a pid only if there was a worker, and a
\* sure outcome only if nothing is still to be written.
Fits(r, copy) ==
  /\ copy \in Job /\ Known(r)
  /\ copy.pid => worker[r] # "none"
  /\ copy.status \in Finished /\ ~copy.unsure => ~Working(r)

\* What is on disk fits; it is starting only before the claim, and says what the worker has told.
FileFits(r) ==
  job[r] # None =>
    /\ Fits(r, job[r])
    /\ job[r].status = "starting" => worker[r] \in Over \cup BeforeClaim
    /\ worker[r] = "finished" /\ job[r].status \in Finished /\ ~job[r].unsure => job[r].status = Outcome(r)

\* What `jobs wait` has read fits.
WaiterFits(r) == waiter[r] # None => Fits(r, waiter[r])

\* The grace is over only for a worker that will not come.
LateFits(r) == late[r] => Known(r) /\ ~Working(r)

\* A cancel works from a copy without an outcome, and when it says it killed the worker it did.
CancelFits(h) ==
  helper[h].at \in CancelSteps =>
    /\ Fits(helper[h].run, helper[h].copy) /\ helper[h].copy.status \notin Finished
    /\ helper[h].at = "mark" /\ helper[h].killed => worker[helper[h].run] = "gone"

\* A removal misses no run that was there: it has it still to read, or a copy of it; and it goes on
\* to sweep only when the copies show that nothing is still to be written.
RemoveFits(h) ==
  helper[h].at \in RemoveSteps =>
    /\ \A r \in Run : helper[h].copies[r] # None => Fits(r, helper[h].copies[r])
    /\ \A r \in helper[h].there :
         /\ Known(r) /\ home[r] = helper[h].flow
         /\ helper[h].at = "list" \/ r \in helper[h].left => job[r] # None
         /\ helper[h].at \in {"read", "reconcile"} => r \in helper[h].left \/ helper[h].copies[r] # None
         /\ helper[h].at = "sweep" /\ Working(r) => helper[h].copies[r] # None /\ helper[h].copies[r].unsure
    /\ helper[h].at = "reconcile" => helper[h].now \in Run /\ helper[h].copies[helper[h].now] # None

\* The entry of a run in state.json, and its calls: where the worker is tells how they stand.
Closed(r) == <<home[r], r>> \notin flight
Counted(r) == account[home[r]][r] = invoked[r]
BooksFit(r) ==
  /\ worker[r] \in {"none", "born"} =>
       /\ invoked[r] = 0
       /\ \A w \in Workflow : <<w, r>> \notin flight /\ account[w][r] = 0
  /\ r \notin swept =>
       /\ worker[r] \in {"entered", "refused", "claimed", "granted", "ended", "finished"} => Closed(r) /\ Counted(r)
       /\ worker[r] \in {"running", "unsent", "counted", "rejected_counted"} => Counted(r)
       /\ worker[r] \in {"ran", "rejected"} => account[home[r]][r] + 1 = invoked[r]
  /\ job[r] # None /\ job[r].status = "succeeded" =>
       /\ worker[r] \in {"finished", "gone"}
       /\ r \notin swept => Closed(r) /\ Counted(r)

\* A session is rejected once at most: a run is accounted for twice at most.
CallsFit(r) ==
  LET calls == account[home[r]][r] IN
  /\ worker[r] \in {"entered", "claimed", "rejected", "unsent"} => calls = 0
  /\ worker[r] = "granted" => ~resumed[r]
  /\ worker[r] = "running" /\ resumed[r] => calls = 0
  /\ worker[r] \in {"granted", "running", "ran", "rejected_counted"} => calls <= 1

RunFits(r) ==
  InStep(r) /\ FileFits(r) /\ WaiterFits(r) /\ LateFits(r) /\ BooksFit(r) /\ CallsFit(r)

DInv ==
  /\ TypeOK /\ StepsOK
  /\ \A r \in Run : RunFits(r)
  /\ \A h \in Helper : CancelFits(h) /\ RemoveFits(h)

-----------------------------------------------------------------------------
(* Job files and copies of them. *)

\* A copy may be written back with any of its fields changed.
LEMMA JobsAreJobs ==
  /\ NewJob \in Job
  /\ \A copy \in Job :
       /\ copy.status \in Finished \cup {"starting", "running"}
       /\ copy.pid \in BOOLEAN /\ copy.unsure \in BOOLEAN
       /\ \A r \in Run : job[r] \in Job \cup {None} => OnDisk(r, copy) \in Job
BY NoJobOK DEF Job, NewJob, OnDisk

\* jobs.update writes one job file, and makes its directory.
LEMMA WritesOneJob ==
  ASSUME TypeOK, NEW r \in Run, NEW copy \in Job, WriteJob(r, copy), home[r] \in Workflow
  PROVE  /\ job' \in [Run -> Job \cup {None}] /\ dir' \subseteq Workflow
         /\ job'[r] = copy
         /\ \A q \in Run \ {r} : job'[q] = job[q]
BY DEF TypeOK, WriteJob

\* What _reconcile returns for a copy is again a job.
LEMMA ReconciledIsAJob ==
  ASSUME TypeOK, NEW r \in Run, NEW copy \in Job
  PROVE  Reconciled(r, copy) \in Job
<1>1. OnDisk(r, copy) \in Job
  BY JobsAreJobs DEF TypeOK
<1>2. \A current \in Job : Abandoned(current) \in Job
  BY DEF Abandoned, Job, Finished
<1> QED
  BY <1>1, <1>2 DEF Reconciled

-----------------------------------------------------------------------------
(* Types are kept. *)

\* A workflow is resolved to a workflow.
LEMMA ResolvesToAWorkflow ==
  ASSUME TypeOK, NEW named \in Workflow \cup {None}
  PROVE  Resolve(named) \subseteq Workflow
BY DEF TypeOK, Resolve, Fresh

\* Init is well typed.
LEMMA InitTyped == Init => TypeOK /\ StepsOK
BY DEF Init, TypeOK, StepsOK, ParentStep, WorkerStep, Idle

\* A step of the parent keeps the types.
LEMMA ParentTyped ==
  ASSUME TypeOK, StepsOK, NEW r \in Run, InStep(r), ParentNext(r)
  PROVE  TypeOK' /\ StepsOK'
<1> USE DEF ParentStep, WorkerStep
<1>1. CASE ParentStarts(r)
  <2>1. PICK named \in Workflow \cup {None} : Resolved(named)
    BY <1>1 DEF ParentStarts
  <2>2. pointer' \in Workflow /\ dir' \subseteq Workflow
    BY <2>1, ResolvesToAWorkflow DEF Resolved, TypeOK
  <2> QED
    BY <1>1, <2>2 DEF ParentStarts, Parent, TypeOK, StepsOK, worker_vars
<1>2. CASE ParentRecords(r)
  <2>1. home[r] \in Workflow
    BY <1>2 DEF ParentRecords, Parent, InStep
  <2>2. job' \in [Run -> Job \cup {None}] /\ dir' \subseteq Workflow
    BY <1>2, <2>1, WritesOneJob, JobsAreJobs DEF ParentRecords
  <2> QED
    BY <1>2, <2>2 DEF ParentRecords, Parent, TypeOK, StepsOK, worker_vars
<1>3. CASE ParentSpawns(r)
  <2>1. home[r] \in Workflow
    BY <1>3 DEF ParentSpawns, Parent, InStep
  <2>2. [NewJob EXCEPT !.status = "failed"] \in Job
    BY DEF NewJob, Job, Finished
  <2>3. job' \in [Run -> Job \cup {None}] /\ dir' \subseteq Workflow
    BY <1>3, <2>1, <2>2, WritesOneJob DEF ParentSpawns, TypeOK
  <2> QED
    BY <1>3, <2>3 DEF ParentSpawns, Parent, TypeOK, StepsOK
<1>4. CASE ParentNames(r)
  <2>1. home[r] \in Workflow
    BY <1>4 DEF ParentNames, Parent, InStep
  <2>2. OnDisk(r, NewJob) \in Job
    BY JobsAreJobs DEF TypeOK
  <2>3. Named(OnDisk(r, NewJob)) \in Job
    BY <2>2 DEF Named, Job
  <2>4. job' \in [Run -> Job \cup {None}] /\ dir' \subseteq Workflow
    BY <1>4, <2>1, <2>3, WritesOneJob DEF ParentNames
  <2> QED
    BY <1>4, <2>4 DEF ParentNames, Parent, TypeOK, StepsOK, worker_vars
<1>5. CASE ParentDies(r)
  BY <1>5 DEF ParentDies, Parent, TypeOK, StepsOK, worker_vars, files
<1> QED
  BY <1>1, <1>2, <1>3, <1>4, <1>5 DEF ParentNext

\* A call that is counted was the run's first or its second.
LEMMA CountsTyped ==
  ASSUME TypeOK, StepsOK, NEW r \in Run, NEW from \in {"ran", "rejected"}, NEW to \in WorkerStep,
         InStep(r), CallsFit(r), parent[r] # "idle", Counts(r, from, to)
  PROVE  TypeOK' /\ StepsOK'
<1>1. at[r] = home[r] /\ home[r] \in Workflow
  BY DEF InStep, Counts, Worker
<1>2. account[home[r]][r] \in 0 .. 1
  BY <1>1 DEF CallsFit, Counts, Worker, TypeOK
<1>3. account' \in [Workflow -> [Run -> 0 .. 2]]
  BY <1>1, <1>2 DEF Counts, TypeOK
<1> QED
  BY <1>1, <1>3 DEF Counts, Worker, Touch, TypeOK, StepsOK, parent_vars

\* A worker writes its own job file.
LEMMA FinishesTyped ==
  ASSUME TypeOK, NEW r \in Run, home[r] \in Workflow, NEW status \in Finished, Finishes(r, status)
  PROVE  job' \in [Run -> Job \cup {None}] /\ dir' \subseteq Workflow
<1>1. OnDisk(r, NewJob) \in Job
  BY JobsAreJobs DEF TypeOK
<1>2. [OnDisk(r, NewJob) EXCEPT !.status = status, !.unsure = FALSE] \in Job
  BY <1>1 DEF Job
<1> QED
  BY <1>2, WritesOneJob DEF Finishes

\* A step of the worker keeps the types.
LEMMA WorkerTyped ==
  ASSUME TypeOK, StepsOK, NEW r \in Run, InStep(r), CallsFit(r), WorkerNext(r)
  PROVE  TypeOK' /\ StepsOK'
<1> USE DEF WorkerStep
<1>a. worker[r] # "none" /\ parent[r] # "idle" /\ home[r] \in Workflow
  BY DEF WorkerNext, Worker, WorkerEnters, WorkerRefused, WorkerClaims, WorkerBegins, WorkerRan, WorkerRaises,
         RejectedCounts, RejectedEnds, OutcomeCounts, OutcomeEnds, Counts, JobFinishes, WorkerSaves, WorkerDies,
         Over, InStep
<1>b. worker[r] \notin {"born", "gone"} => at[r] \in Workflow
  BY <1>a DEF InStep
<1>1. CASE WorkerEnters(r)
  <2>1. PassThrough(r) \in Workflow \cup {None}
    BY <1>a DEF PassThrough
  <2>2. at' \in [Run -> Workflow \cup {None}] /\ dir' \subseteq Workflow
    BY <1>1, <2>1, ResolvesToAWorkflow DEF WorkerEnters, TypeOK
  <2> QED
    BY <1>1, <2>2 DEF WorkerEnters, Worker, TypeOK, StepsOK, parent_vars
<1>2. CASE WorkerRefused(r)
  BY <1>2 DEF WorkerRefused, Worker, TypeOK, StepsOK, files, parent_vars
<1>3. CASE WorkerClaims(r)
  <2>1. OnDisk(r, NewJob) \in Job
    BY JobsAreJobs DEF TypeOK
  <2>2. [OnDisk(r, NewJob) EXCEPT !.pid = TRUE, !.status = "running", !.unsure = FALSE] \in Job
    BY <2>1 DEF Job
  <2>3. job' \in [Run -> Job \cup {None}] /\ dir' \subseteq Workflow
    BY <1>3, <1>a, <2>2, WritesOneJob DEF WorkerClaims
  <2> QED
    BY <1>3, <2>3 DEF WorkerClaims, Worker, TypeOK, StepsOK, parent_vars
<1>4. CASE WorkerBegins(r)
  BY <1>4, <1>b DEF WorkerBegins, Worker, TypeOK, StepsOK, parent_vars, Touch, InFlight
<1>5. CASE WorkerRan(r)
  <2>1. PICK reached \in BOOLEAN, well \in BOOLEAN, rejected \in BOOLEAN :
          /\ ok' = [ok EXCEPT ![r] = well]
          /\ invoked' = [invoked EXCEPT ![r] = @ + IF reached THEN 1 ELSE 0]
          /\ worker' = [worker EXCEPT ![r] =
               CASE rejected /\ reached -> "rejected"
                 [] rejected /\ ~reached -> "unsent"
                 [] ~rejected /\ reached -> "ran"
                 [] ~rejected /\ ~reached -> "counted"]
    BY <1>5 DEF WorkerRan
  <2>2. ok' \in [Run -> BOOLEAN] /\ invoked' \in [Run -> Nat] /\ worker' \in [Run -> WorkerStep]
    BY <2>1 DEF StepsOK
  <2> QED
    BY <1>5, <2>2 DEF WorkerRan, TypeOK, StepsOK, files, parent_vars
<1>6. CASE WorkerRaises(r) \/ RejectedEnds(r) \/ OutcomeEnds(r)
  <2>1. Ends(r) /\ worker[r] \notin {"born", "gone"} /\ worker' \in [Run -> WorkerStep]
    BY <1>6 DEF WorkerRaises, RejectedEnds, OutcomeEnds, Worker, StepsOK
  <2>2. flight' \subseteq Workflow \X Run /\ dir' \subseteq Workflow
    BY <2>1, <1>b DEF Ends, Touch, TypeOK
  <2>3. resumed' \in [Run -> BOOLEAN]
    BY <1>6 DEF WorkerRaises, RejectedEnds, OutcomeEnds, StepsOK
  <2> QED
    BY <1>6, <2>1, <2>2, <2>3 DEF WorkerRaises, RejectedEnds, OutcomeEnds, TypeOK, StepsOK, parent_vars
<1>7. CASE RejectedCounts(r) \/ OutcomeCounts(r)
  BY <1>7, <1>a, CountsTyped DEF RejectedCounts, OutcomeCounts
<1>8. CASE JobFinishes(r)
  <2>1. Outcome(r) \in Finished
    BY DEF Outcome, Finished
  <2>2. job' \in [Run -> Job \cup {None}] /\ dir' \subseteq Workflow
    BY <1>8, <1>a, <2>1, FinishesTyped DEF JobFinishes, Finished
  <2> QED
    BY <1>8, <2>2 DEF JobFinishes, Worker, TypeOK, StepsOK, parent_vars
<1>9. CASE WorkerSaves(r)
  <2>1. Outcome(r) \in Finished
    BY DEF Outcome, Finished
  <2>2. job' \in [Run -> Job \cup {None}] /\ dir' \subseteq Workflow
    BY <1>9, <1>a, <1>b, <2>1, FinishesTyped DEF WorkerSaves, Worker, TypeOK
  <2> QED
    BY <1>9, <2>2 DEF WorkerSaves, Worker, TypeOK, StepsOK, parent_vars
<1>10. CASE WorkerDies(r)
  BY <1>10 DEF WorkerDies, TypeOK, StepsOK, files, parent_vars
<1> QED
  BY <1>1, <1>2, <1>3, <1>4, <1>5, <1>6, <1>7, <1>8, <1>9, <1>10 DEF WorkerNext

\* A step of the machine, or of who waits for the job, keeps the types.
LEMMA OthersTyped ==
  ASSUME TypeOK, StepsOK, NEW r \in Run, InStep(r), FileFits(r), WaiterFits(r), MachineNext(r) \/ WaitNext(r)
  PROVE  TypeOK' /\ StepsOK'
<1>1. CASE PidReused(r)
  BY <1>1 DEF PidReused, TypeOK, StepsOK, files, parent_vars
<1>2. CASE GraceEnds(r)
  BY <1>2 DEF GraceEnds, TypeOK, StepsOK, files, worker_vars
<1>3. CASE WaitReads(r)
  BY <1>3 DEF WaitReads, TypeOK, StepsOK, files, parent_vars, worker_vars
<1>4. CASE WaitLooks(r)
  <2>1. waiter[r] \in Job /\ home[r] \in Workflow
    BY <1>4 DEF WaitLooks, WaiterFits, Fits, Known, InStep
  <2>2. job' \in [Run -> Job \cup {None}] /\ dir' \subseteq Workflow
    BY <1>4, <2>1, ReconciledIsAJob, WritesOneJob DEF WaitLooks, WriteReconciled, TypeOK
  <2>3. waiter' \in [Run -> Job \cup {None}]
    BY <1>4 DEF WaitLooks, TypeOK
  <2> QED
    BY <1>4, <2>2, <2>3 DEF WaitLooks, TypeOK, StepsOK, parent_vars, worker_vars
<1> QED
  BY <1>1, <1>2, <1>3, <1>4 DEF MachineNext, WaitNext

\* What a helper is at tells what it holds.
LEMMA HelperHolds ==
  ASSUME StepsOK, NEW h \in Helper
  PROVE  /\ helper[h].at \in CancelSteps => helper[h] \in CancelWork
         /\ helper[h].at \in RemoveSteps => helper[h] \in RemoveWork
         /\ helper[h].at \notin CancelSteps \cup RemoveSteps => helper[h] = Idle
<1>1. helper[h] = Idle => helper[h].at = "idle"
  BY DEF Idle
<1>2. helper[h] \in CancelWork => helper[h].at \in CancelSteps
  BY DEF CancelWork
<1>3. helper[h] \in RemoveWork => helper[h].at \in RemoveSteps
  BY DEF RemoveWork
<1>4. helper[h] = Idle \/ helper[h] \in CancelWork \/ helper[h] \in RemoveWork
  BY DEF StepsOK
<1> HIDE DEF Idle, CancelWork, RemoveWork
<1> QED
  BY <1>1, <1>2, <1>3, <1>4 DEF CancelSteps, RemoveSteps

\* A helper goes on to work of one of its kinds.
LEMMA HelpsTyped ==
  ASSUME StepsOK, NEW h \in Helper, NEW work \in {Idle} \cup CancelWork \cup RemoveWork, Helps(h, work)
  PROVE  helper' \in [Helper -> {Idle} \cup CancelWork \cup RemoveWork]
BY DEF StepsOK, Helps

\* What a cancel holds is typed.
LEMMA CancelAtTyped ==
  ASSUME NEW step \in CancelSteps, NEW r \in Run, NEW copy \in Job, NEW killed \in BOOLEAN
  PROVE  CancelAt(step, r, copy, killed) \in CancelWork
BY DEF CancelAt, CancelWork

\* A step of a cancel keeps the types.
LEMMA CancelTyped ==
  ASSUME TypeOK, StepsOK, \A r \in Run : InStep(r) /\ FileFits(r), NEW h \in Helper, CancelFits(h), CancelNext(h)
  PROVE  TypeOK' /\ StepsOK'
<1>a. helper[h].at \in CancelSteps =>
        helper[h].run \in Run /\ helper[h].copy \in Job /\ helper[h].killed \in BOOLEAN
        /\ home[helper[h].run] \in Workflow
  BY HelperHolds DEF CancelWork, CancelFits, Fits, Known, InStep
<1>1. ASSUME NEW r \in Run, CancelReads(h, r) PROVE TypeOK' /\ StepsOK'
  <2>1. job[r] \in Job
    BY <1>1 DEF CancelReads, TypeOK
  <2>2. CancelAt("look", r, job[r], FALSE) \in CancelWork
    BY <2>1, CancelAtTyped DEF CancelSteps
  <2>3. helper' \in [Helper -> {Idle} \cup CancelWork \cup RemoveWork]
    BY <1>1, <2>2, HelpsTyped DEF CancelReads
  <2> QED
    BY <1>1, <2>3 DEF CancelReads, TypeOK, StepsOK, files, parent_vars, worker_vars
<1>2. CASE CancelLooks(h)
  <2> DEFINE r == helper[h].run  copy == helper[h].copy
  <2>1. r \in Run /\ copy \in Job /\ home[r] \in Workflow
    BY <1>2, <1>a DEF CancelLooks, CancelSteps
  <2>2. job' \in [Run -> Job \cup {None}] /\ dir' \subseteq Workflow
    BY <1>2, <2>1, ReconciledIsAJob, WritesOneJob DEF CancelLooks, WriteReconciled, TypeOK
  <2>3. CancelAt("kill", r, copy, FALSE) \in CancelWork
    BY <2>1, CancelAtTyped DEF CancelSteps
  <2>4. helper' \in [Helper -> {Idle} \cup CancelWork \cup RemoveWork]
    BY <1>2, <2>3, HelpsTyped DEF CancelLooks
  <2> QED
    BY <1>2, <2>2, <2>4 DEF CancelLooks, TypeOK, StepsOK, parent_vars, worker_vars
<1>3. CASE CancelKills(h)
  <2> DEFINE r == helper[h].run  copy == helper[h].copy
  <2>1. r \in Run /\ copy \in Job
    BY <1>3, <1>a DEF CancelKills, CancelSteps
  <2>2. \A killed \in BOOLEAN : CancelAt("mark", r, copy, killed) \in CancelWork
    BY <2>1, CancelAtTyped DEF CancelSteps
  <2>3. helper' \in [Helper -> {Idle} \cup CancelWork \cup RemoveWork]
    BY <1>3, <2>2, HelpsTyped DEF CancelKills
  <2>4. worker' \in [Run -> WorkerStep] /\ stranger' \in [Run -> BOOLEAN]
    <3>1. /\ \/ worker' = [worker EXCEPT ![r] = IF @ \in Over THEN @ ELSE "gone"]
             \/ worker' = worker
          /\ \/ stranger' = [stranger EXCEPT ![r] = @ /\ tokens]
             \/ stranger' = stranger
      BY <1>3 DEF CancelKills
    <3>2. worker' \in [Run -> WorkerStep]
      BY <2>1, <3>1 DEF StepsOK, WorkerStep
    <3>3. stranger' \in [Run -> BOOLEAN]
      BY <2>1, <3>1 DEF StepsOK, TypeOK
    <3> QED
      BY <3>2, <3>3
  <2> QED
    BY <1>3, <2>3, <2>4 DEF CancelKills, TypeOK, StepsOK, files, parent_vars
<1>4. CASE CancelMarks(h)
  <2> DEFINE r == helper[h].run  copy == helper[h].copy
  <2>1. r \in Run /\ copy \in Job /\ home[r] \in Workflow /\ helper[h].killed \in BOOLEAN
    BY <1>4, <1>a DEF CancelMarks, CancelSteps
  <2>2. OnDisk(r, copy) \in Job
    BY <2>1, JobsAreJobs DEF TypeOK
  <2>3. Cancelled(OnDisk(r, copy), helper[h].killed) \in Job
    BY <2>1, <2>2 DEF Cancelled, Job, Finished
  <2>4. job' \in [Run -> Job \cup {None}] /\ dir' \subseteq Workflow
    BY <1>4, <2>1, <2>3, WritesOneJob DEF CancelMarks
  <2>5. helper' \in [Helper -> {Idle} \cup CancelWork \cup RemoveWork]
    BY <1>4, HelpsTyped DEF CancelMarks
  <2> QED
    BY <1>4, <2>4, <2>5 DEF CancelMarks, TypeOK, StepsOK, parent_vars, worker_vars
<1> QED
  BY <1>1, <1>2, <1>3, <1>4 DEF CancelNext

\* A step of a removal keeps the types.
LEMMA RemoveTyped ==
  ASSUME TypeOK, StepsOK, \A r \in Run : InStep(r) /\ FileFits(r), NEW h \in Helper, RemoveFits(h), RemoveNext(h)
  PROVE  TypeOK' /\ StepsOK'
<1>a. helper[h].at \in RemoveSteps => helper[h] \in RemoveWork
  BY HelperHolds
<1>1. ASSUME NEW w \in Workflow, NEW force \in BOOLEAN, RemoveStarts(h, w, force) PROVE TypeOK' /\ StepsOK'
  <2>1. RemoveAt("sweep", w) \in RemoveWork /\ [RemoveAt("list", w) EXCEPT !.there = Recorded(w)] \in RemoveWork
    BY DEF RemoveAt, RemoveWork, RemoveSteps, Recorded
  <2>2. helper' \in [Helper -> {Idle} \cup CancelWork \cup RemoveWork]
    BY <1>1, <2>1, HelpsTyped DEF RemoveStarts
  <2> QED
    BY <1>1, <2>2 DEF RemoveStarts, TypeOK, StepsOK, files, parent_vars, worker_vars
<1>2. CASE RemoveLists(h)
  <2>1. [helper[h] EXCEPT !.at = "read", !.left = Recorded(helper[h].flow)] \in RemoveWork
    BY <1>2, <1>a DEF RemoveLists, RemoveWork, RemoveSteps, Recorded
  <2>2. helper' \in [Helper -> {Idle} \cup CancelWork \cup RemoveWork]
    BY <1>2, <2>1, HelpsTyped DEF RemoveLists
  <2> QED
    BY <1>2, <2>2 DEF RemoveLists, TypeOK, StepsOK, files, parent_vars, worker_vars
<1>3. ASSUME NEW r \in Run, RemoveReads(h, r) PROVE TypeOK' /\ StepsOK'
  <2>1. job[r] \in Job \cup {None}
    BY DEF TypeOK
  <2>2. /\ [helper[h] EXCEPT !.left = @ \ {r}] \in RemoveWork
        /\ [helper[h] EXCEPT !.at = "reconcile", !.left = @ \ {r}, !.now = r, !.copies[r] = job[r]] \in RemoveWork
    BY <1>3, <1>a, <2>1 DEF RemoveReads, RemoveWork, RemoveSteps
  <2>3. helper' \in [Helper -> {Idle} \cup CancelWork \cup RemoveWork]
    BY <1>3, <2>2, HelpsTyped DEF RemoveReads
  <2> QED
    BY <1>3, <2>3 DEF RemoveReads, TypeOK, StepsOK, files, parent_vars, worker_vars
<1>4. CASE RemoveReconciles(h)
  <2> DEFINE r == helper[h].now  copy == helper[h].copies[r]
  <2>1. r \in Run /\ copy \in Job /\ home[r] \in Workflow
    BY <1>4 DEF RemoveReconciles, RemoveFits, RemoveSteps, Fits, Known, InStep
  <2>2. Reconciled(r, copy) \in Job
    BY <2>1, ReconciledIsAJob
  <2>3. job' \in [Run -> Job \cup {None}] /\ dir' \subseteq Workflow
    BY <1>4, <2>1, <2>2, WritesOneJob DEF RemoveReconciles, WriteReconciled, TypeOK
  <2>4. [helper[h] EXCEPT !.at = "read", !.now = None, !.copies[r] = Reconciled(r, @)] \in RemoveWork
    BY <1>4, <1>a, <2>1, <2>2 DEF RemoveReconciles, RemoveWork, RemoveSteps
  <2>5. helper' \in [Helper -> {Idle} \cup CancelWork \cup RemoveWork]
    BY <1>4, <2>4, HelpsTyped DEF RemoveReconciles
  <2> QED
    BY <1>4, <2>3, <2>5 DEF RemoveReconciles, TypeOK, StepsOK, parent_vars, worker_vars
<1>5. CASE RemoveDecides(h)
  <2>1. [helper[h] EXCEPT !.at = "sweep"] \in RemoveWork
    BY <1>5, <1>a DEF RemoveDecides, RemoveWork, RemoveSteps
  <2>2. helper' \in [Helper -> {Idle} \cup CancelWork \cup RemoveWork]
    BY <1>5, <2>1, HelpsTyped DEF RemoveDecides
  <2> QED
    BY <1>5, <2>2 DEF RemoveDecides, TypeOK, StepsOK, files, parent_vars, worker_vars
<1>6. CASE RemoveSweeps(h)
  <2>1. helper[h].flow \in Workflow
    BY <1>6, <1>a DEF RemoveSweeps, RemoveWork, RemoveSteps
  <2>2. job' \in [Run -> Job \cup {None}] /\ account' \in [Workflow -> [Run -> 0 .. 2]] /\ swept' \subseteq Run
        /\ dir' \subseteq Workflow /\ flight' \subseteq Workflow \X Run
    BY <1>6, <2>1 DEF RemoveSweeps, TypeOK
  <2>3. \A g \in Helper : helper[g].at \in RemoveSteps =>
          \A gone \in SUBSET Run : [helper[g] EXCEPT !.there = @ \ gone] \in RemoveWork
    BY HelperHolds DEF RemoveWork
  <2>4. helper' \in [Helper -> {Idle} \cup CancelWork \cup RemoveWork]
    BY <1>6, <2>3 DEF RemoveSweeps, StepsOK
  <2> QED
    BY <1>6, <2>2, <2>4 DEF RemoveSweeps, TypeOK, StepsOK, parent_vars, worker_vars
<1> QED
  BY <1>1, <1>2, <1>3, <1>4, <1>5, <1>6 DEF RemoveNext

-----------------------------------------------------------------------------
(* A run goes only onward. *)

\* Initially everything fits.
LEMMA InitFits == Init => DInv
<1> SUFFICES ASSUME Init PROVE DInv
  OBVIOUS
<1>1. TypeOK /\ StepsOK
  BY InitTyped
<1>2. \A r \in Run : RunFits(r)
  BY <1>1 DEF Init, RunFits, InStep, FileFits, WaiterFits, LateFits, BooksFit, CallsFit
<1>3. \A h \in Helper : CancelFits(h) /\ RemoveFits(h)
  BY DEF Init, CancelFits, RemoveFits, Idle, CancelSteps, RemoveSteps
<1> QED
  BY <1>1, <1>2, <1>3 DEF DInv

\* What a step never takes back.
Onward(r) ==
  /\ Known(r) => Known(r)' /\ home'[r] = home[r]
  /\ worker[r] # "none" => worker'[r] # "none"
  /\ worker[r] = "gone" => worker'[r] = "gone"
  /\ Known(r) /\ ~Working(r) => ~Working(r)'

\* A copy that fits its run fits it after the step.
FitsNext(r, copy) ==
  /\ copy \in Job /\ Known(r)'
  /\ copy.pid => worker'[r] # "none"
  /\ copy.status \in Finished /\ ~copy.unsure => ~Working(r)'

\* A run that goes on makes none of the copies taken of its file untrue.
LEMMA CopiesStay ==
  ASSUME NEW r, Onward(r), NEW copy, Fits(r, copy)
  PROVE  FitsNext(r, copy)
BY DEF Onward, Fits, FitsNext

\* The steps that leave the parent and the worker where they are.
LEMMA NobodyMoves ==
  ASSUME UNCHANGED <<parent, home, worker>>
  PROVE  \A r \in Run : Onward(r)
BY DEF Onward, Known, Working

\* A step of the parent takes its run onward.
LEMMA ParentGoesOnward ==
  ASSUME TypeOK, StepsOK, NEW r \in Run, InStep(r), ParentNext(r)
  PROVE  \A q \in Run : Onward(q)
<1> USE DEF TypeOK, StepsOK, Onward, Known, Working, Parent, Over
<1>1. CASE ParentStarts(r)
  BY <1>1 DEF ParentStarts, worker_vars
<1>2. CASE ParentRecords(r)
  BY <1>2 DEF ParentRecords, worker_vars
<1>3. CASE ParentSpawns(r)
  BY <1>3 DEF ParentSpawns, InStep
<1>4. CASE ParentNames(r)
  BY <1>4 DEF ParentNames, worker_vars
<1>5. CASE ParentDies(r)
  BY <1>5 DEF ParentDies, worker_vars
<1> QED
  BY <1>1, <1>2, <1>3, <1>4, <1>5 DEF ParentNext

\* A step of the worker takes its run onward.
LEMMA WorkerGoesOnward ==
  ASSUME TypeOK, StepsOK, NEW r \in Run, WorkerNext(r)
  PROVE  \A q \in Run : Onward(q)
<1>1. /\ UNCHANGED <<parent, home>>
      /\ \E to \in WorkerStep \ {"none"} : worker' = [worker EXCEPT ![r] = to]
      /\ worker[r] \notin Over
      /\ worker[r] = "finished" => worker'[r] = "gone"
  <2> USE DEF WorkerStep, Over, parent_vars, Worker, StepsOK
  <2>1. CASE WorkerEnters(r) \/ WorkerRefused(r) \/ WorkerClaims(r) \/ WorkerBegins(r)
    BY <2>1 DEF WorkerEnters, WorkerRefused, WorkerClaims, WorkerBegins
  <2>2. CASE WorkerRan(r)
    BY <2>2 DEF WorkerRan
  <2>3. CASE WorkerRaises(r) \/ RejectedCounts(r) \/ RejectedEnds(r) \/ OutcomeCounts(r) \/ OutcomeEnds(r)
    BY <2>3 DEF WorkerRaises, RejectedCounts, RejectedEnds, OutcomeCounts, OutcomeEnds, Counts
  <2>4. CASE JobFinishes(r) \/ WorkerSaves(r) \/ WorkerDies(r)
    BY <2>4 DEF JobFinishes, WorkerSaves, WorkerDies
  <2> QED
    BY <2>1, <2>2, <2>3, <2>4 DEF WorkerNext
<1> QED
  BY <1>1 DEF StepsOK, Onward, Known, Working, Over

\* A cancel stops a worker at most.
LEMMA CancelGoesOnward ==
  ASSUME TypeOK, StepsOK, NEW h \in Helper, CancelNext(h)
  PROVE  \A q \in Run : Onward(q)
<1>1. /\ UNCHANGED <<parent, home>>
      /\ \/ UNCHANGED worker
         \/ \E r : worker' = [worker EXCEPT ![r] = IF @ \in Over THEN @ ELSE "gone"]
  BY DEF CancelNext, CancelReads, CancelLooks, CancelKills, CancelMarks, parent_vars, worker_vars
<1> QED
  BY <1>1 DEF StepsOK, Onward, Known, Working, Over

\* Every step takes every run onward.
LEMMA StepGoesOnward ==
  ASSUME TypeOK, StepsOK, \A q \in Run : InStep(q), [Next]_vars
  PROVE  \A q \in Run : Onward(q)
<1>1. ASSUME NEW r \in Run, MachineNext(r) \/ WaitNext(r) PROVE \A q \in Run : Onward(q)
  BY <1>1, NobodyMoves DEF MachineNext, PidReused, GraceEnds, WaitNext, WaitReads, WaitLooks, parent_vars, worker_vars
<1>2. ASSUME NEW h \in Helper, RemoveNext(h) PROVE \A q \in Run : Onward(q)
  BY <1>2, NobodyMoves DEF RemoveNext, RemoveStarts, RemoveLists, RemoveReads, RemoveReconciles, RemoveDecides,
     RemoveSweeps, parent_vars, worker_vars
<1>3. ASSUME NEW w \in Workflow, Use(w) \/ ClearStalls(w) PROVE \A q \in Run : Onward(q)
  BY <1>3, NobodyMoves DEF Use, ClearStalls, parent_vars, worker_vars
<1>4. ASSUME UNCHANGED vars PROVE \A q \in Run : Onward(q)
  BY <1>4, NobodyMoves DEF vars, parent_vars, worker_vars
<1> QED
  BY <1>1, <1>2, <1>3, <1>4, ParentGoesOnward, WorkerGoesOnward, CancelGoesOnward DEF Next

-----------------------------------------------------------------------------
(* What a step leaves alone fits as before. *)

\* A step that has nothing to do with a run.
Still(r) ==
  /\ UNCHANGED <<parent[r], home[r], worker[r], at[r], resumed[r], ok[r], invoked[r], job[r], late[r], waiter[r]>>
  /\ \A w \in Workflow : (<<w, r>> \in flight' <=> <<w, r>> \in flight) /\ account'[w][r] = account[w][r]
  /\ r \in swept' <=> r \in swept

\* What fitted a run fits it after a step that has nothing to do with it.
LEMMA StillFits ==
  ASSUME TypeOK, NEW r \in Run, RunFits(r), Still(r)
  PROVE  RunFits(r)'
<1> USE DEF RunFits
<1>1. InStep(r)'
  BY DEF Still, InStep
<1>2. \A copy : Fits(r, copy) => FitsNext(r, copy)
  BY DEF Still, Fits, FitsNext, Known, Working
<1>3. FileFits(r)'
  BY <1>2 DEF Still, FileFits, Fits, FitsNext, Outcome
<1>4. WaiterFits(r)'
  BY <1>2 DEF Still, WaiterFits, Fits, FitsNext
<1>5. LateFits(r)'
  BY DEF Still, LateFits, Known, Working
<1>6. worker[r] \notin {"none", "born"} \/ job[r] # None =>
        home[r] \in Workflow \/ worker[r] = "gone"
  BY DEF InStep, FileFits, Fits, Known
<1>7. job[r] # None => home[r] \in Workflow
  BY DEF InStep, FileFits, Fits, Known
<1>8. BooksFit(r)'
  BY <1>6, <1>7 DEF Still, BooksFit, Closed, Counted
<1>9. CallsFit(r)'
  BY <1>6 DEF Still, CallsFit
<1> QED
  BY <1>1, <1>3, <1>4, <1>5, <1>8, <1>9

\* The copy of who waits, and the end of the grace, where a step leaves them.
LEMMA ReadersFit ==
  ASSUME NEW r \in Run, RunFits(r), Onward(r), UNCHANGED <<waiter[r], late[r]>>
  PROVE  WaiterFits(r)' /\ LateFits(r)'
<1>1. waiter[r] # None => FitsNext(r, waiter[r])
  BY CopiesStay DEF RunFits, WaiterFits
<1>2. WaiterFits(r)'
  BY <1>1 DEF WaiterFits, Fits, FitsNext
<1>3. LateFits(r)'
  BY DEF RunFits, LateFits, Onward
<1> QED
  BY <1>2, <1>3

\* A job file that is not written still fits, while what it says of the worker is so.
LEMMA FileStays ==
  ASSUME NEW r \in Run, RunFits(r), Onward(r), UNCHANGED job[r],
         job[r] # None /\ job[r].status = "starting" => worker'[r] \in Over \cup BeforeClaim,
         worker'[r] = "finished" => UNCHANGED <<worker[r], ok[r]>>
  PROVE  FileFits(r)'
<1>1. job[r] # None => FitsNext(r, job[r])
  BY CopiesStay DEF RunFits, FileFits
<1> QED
  BY <1>1 DEF RunFits, FileFits, Fits, FitsNext, Outcome

-----------------------------------------------------------------------------
(* The parent. *)

\* A step of a parent has nothing to do with the other runs.
LEMMA ParentsAreApart ==
  ASSUME TypeOK, StepsOK, NEW r \in Run, ParentNext(r), NEW q \in Run \ {r}
  PROVE  Still(q)
<1> USE DEF Still, TypeOK, StepsOK, Parent
<1>1. \A copy : WriteJob(r, copy) => job'[q] = job[q]
  BY DEF WriteJob
<1>2. CASE ParentStarts(r)
  BY <1>2 DEF ParentStarts, worker_vars
<1>3. CASE ParentRecords(r)
  BY <1>1, <1>3 DEF ParentRecords, worker_vars
<1>4. CASE ParentSpawns(r)
  BY <1>1, <1>4 DEF ParentSpawns
<1>5. CASE ParentNames(r)
  BY <1>1, <1>5 DEF ParentNames, worker_vars
<1>6. CASE ParentDies(r)
  BY <1>6 DEF ParentDies, worker_vars, files
<1> QED
  BY <1>2, <1>3, <1>4, <1>5, <1>6 DEF ParentNext

\* A step of its parent leaves a run fitting.
LEMMA ParentFits ==
  ASSUME TypeOK, StepsOK, NEW r \in Run, RunFits(r), ParentNext(r)
  PROVE  RunFits(r)'
<1>a. Onward(r)
  BY ParentGoesOnward DEF RunFits
<1>b. UNCHANGED <<waiter[r], late[r], at, resumed, ok, invoked, flight, account, swept>>
  BY DEF ParentNext, ParentStarts, ParentRecords, ParentSpawns, ParentNames, ParentDies, worker_vars, files
<1>c. WaiterFits(r)' /\ LateFits(r)'
  BY <1>a, <1>b, ReadersFit
<1>1. CASE ParentStarts(r)
  <2>1. PICK named \in Workflow \cup {None} : Resolved(named)
    BY <1>1 DEF ParentStarts
  <2>2. home'[r] \in Workflow
    BY <1>1, <2>1, ResolvesToAWorkflow DEF ParentStarts, Resolved, TypeOK
  <2>3. worker[r] = "none" /\ job[r] = None /\ UNCHANGED <<worker, job>> /\ parent'[r] = "ready"
    BY <1>1 DEF ParentStarts, Parent, RunFits, InStep, FileFits, Fits, Known, worker_vars, StepsOK
  <2>4. InStep(r)' /\ FileFits(r)' /\ BooksFit(r)' /\ CallsFit(r)'
    BY <1>b, <2>2, <2>3 DEF InStep, FileFits, BooksFit, CallsFit, RunFits
  <2> QED
    BY <1>c, <2>4 DEF RunFits
<1>2. CASE ParentRecords(r)
  <2>1. /\ worker[r] = "none" /\ UNCHANGED <<worker, home>> /\ parent'[r] = "recorded"
        /\ job'[r] = NewJob
    BY <1>2, JobsAreJobs DEF ParentRecords, Parent, WriteJob, RunFits, InStep, TypeOK, StepsOK, worker_vars
  <2>2. Fits(r, NewJob)'
    BY <2>1, JobsAreJobs DEF Fits, NewJob, Known, Finished
  <2>3. InStep(r)' /\ FileFits(r)' /\ BooksFit(r)' /\ CallsFit(r)'
    <3>1. InStep(r)'
      BY <1>2, <2>1 DEF ParentRecords, Parent, RunFits, InStep
    <3>2. FileFits(r)'
      BY <2>1, <2>2 DEF FileFits, NewJob, Over, Finished
    <3>3. BooksFit(r)' /\ CallsFit(r)'
      BY <1>b, <2>1 DEF BooksFit, CallsFit, RunFits, NewJob
    <3> QED
      BY <3>1, <3>2, <3>3
  <2> QED
    BY <1>c, <2>3 DEF RunFits
<1>3. CASE ParentSpawns(r) /\ parent'[r] = "spawned"
  <2>1. /\ worker[r] = "none" /\ worker'[r] = "born" /\ UNCHANGED <<job, home>> /\ parent[r] = "recorded"
    BY <1>3 DEF ParentSpawns, Parent, RunFits, InStep, StepsOK
  <2>2. InStep(r)'
    BY <1>3, <2>1 DEF RunFits, InStep
  <2>3. FileFits(r)'
    BY <1>a, <2>1, FileStays DEF BeforeClaim
  <2>4. BooksFit(r)' /\ CallsFit(r)'
    BY <1>b, <2>1 DEF BooksFit, CallsFit, RunFits
  <2> QED
    BY <1>c, <2>2, <2>3, <2>4 DEF RunFits
<1>4. CASE ParentSpawns(r) /\ parent'[r] # "spawned"
  <2> DEFINE failed == [NewJob EXCEPT !.status = "failed"]
  <2>1. /\ worker[r] = "none" /\ UNCHANGED <<worker, home>> /\ parent[r] = "recorded" /\ parent'[r] = "done"
        /\ job'[r] = failed
    BY <1>4 DEF ParentSpawns, Parent, WriteJob, RunFits, InStep, TypeOK, StepsOK
  <2>2. failed \in Job /\ failed.status = "failed" /\ failed.pid = FALSE
    BY DEF NewJob, Job, Finished
  <2> HIDE DEF failed
  <2>3. Fits(r, failed)'
    BY <2>1, <2>2 DEF Fits, Known, Working, Over
  <2>4. InStep(r)'
    BY <2>1 DEF RunFits, InStep
  <2>5. FileFits(r)'
    BY <2>1, <2>2, <2>3 DEF FileFits
  <2>6. BooksFit(r)' /\ CallsFit(r)'
    BY <1>b, <2>1, <2>2 DEF BooksFit, CallsFit, RunFits
  <2> QED
    BY <1>c, <2>4, <2>5, <2>6 DEF RunFits
<1>5. CASE ParentNames(r)
  <2> DEFINE current == OnDisk(r, NewJob)  named == Named(current)
  <2>1. /\ worker[r] # "none" /\ UNCHANGED <<worker, home>> /\ parent[r] = "spawned" /\ parent'[r] = "done"
        /\ job'[r] = named
    BY <1>5 DEF ParentNames, Parent, WriteJob, RunFits, InStep, TypeOK, StepsOK, worker_vars
  <2>2. current \in Job
    BY JobsAreJobs DEF TypeOK
  <2>3. named \in Job /\ named.status # "starting" /\ (named.unsure <=> current.unsure)
        /\ (named.status \in Finished => named.status = current.status)
    BY <2>2 DEF Named, Job, Finished
  <2>4. current.status \in Finished => job[r] # None /\ current = job[r]
    BY DEF OnDisk, NewJob, Finished
  <2> HIDE DEF named, current
  <2>5. FitsNext(r, named)
    BY <1>a, <2>1, <2>3, <2>4 DEF RunFits, FileFits, Fits, FitsNext, Onward, Known
  <2>6. InStep(r)'
    BY <1>b, <2>1 DEF RunFits, InStep
  <2>7. FileFits(r)'
    BY <1>b, <2>1, <2>3, <2>4, <2>5 DEF RunFits, FileFits, Fits, FitsNext, Outcome
  <2>8. BooksFit(r)' /\ CallsFit(r)'
    BY <1>b, <2>1, <2>3, <2>4 DEF RunFits, BooksFit, CallsFit, Closed, Counted, Finished
  <2> QED
    BY <1>c, <2>6, <2>7, <2>8 DEF RunFits
<1>6. CASE ParentDies(r)
  <2>1. UNCHANGED <<worker, home, job>> /\ parent[r] \in {"ready", "recorded", "spawned"} /\ parent'[r] = "done"
    BY <1>6 DEF ParentDies, Parent, StepsOK, worker_vars, files
  <2>2. InStep(r)'
    BY <1>b, <2>1 DEF RunFits, InStep
  <2>3. FileFits(r)'
    BY <1>a, <1>b, <2>1, FileStays DEF RunFits, FileFits
  <2>4. BooksFit(r)' /\ CallsFit(r)'
    BY <1>b, <2>1 DEF RunFits, BooksFit, CallsFit, Closed, Counted
  <2> QED
    BY <1>c, <2>2, <2>3, <2>4 DEF RunFits
<1> QED
  BY <1>1, <1>2, <1>3, <1>4, <1>5, <1>6 DEF ParentNext

-----------------------------------------------------------------------------
(* The worker. *)

\* Where the worker of a run that has one finds itself.
LEMMA WorkerIsHome ==
  ASSUME NEW r \in Run, InStep(r), worker[r] # "none"
  PROVE  /\ parent[r] \notin {"idle", "ready", "recorded"} /\ Known(r) /\ home[r] \in Workflow
         /\ worker[r] \notin {"born", "gone"} => at[r] = home[r]
BY DEF InStep, Known

\* The worker moves from one place of its own to another.
LEMMA WorkerMoves ==
  ASSUME TypeOK, StepsOK, NEW r \in Run, WorkerNext(r)
  PROVE  /\ worker[r] \notin Over /\ worker'[r] \in WorkerStep \ {"none", "born"}
         /\ \A q \in Run \ {r} : worker'[q] = worker[q]
         /\ UNCHANGED <<parent, home, late, waiter, stranger, swept, helper, tokens, pointer>>
<1> USE DEF WorkerStep, Over, parent_vars, Worker, StepsOK
<1>1. CASE WorkerEnters(r) \/ WorkerRefused(r) \/ WorkerClaims(r) \/ WorkerBegins(r)
  BY <1>1 DEF WorkerEnters, WorkerRefused, WorkerClaims, WorkerBegins
<1>2. CASE WorkerRan(r)
  BY <1>2 DEF WorkerRan
<1>3. CASE WorkerRaises(r) \/ RejectedCounts(r) \/ RejectedEnds(r) \/ OutcomeCounts(r) \/ OutcomeEnds(r)
  BY <1>3 DEF WorkerRaises, RejectedCounts, RejectedEnds, OutcomeCounts, OutcomeEnds, Counts
<1>4. CASE JobFinishes(r) \/ WorkerSaves(r) \/ WorkerDies(r)
  BY <1>4 DEF JobFinishes, WorkerSaves, WorkerDies
<1> QED
  BY <1>1, <1>2, <1>3, <1>4 DEF WorkerNext

\* A step of a worker has nothing to do with the other runs.
LEMMA WorkersAreApart ==
  ASSUME TypeOK, StepsOK, NEW r \in Run, InStep(r), WorkerNext(r), NEW q \in Run \ {r}
  PROVE  Still(q)
<1>a. worker'[q] = worker[q] /\ UNCHANGED <<parent[q], home[q], late[q], waiter[q], swept>>
  BY WorkerMoves
<1>b. \A copy : WriteJob(r, copy) => job'[q] = job[q]
  BY DEF WriteJob, TypeOK
<1>c. Ends(r) => \A w \in Workflow : <<w, q>> \in flight' <=> <<w, q>> \in flight
  BY DEF Ends, InFlight
<1>d. \A from, to : Counts(r, from, to) => \A w \in Workflow : account'[w][q] = account[w][q]
  BY DEF Counts, TypeOK
<1> USE <1>a DEF Still, TypeOK, StepsOK
<1>1. CASE WorkerEnters(r) \/ WorkerRefused(r) \/ WorkerDies(r)
  BY <1>1 DEF WorkerEnters, WorkerRefused, WorkerDies, files
<1>2. CASE WorkerClaims(r)
  BY <1>2, <1>b DEF WorkerClaims
<1>3. CASE WorkerBegins(r)
  BY <1>3 DEF WorkerBegins, InFlight
<1>4. CASE WorkerRan(r)
  BY <1>4 DEF WorkerRan, files
<1>5. CASE WorkerRaises(r) \/ RejectedEnds(r) \/ OutcomeEnds(r)
  BY <1>5, <1>c DEF WorkerRaises, RejectedEnds, OutcomeEnds
<1>6. CASE RejectedCounts(r) \/ OutcomeCounts(r)
  BY <1>6, <1>d DEF RejectedCounts, OutcomeCounts, Counts
<1>7. CASE JobFinishes(r)
  BY <1>7, <1>b DEF JobFinishes, Finishes
<1>8. CASE WorkerSaves(r)
  BY <1>8, <1>b DEF WorkerSaves, Finishes
<1> QED
  BY <1>1, <1>2, <1>3, <1>4, <1>5, <1>6, <1>7, <1>8 DEF WorkerNext

\* The worker works in its parent's workflow.
LEMMA WorkerStaysHome ==
  ASSUME TypeOK, StepsOK, NEW r \in Run, InStep(r), WorkerNext(r)
  PROVE  InStep(r)'
<1>1. worker[r] # "none" /\ worker'[r] # "none" /\ UNCHANGED <<parent, home>>
  BY WorkerMoves DEF Over, WorkerStep
<1>2. CASE WorkerEnters(r)
  <2>1. Resolve(PassThrough(r)) = {home[r]}
    BY <1>1, WorkerIsHome, NoneOutside DEF Resolve, PassThrough
  <2>2. at'[r] = home[r]
    BY <1>2, <2>1 DEF WorkerEnters, TypeOK
  <2> QED
    BY <1>1, <2>2 DEF InStep
<1>3. CASE ~WorkerEnters(r) /\ ~WorkerDies(r)
  <2>1. UNCHANGED at /\ worker[r] \notin {"none", "born", "gone"}
    BY <1>3 DEF WorkerNext, Worker, WorkerRefused, WorkerClaims, WorkerBegins, WorkerRan, WorkerRaises,
       RejectedCounts, RejectedEnds, OutcomeCounts, OutcomeEnds, Counts, JobFinishes, WorkerSaves
  <2> QED
    BY <1>1, <2>1 DEF InStep
<1>4. CASE WorkerDies(r)
  BY <1>1, <1>4 DEF InStep, WorkerDies, StepsOK
<1> QED
  BY <1>2, <1>3, <1>4

\* jobs.finish writes an outcome that is sure.
LEMMA FinishesSurely ==
  ASSUME TypeOK, NEW r \in Run, NEW status \in Finished, Finishes(r, status)
  PROVE  job'[r] \in Job /\ job'[r].status = status /\ ~job'[r].unsure
         /\ job'[r].pid = OnDisk(r, NewJob).pid
<1>1. OnDisk(r, NewJob) \in Job
  BY JobsAreJobs DEF TypeOK
<1>2. [OnDisk(r, NewJob) EXCEPT !.status = status, !.unsure = FALSE] \in Job
  BY <1>1 DEF Job
<1>3. job'[r] = [OnDisk(r, NewJob) EXCEPT !.status = status, !.unsure = FALSE]
  BY DEF Finishes, WriteJob, TypeOK
<1> QED
  BY <1>1, <1>2, <1>3 DEF Job

\* The job file fits after every step of the worker.
LEMMA WorkerFilesFit ==
  ASSUME TypeOK, StepsOK, NEW r \in Run, RunFits(r), WorkerNext(r)
  PROVE  FileFits(r)'
<1>a. Onward(r) /\ Known(r) /\ parent[r] # "recorded"
  BY WorkerGoesOnward, WorkerMoves, WorkerIsHome DEF RunFits, Over
<1>b. worker[r] \notin Over /\ worker'[r] \in WorkerStep \ {"none", "born"} /\ UNCHANGED <<parent, home>>
  BY WorkerMoves
<1>c. Known(r)' /\ worker'[r] # "none" /\ (worker'[r] \in {"gone", "finished"} => ~Working(r)')
  BY <1>a, <1>b DEF Known, Working, Over
<1>d. ASSUME NEW status \in Finished, Finishes(r, status), worker'[r] \in {"gone", "finished"},
             worker'[r] = "finished" => status = Outcome(r)'
      PROVE  FileFits(r)'
  BY <1>c, <1>d, FinishesSurely DEF FileFits, Fits, Finished
<1>1. CASE WorkerEnters(r) \/ WorkerRefused(r) \/ WorkerDies(r)
  BY <1>1, <1>a, FileStays DEF WorkerEnters, WorkerRefused, WorkerDies, Worker, StepsOK, BeforeClaim, Over, files
<1>2. CASE WorkerClaims(r)
  <2> DEFINE claimed == [OnDisk(r, NewJob) EXCEPT !.pid = TRUE, !.status = "running", !.unsure = FALSE]
  <2>1. OnDisk(r, NewJob) \in Job
    BY JobsAreJobs DEF TypeOK
  <2>2. claimed \in Job /\ claimed.status = "running"
    BY <2>1 DEF Job
  <2>3. job'[r] = claimed
    BY <1>2 DEF WorkerClaims, WriteJob, TypeOK
  <2> HIDE DEF claimed
  <2>4. FitsNext(r, claimed)
    BY <1>c, <2>2 DEF FitsNext, Finished
  <2> QED
    BY <2>2, <2>3, <2>4 DEF FileFits, Fits, FitsNext, Finished
<1>3. CASE WorkerBegins(r) \/ WorkerRan(r) \/ WorkerRaises(r) \/ RejectedCounts(r) \/ RejectedEnds(r)
             \/ OutcomeCounts(r) \/ OutcomeEnds(r)
  <2>1. UNCHANGED job /\ worker[r] \notin Over \cup BeforeClaim /\ worker'[r] # "finished"
    <3> USE DEF Worker, Over, BeforeClaim, StepsOK
    <3>1. CASE WorkerRan(r)
      BY <3>1 DEF WorkerRan, files
    <3>2. CASE WorkerBegins(r) \/ WorkerRaises(r) \/ RejectedCounts(r) \/ RejectedEnds(r)
                 \/ OutcomeCounts(r) \/ OutcomeEnds(r)
      BY <3>2 DEF WorkerBegins, WorkerRaises, RejectedCounts, RejectedEnds, OutcomeCounts, OutcomeEnds, Counts
    <3> QED
      BY <1>3, <3>1, <3>2
  <2>2. job[r] # None => job[r].status # "starting"
    BY <2>1 DEF RunFits, FileFits
  <2> QED
    BY <1>a, <2>1, <2>2, FileStays
<1>4. CASE JobFinishes(r)
  <2>1. Outcome(r) \in Finished /\ Outcome(r)' = Outcome(r)
    BY <1>4 DEF JobFinishes, Outcome, Finished
  <2>2. PICK status \in Finished : Finishes(r, status) /\ worker'[r] \in {"gone", "finished"}
                                   /\ (worker'[r] = "finished" => status = Outcome(r))
    BY <1>4, <2>1 DEF JobFinishes, Worker, StepsOK, Finished
  <2> QED
    BY <1>d, <2>1, <2>2
<1>5. CASE WorkerSaves(r)
  <2>1. worker[r] = "finished" /\ worker'[r] = "gone"
    BY <1>5 DEF WorkerSaves, Worker, StepsOK
  <2>2. CASE UNCHANGED job
    BY <1>a, <2>1, <2>2, FileStays DEF Over
  <2>3. CASE Finishes(r, Outcome(r))
    BY <1>d, <2>1, <2>3 DEF Outcome, Finished
  <2> QED
    BY <1>5, <2>2, <2>3 DEF WorkerSaves
<1> QED
  BY <1>1, <1>2, <1>3, <1>4, <1>5 DEF WorkerNext

\* Ending the entry closes it, and counting counts it, in the parent's workflow.
LEMMA EndsCloses ==
  ASSUME NEW r \in Run, at[r] = home[r], UNCHANGED home, Ends(r)
  PROVE  Closed(r)'
BY DEF Ends, InFlight, Closed

\* Counting adds the run to the account of its parent's workflow, once.
LEMMA CountsOnce ==
  ASSUME TypeOK, NEW r \in Run, at[r] = home[r], home[r] \in Workflow, UNCHANGED home,
         NEW from, NEW to, Counts(r, from, to)
  PROVE  account'[home[r]][r] = account[home[r]][r] + 1 /\ account[home[r]][r] \in 0 .. 2
BY DEF Counts, TypeOK

\* The books fit after every step of the worker.
LEMMA WorkerBooksFit ==
  ASSUME TypeOK, StepsOK, NEW r \in Run, RunFits(r), WorkerNext(r)
  PROVE  BooksFit(r)' /\ CallsFit(r)'
<1>a. home[r] \in Workflow /\ (worker[r] # "born" => at[r] = home[r])
  BY WorkerIsHome, WorkerMoves DEF RunFits, Over
<1>b. worker[r] \notin Over /\ worker'[r] \in WorkerStep \ {"none", "born"} /\ UNCHANGED <<home, swept>>
  BY WorkerMoves
<1>c. BooksFit(r) /\ CallsFit(r)
  BY DEF RunFits
<1>d. UNCHANGED job => (job'[r] # None /\ job'[r].status = "succeeded" => worker[r] = "finished")
  BY <1>b, <1>c DEF BooksFit, Over
<1> USE DEF Worker, StepsOK
<1>1. CASE WorkerEnters(r)
  <2>1. worker[r] = "born" /\ worker'[r] = "entered" /\ UNCHANGED <<job, flight, account, invoked, resumed>>
    BY <1>1 DEF WorkerEnters
  <2> QED
    BY <1>a, <1>b, <1>c, <1>d, <2>1 DEF BooksFit, CallsFit, Closed, Counted
<1>2. CASE WorkerRefused(r)
  <2>1. worker[r] = "entered" /\ worker'[r] = "refused" /\ UNCHANGED <<job, flight, account, invoked, resumed>>
    BY <1>2 DEF WorkerRefused, files
  <2> QED
    BY <1>a, <1>b, <1>c, <1>d, <2>1 DEF BooksFit, CallsFit, Closed, Counted
<1>3. CASE WorkerClaims(r)
  <2>1. worker[r] = "entered" /\ worker'[r] = "claimed" /\ UNCHANGED <<flight, account, invoked>>
    BY <1>3 DEF WorkerClaims
  <2>2. job'[r].status = "running"
    <3>1. OnDisk(r, NewJob) \in Job
      BY JobsAreJobs DEF TypeOK
    <3>2. job'[r] = [OnDisk(r, NewJob) EXCEPT !.pid = TRUE, !.status = "running", !.unsure = FALSE]
      BY <1>3 DEF WorkerClaims, WriteJob, TypeOK
    <3> QED
      BY <3>1, <3>2 DEF Job
  <2> QED
    BY <1>a, <1>b, <1>c, <2>1, <2>2 DEF BooksFit, CallsFit, Closed, Counted
<1>4. CASE WorkerBegins(r)
  <2>1. worker[r] \in {"claimed", "granted"} /\ worker'[r] = "running" /\ UNCHANGED <<job, account, invoked, resumed>>
    BY <1>4 DEF WorkerBegins
  <2> QED
    BY <1>a, <1>b, <1>c, <1>d, <2>1 DEF BooksFit, CallsFit, Closed, Counted
<1>5. CASE WorkerRan(r)
  <2>1. PICK reached \in BOOLEAN, well \in BOOLEAN, rejected \in BOOLEAN :
          /\ rejected => resumed[r]
          /\ invoked' = [invoked EXCEPT ![r] = @ + IF reached THEN 1 ELSE 0]
          /\ worker' = [worker EXCEPT ![r] =
               CASE rejected /\ reached -> "rejected"
                 [] rejected /\ ~reached -> "unsent"
                 [] ~rejected /\ reached -> "ran"
                 [] ~rejected /\ ~reached -> "counted"]
    BY <1>5 DEF WorkerRan
  <2>2. worker[r] = "running" /\ UNCHANGED <<job, flight, account, resumed>>
    BY <1>5 DEF WorkerRan, files
  <2>3. /\ invoked'[r] = IF reached THEN invoked[r] + 1 ELSE invoked[r]
        /\ worker'[r] = IF reached THEN IF rejected THEN "rejected" ELSE "ran"
                                   ELSE IF rejected THEN "unsent" ELSE "counted"
    BY <2>1
  <2>4. account[home[r]][r] \in 0 .. 2 /\ account'[home'[r]][r] = account[home[r]][r]
    BY <1>a, <1>b, <2>2 DEF TypeOK
  <2>5. BooksFit(r)'
    BY <1>b, <1>c, <1>d, <2>2, <2>3, <2>4 DEF BooksFit, Counted
  <2>6. CallsFit(r)'
    BY <1>b, <1>c, <2>1, <2>2, <2>3, <2>4 DEF CallsFit
  <2> QED
    BY <2>5, <2>6
<1>6. CASE WorkerRaises(r) \/ RejectedEnds(r) \/ OutcomeEnds(r)
  <2>1. /\ worker[r] \in {"running", "rejected_counted", "unsent", "counted"}
        /\ worker'[r] \in {"refused", "granted", "ended"} /\ UNCHANGED <<job, account, invoked>> /\ Ends(r)
        /\ worker'[r] = "granted" => worker[r] \in {"rejected_counted", "unsent"} /\ ~resumed'[r]
    BY <1>6 DEF WorkerRaises, RejectedEnds, OutcomeEnds
  <2>2. Closed(r)'
    BY <1>a, <1>b, <2>1, EndsCloses
  <2>3. account[home[r]][r] \in 0 .. 2 /\ account'[home'[r]][r] = account[home[r]][r]
    BY <1>a, <1>b, <2>1 DEF TypeOK
  <2>4. BooksFit(r)'
    BY <1>b, <1>c, <1>d, <2>1, <2>2 DEF BooksFit, Counted
  <2>5. CallsFit(r)'
    BY <1>b, <1>c, <2>1, <2>3 DEF CallsFit
  <2> QED
    BY <2>4, <2>5
<1>7. CASE RejectedCounts(r) \/ OutcomeCounts(r)
  <2>1. /\ \/ worker[r] = "rejected" /\ worker'[r] = "rejected_counted"
           \/ worker[r] = "ran" /\ worker'[r] = "counted"
        /\ UNCHANGED <<job, flight, invoked, resumed>>
        /\ \E from, to : Counts(r, from, to)
    BY <1>7 DEF RejectedCounts, OutcomeCounts, Counts
  <2>2. account'[home[r]][r] = account[home[r]][r] + 1 /\ account[home[r]][r] \in 0 .. 2
    BY <1>a, <1>b, <2>1, CountsOnce
  <2> QED
    BY <1>b, <1>c, <1>d, <2>1, <2>2 DEF BooksFit, CallsFit, Counted
<1>8. CASE JobFinishes(r)
  <2>1. UNCHANGED <<flight, account, invoked, resumed>>
    BY <1>8 DEF JobFinishes
  <2>2. CASE worker[r] = "ended" /\ worker'[r] = "finished"
    BY <1>b, <1>c, <2>1, <2>2 DEF BooksFit, CallsFit, Closed, Counted
  <2>3. CASE Finishes(r, "failed") /\ worker'[r] = "gone"
    BY <1>b, <1>c, <2>1, <2>3, FinishesSurely DEF BooksFit, CallsFit, Finished
  <2> QED
    BY <1>8, <2>2, <2>3 DEF JobFinishes
<1>9. CASE WorkerSaves(r)
  <2>1. worker[r] = "finished" /\ worker'[r] = "gone" /\ UNCHANGED <<flight, account, invoked, resumed>>
    BY <1>9 DEF WorkerSaves
  <2> QED
    BY <1>b, <1>c, <2>1 DEF BooksFit, CallsFit, Closed, Counted
<1>10. CASE WorkerDies(r)
  <2>1. worker'[r] = "gone" /\ UNCHANGED <<job, flight, account, invoked, resumed>>
    BY <1>10 DEF WorkerDies, files
  <2> QED
    BY <1>b, <1>c, <1>d, <2>1 DEF BooksFit, CallsFit, Closed, Counted
<1> QED
  BY <1>1, <1>2, <1>3, <1>4, <1>5, <1>6, <1>7, <1>8, <1>9, <1>10 DEF WorkerNext

\* A step of its worker leaves a run fitting.
LEMMA WorkerFits ==
  ASSUME TypeOK, StepsOK, NEW r \in Run, RunFits(r), WorkerNext(r)
  PROVE  RunFits(r)'
<1>1. Onward(r) /\ UNCHANGED <<waiter[r], late[r]>>
  BY WorkerGoesOnward, WorkerMoves
<1>2. WaiterFits(r)' /\ LateFits(r)'
  BY <1>1, ReadersFit
<1> QED
  BY <1>2, WorkerStaysHome, WorkerFilesFit, WorkerBooksFit DEF RunFits

-----------------------------------------------------------------------------
(* Who reads the job file, and writes what it found. *)

\* A worker that looks dead is gone: nothing of its run is still to be written.
LEMMA DeadIsGone ==
  ASSUME NEW r \in Run, InStep(r), NEW copy, Fits(r, copy), LooksDead(r, copy)
  PROVE  worker[r] = "gone" /\ ~Working(r)
BY DEF InStep, Fits, LooksDead, WorkerAlive, PidAlive, Over, Working

\* What _reconcile returns fits as the copy did, and so does what it writes.
LEMMA ReconcileFits ==
  ASSUME TypeOK, StepsOK, NEW r \in Run, RunFits(r), NEW copy, Fits(r, copy), WriteReconciled(r, copy),
         UNCHANGED <<parent, home, worker, ok, invoked, flight, account, swept>>
  PROVE  /\ Fits(r, Reconciled(r, copy)) /\ FileFits(r)' /\ BooksFit(r)'
         /\ \A q \in Run : job[q] # None => job'[q] # None
         /\ \A q \in Run \ {r} : job'[q] = job[q]
<1>1. CASE ~LooksDead(r, copy)
  <2>1. UNCHANGED job /\ Reconciled(r, copy) = copy
    BY <1>1 DEF WriteReconciled, Reconciled
  <2> QED
    BY <2>1 DEF RunFits, FileFits, BooksFit, Fits, Known, Working, Closed, Counted, Outcome
<1>2. CASE LooksDead(r, copy)
  <2> DEFINE current == OnDisk(r, copy)  found == Reconciled(r, copy)
  <2>1. worker[r] = "gone" /\ ~Working(r) /\ Known(r) /\ copy \in Job /\ copy.status \notin Finished
    BY <1>2, DeadIsGone DEF RunFits, Fits, LooksDead
  <2>2. current \in Job
    BY <2>1, JobsAreJobs DEF TypeOK
  <2>3. found \in Job /\ found.status \in Finished /\ (found.status = "succeeded" => current.status = "succeeded")
    BY <1>2, <2>2 DEF Reconciled, Abandoned, Job, Finished
  <2>4. current.status = "succeeded" => job[r] # None /\ current = job[r]
    BY <2>1 DEF OnDisk, Finished
  <2>5. job' = [job EXCEPT ![r] = found]
    BY <1>2 DEF WriteReconciled, WriteJob
  <2>6. job'[r] = found /\ found # None /\ \A q \in Run \ {r} : job'[q] = job[q]
    BY <2>3, <2>5, NoJobOK DEF TypeOK
  <2> HIDE DEF current, found
  <2>7. Fits(r, found)
    BY <2>1, <2>3 DEF Fits
  <2>8. FileFits(r)'
    BY <2>1, <2>3, <2>6, <2>7 DEF FileFits, Fits, Known, Working, Finished
  <2>9. BooksFit(r)'
    BY <2>1, <2>3, <2>4, <2>6 DEF RunFits, BooksFit, Closed, Counted
  <2> QED
    BY <2>6, <2>7, <2>8, <2>9 DEF found
<1> QED
  BY <1>1, <1>2

\* A step of the machine, or of who waits, leaves every run fitting.
LEMMA OthersFit ==
  ASSUME TypeOK, StepsOK, NEW r \in Run, RunFits(r), MachineNext(r) \/ WaitNext(r)
  PROVE  /\ RunFits(r)' /\ UNCHANGED helper
         /\ \A q \in Run \ {r} : Still(q)
         /\ \A q \in Run : job[q] # None => job'[q] # None
<1>a. UNCHANGED <<parent, home, worker, at, resumed, ok, invoked, flight, account, swept>>
  BY DEF MachineNext, WaitNext, PidReused, GraceEnds, WaitReads, WaitLooks, files, parent_vars, worker_vars
<1>b. InStep(r)' /\ CallsFit(r)' /\ UNCHANGED helper /\ Onward(r)
  BY <1>a, NobodyMoves
     DEF RunFits, InStep, CallsFit, MachineNext, WaitNext, PidReused, GraceEnds, WaitReads, WaitLooks
<1>c. UNCHANGED job => FileFits(r)' /\ BooksFit(r)'
  BY <1>a DEF RunFits, FileFits, BooksFit, Fits, Known, Working, Closed, Counted, Outcome
<1>1. CASE PidReused(r)
  BY <1>1, <1>a, <1>b, <1>c, ReadersFit DEF PidReused, RunFits, Still, files, parent_vars
<1>2. CASE GraceEnds(r)
  <2>1. UNCHANGED <<job, waiter>> /\ (\A q \in Run \ {r} : late'[q] = late[q]) /\ Known(r) /\ ~Working(r)
    BY <1>2 DEF GraceEnds, RunFits, FileFits, Fits, Working, Over, BeforeClaim, StepsOK, files
  <2>2. WaiterFits(r)' /\ LateFits(r)'
    BY <1>a, <2>1 DEF RunFits, WaiterFits, LateFits, Fits, Known, Working
  <2> QED
    BY <1>a, <1>b, <1>c, <2>1, <2>2 DEF RunFits, Still
<1>3. CASE WaitReads(r)
  <2>1. UNCHANGED <<job, late>> /\ waiter'[r] = job[r] /\ (\A q \in Run \ {r} : waiter'[q] = waiter[q])
    BY <1>3 DEF WaitReads, TypeOK, files, parent_vars
  <2>2. WaiterFits(r)' /\ LateFits(r)'
    BY <1>a, <2>1 DEF RunFits, WaiterFits, LateFits, FileFits, Fits, Known, Working
  <2> QED
    BY <1>a, <1>b, <1>c, <2>1, <2>2 DEF RunFits, Still
<1>4. CASE WaitLooks(r)
  <2>1. /\ UNCHANGED late /\ waiter'[r] = None /\ (\A q \in Run \ {r} : waiter'[q] = waiter[q])
        /\ Fits(r, waiter[r]) /\ WriteReconciled(r, waiter[r])
    BY <1>4 DEF WaitLooks, RunFits, WaiterFits, TypeOK, parent_vars
  <2>2. FileFits(r)' /\ BooksFit(r)' /\ (\A q \in Run : job[q] # None => job'[q] # None)
        /\ (\A q \in Run \ {r} : job'[q] = job[q])
    BY <1>a, <2>1, ReconcileFits
  <2>3. WaiterFits(r)' /\ LateFits(r)'
    BY <1>a, <2>1 DEF RunFits, WaiterFits, LateFits, Known, Working
  <2> QED
    BY <1>a, <1>b, <2>1, <2>2, <2>3 DEF RunFits, Still
<1> QED
  BY <1>1, <1>2, <1>3, <1>4 DEF MachineNext, WaitNext

-----------------------------------------------------------------------------
(* The helpers. *)

\* What a helper holds fits after a step of somebody else that removes no job.
LEMMA HelperStands ==
  ASSUME StepsOK, NEW h \in Helper, CancelFits(h), RemoveFits(h), helper'[h] = helper[h],
         \A r \in Run : Onward(r) /\ (job[r] # None => job'[r] # None)
  PROVE  CancelFits(h)' /\ RemoveFits(h)'
<1>1. CancelFits(h)'
  <2>1. SUFFICES ASSUME helper[h].at \in CancelSteps PROVE CancelFits(h)'
    BY DEF CancelFits
  <2>2. helper[h].run \in Run
    BY <2>1, HelperHolds DEF CancelWork
  <2>3. FitsNext(helper[h].run, helper[h].copy)
    BY <2>1, <2>2, CopiesStay DEF CancelFits
  <2> QED
    BY <2>1, <2>2, <2>3 DEF CancelFits, Fits, FitsNext, Onward
<1>2. RemoveFits(h)'
  <2>1. SUFFICES ASSUME helper[h].at \in RemoveSteps PROVE RemoveFits(h)'
    BY DEF RemoveFits
  <2>2. helper[h].there \subseteq Run
    BY <2>1, HelperHolds DEF RemoveWork
  <2>3. \A r \in Run : helper[h].copies[r] # None => FitsNext(r, helper[h].copies[r])
    BY <2>1, CopiesStay DEF RemoveFits
  <2>4. \A r \in helper[h].there : Known(r)' /\ home'[r] = helper[h].flow /\ (Working(r)' => Working(r))
    BY <2>1, <2>2 DEF RemoveFits, Onward
  <2> QED
    BY <2>1, <2>2, <2>3, <2>4 DEF RemoveFits, Fits, FitsNext
<1> QED
  BY <1>1, <1>2

\* What it took up and what everybody else holds.
LEMMA OtherHelpers ==
  ASSUME StepsOK, NEW h \in Helper, NEW work, Helps(h, work)
  PROVE  helper'[h] = work /\ \A g \in Helper \ {h} : helper'[g] = helper[g]
BY DEF StepsOK, Helps

\* A step of a cancel leaves every run fitting, and removes no job.
LEMMA CancelLeavesRuns ==
  ASSUME TypeOK, StepsOK, \A r \in Run : RunFits(r), NEW h \in Helper, CancelFits(h), CancelNext(h)
  PROVE  \A r \in Run : RunFits(r)' /\ (job[r] # None => job'[r] # None)
<1>a. helper[h].at \in CancelSteps =>
        helper[h].run \in Run /\ helper[h].copy \in Job /\ helper[h].killed \in BOOLEAN
  BY HelperHolds DEF CancelWork
<1>b. UNCHANGED <<parent, home, late, at, resumed, ok, invoked, flight, account, waiter, swept>>
  BY DEF CancelNext, CancelReads, CancelLooks, CancelKills, CancelMarks, parent_vars, worker_vars, files
<1>c. \A r \in Run : worker'[r] = worker[r] /\ job'[r] = job[r] => Still(r)
  BY <1>b DEF Still
<1>1. ASSUME NEW r \in Run, CancelReads(h, r) PROVE \A q \in Run : RunFits(q)' /\ (job[q] # None => job'[q] # None)
  BY <1>1, <1>c, StillFits DEF CancelReads, files, worker_vars
<1>2. CASE CancelLooks(h)
  <2>1. PICK r \in Run, copy \in Job : Fits(r, copy) /\ WriteReconciled(r, copy) /\ UNCHANGED worker
    BY <1>2, <1>a DEF CancelLooks, CancelFits, CancelSteps, worker_vars
  <2>2. FileFits(r)' /\ BooksFit(r)' /\ (\A q \in Run : job[q] # None => job'[q] # None)
        /\ (\A q \in Run \ {r} : job'[q] = job[q])
    BY <1>b, <2>1, ReconcileFits
  <2>3. InStep(r)' /\ CallsFit(r)' /\ WaiterFits(r)' /\ LateFits(r)'
    BY <1>b, <2>1 DEF RunFits, InStep, CallsFit, WaiterFits, LateFits, Fits, Known, Working
  <2>4. \A q \in Run \ {r} : RunFits(q)'
    BY <1>c, <2>1, <2>2, StillFits
  <2> QED
    BY <2>2, <2>3, <2>4 DEF RunFits
<1>3. CASE CancelKills(h)
  <2>1. PICK r \in Run : worker' = [worker EXCEPT ![r] = IF @ \in Over THEN @ ELSE "gone"] \/ worker' = worker
    BY <1>3, <1>a DEF CancelKills, CancelSteps
  <2>2. UNCHANGED job
    BY <1>3 DEF CancelKills, files
  <2>3. \A q \in Run \ {r} : RunFits(q)'
    BY <1>c, <2>1, <2>2, StillFits DEF StepsOK
  <2>4. worker'[r] = worker[r] \/ (worker[r] \notin Over /\ worker'[r] = "gone")
    BY <2>1 DEF StepsOK
  <2>5. Onward(r)
    BY <1>b, <2>4 DEF Onward, Known, Working, Over
  <2>6. InStep(r)' /\ CallsFit(r)'
    BY <1>b, <2>4 DEF RunFits, InStep, CallsFit, Over
  <2>7. FileFits(r)'
    BY <1>b, <2>2, <2>4, <2>5, FileStays DEF RunFits, FileFits, Over
  <2>8. WaiterFits(r)' /\ LateFits(r)'
    BY <1>b, <2>5, ReadersFit
  <2>9. BooksFit(r)'
    BY <1>b, <2>2, <2>4 DEF RunFits, BooksFit, Closed, Counted, Over
  <2> QED
    BY <2>2, <2>3, <2>6, <2>7, <2>8, <2>9 DEF RunFits
<1>4. CASE CancelMarks(h)
  <2>1. PICK r \in Run, copy \in Job, killed \in BOOLEAN :
          /\ Fits(r, copy) /\ copy.status \notin Finished
          /\ killed => worker[r] = "gone"
          /\ job' = [job EXCEPT ![r] = Cancelled(OnDisk(r, copy), killed)] /\ UNCHANGED worker
    BY <1>4, <1>a DEF CancelMarks, CancelFits, CancelSteps, WriteJob, worker_vars
  <2>2. OnDisk(r, copy) \in Job /\ Fits(r, OnDisk(r, copy))
    BY <2>1, JobsAreJobs DEF TypeOK, OnDisk, RunFits, FileFits
  <2>3. PICK current \in Job : current = OnDisk(r, copy)
    BY <2>2
  <2>4. PICK marked : marked = Cancelled(current, killed)
    OBVIOUS
  <2>5. current.status \in Finished => job[r] # None /\ current = job[r] /\ marked = current
    BY <2>1, <2>3, <2>4 DEF OnDisk, Cancelled
  <2>6. current.status \notin Finished =>
          /\ marked \in Job /\ marked.status = "cancelled" /\ (marked.unsure <=> ~killed)
          /\ marked.pid <=> current.pid
    BY <2>1, <2>3, <2>4 DEF Cancelled, Job, Finished
  <2>7. /\ marked \in Job /\ marked # None
        /\ job'[r] = marked /\ \A q \in Run \ {r} : job'[q] = job[q]
    BY <2>1, <2>3, <2>4, <2>5, <2>6, NoJobOK DEF TypeOK
  <2>8. \A q \in Run \ {r} : RunFits(q)'
    BY <1>c, <2>1, <2>7, StillFits
  <2>9. InStep(r)' /\ CallsFit(r)' /\ WaiterFits(r)' /\ LateFits(r)'
    BY <1>b, <2>1 DEF RunFits, InStep, CallsFit, WaiterFits, LateFits, Fits, Known, Working
  <2>10. FileFits(r)' /\ BooksFit(r)'
    <3>1. CASE current.status \in Finished
      <4>1. job'[r] = job[r]
        BY <2>5, <2>7, <3>1
      <4> QED
        BY <1>b, <2>1, <4>1 DEF RunFits, FileFits, BooksFit, Fits, Known, Working, Closed, Counted, Outcome
    <3>2. CASE current.status \notin Finished
      <4>1. killed => ~Working(r)
        BY <2>1 DEF RunFits, InStep, Working, Over
      <4>2. FitsNext(r, marked)
        BY <1>b, <2>1, <2>2, <2>3, <2>6, <2>7, <3>2, <4>1 DEF Fits, FitsNext, Known, Working
      <4> QED
        BY <1>b, <2>1, <2>6, <2>7, <3>2, <4>2 DEF RunFits, FileFits, BooksFit, Fits, FitsNext, Closed, Counted
    <3> QED
      BY <3>1, <3>2
  <2> QED
    BY <2>7, <2>8, <2>9, <2>10 DEF RunFits
<1> QED
  BY <1>1, <1>2, <1>3, <1>4 DEF CancelNext

\* A step of a cancel leaves what the helpers hold fitting.
LEMMA CancelLeavesHelpers ==
  ASSUME TypeOK, StepsOK, \A r \in Run : RunFits(r), NEW h \in Helper, CancelFits(h), CancelNext(h)
  PROVE  CancelFits(h)' /\ RemoveFits(h)' /\ \A g \in Helper \ {h} : helper'[g] = helper[g]
<1>a. \A r \in Run : Onward(r)
  BY CancelGoesOnward
<1>b. helper[h].at \in CancelSteps =>
        helper[h].run \in Run /\ helper[h].copy \in Job /\ helper[h].killed \in BOOLEAN
  BY HelperHolds DEF CancelWork
<1>c. ASSUME NEW step \in CancelSteps, NEW r \in Run, NEW copy, NEW killed \in BOOLEAN,
             Helps(h, CancelAt(step, r, copy, killed)), FitsNext(r, copy), copy.status \notin Finished,
             step = "mark" /\ killed => worker'[r] = "gone"
      PROVE  CancelFits(h)' /\ RemoveFits(h)' /\ \A g \in Helper \ {h} : helper'[g] = helper[g]
  <2>1. helper'[h] = CancelAt(step, r, copy, killed) /\ \A g \in Helper \ {h} : helper'[g] = helper[g]
    BY <1>c, OtherHelpers
  <2> QED
    BY <1>c, <2>1 DEF CancelAt, CancelFits, RemoveFits, CancelSteps, RemoveSteps, Fits, FitsNext
<1>d. Helps(h, Idle) => CancelFits(h)' /\ RemoveFits(h)' /\ \A g \in Helper \ {h} : helper'[g] = helper[g]
  BY OtherHelpers DEF Idle, CancelFits, RemoveFits, CancelSteps, RemoveSteps
<1>1. ASSUME NEW r \in Run, CancelReads(h, r)
      PROVE  CancelFits(h)' /\ RemoveFits(h)' /\ \A g \in Helper \ {h} : helper'[g] = helper[g]
  <2>1. Fits(r, job[r])
    BY <1>1 DEF CancelReads, RunFits, FileFits
  <2>2. FitsNext(r, job[r])
    BY <1>a, <2>1, CopiesStay
  <2> QED
    BY <1>1, <1>c, <2>2 DEF CancelReads, CancelSteps
<1>2. CASE CancelLooks(h)
  <2>1. PICK r \in Run, copy \in Job :
          /\ Fits(r, copy) /\ copy.status \notin Finished
          /\ Helps(h, IF LooksDead(r, copy) THEN Idle ELSE CancelAt("kill", r, copy, FALSE))
    BY <1>2, <1>b DEF CancelLooks, CancelFits, CancelSteps
  <2>2. FitsNext(r, copy)
    BY <1>a, <2>1, CopiesStay
  <2>3. CASE LooksDead(r, copy)
    BY <1>d, <2>1, <2>3
  <2>4. CASE ~LooksDead(r, copy)
    BY <1>c, <2>1, <2>2, <2>4 DEF CancelSteps
  <2> QED
    BY <2>3, <2>4
<1>3. CASE CancelKills(h)
  <2>1. PICK r \in Run, copy \in Job :
          /\ Fits(r, copy) /\ copy.status \notin Finished
          /\ IF copy.pid /\ WorkerAlive(r) # "no"
             THEN \/ /\ worker' = [worker EXCEPT ![r] = IF @ \in Over THEN @ ELSE "gone"]
                     /\ \E killed \in BOOLEAN : Helps(h, CancelAt("mark", r, copy, killed))
                  \/ Helps(h, Idle)
             ELSE Helps(h, CancelAt("mark", r, copy, FALSE))
    BY <1>3, <1>b DEF CancelKills, CancelFits, CancelSteps
  <2>2. FitsNext(r, copy)
    BY <1>a, <2>1, CopiesStay
  <2>3. CASE Helps(h, Idle)
    BY <1>d, <2>3
  <2>4. CASE Helps(h, CancelAt("mark", r, copy, FALSE))
    BY <1>c, <2>1, <2>2, <2>4 DEF CancelSteps
  <2>5. ASSUME NEW killed \in BOOLEAN, copy.pid, Helps(h, CancelAt("mark", r, copy, killed)),
               worker' = [worker EXCEPT ![r] = IF @ \in Over THEN @ ELSE "gone"]
        PROVE  CancelFits(h)' /\ RemoveFits(h)' /\ \A g \in Helper \ {h} : helper'[g] = helper[g]
    <3>1. worker'[r] = "gone"
      BY <2>1, <2>5 DEF Fits, Over, StepsOK
    <3> QED
      BY <1>c, <2>1, <2>2, <2>5, <3>1 DEF CancelSteps
  <2> QED
    BY <2>1, <2>3, <2>4, <2>5
<1>4. CASE CancelMarks(h)
  BY <1>4, <1>d DEF CancelMarks
<1> QED
  BY <1>1, <1>2, <1>3, <1>4 DEF CancelNext

\* A removal that has looked at every job and found none busy may sweep: what is still to be
\* written belongs to a run it was told is cancelled.
LEMMA NobodyIsBusy ==
  ASSUME TypeOK, StepsOK, NEW h \in Helper, RemoveFits(h), helper[h].at = "read", helper[h].left = {}, ~Busy(h),
         NEW r \in helper[h].there, r \in Run, RunFits(r), Working(r)
  PROVE  helper[h].copies[r] # None /\ helper[h].copies[r].unsure
<1>1. helper[h].copies[r] # None
  BY DEF RemoveFits, RemoveSteps
<1>2. Fits(r, helper[h].copies[r])
  BY <1>1 DEF RemoveFits, RemoveSteps
<1>3. ~MayStillRun(r, helper[h].copies[r])
  BY <1>1 DEF Busy
<1>4. CASE helper[h].copies[r].status \in Finished
  BY <1>1, <1>2, <1>4 DEF Fits
<1>5. CASE helper[h].copies[r].status \notin Finished
  <2>1. CASE helper[h].copies[r].pid
    <3>1. LooksDead(r, helper[h].copies[r])
      BY <1>3, <1>5, <2>1 DEF MayStillRun, LooksDead
    <3> QED
      BY <1>2, <3>1, DeadIsGone DEF RunFits
  <2>2. CASE ~helper[h].copies[r].pid
    BY <1>3, <1>5, <2>2 DEF MayStillRun, RunFits, LateFits
  <2> QED
    BY <2>1, <2>2
<1> QED
  BY <1>4, <1>5

\* The steps of a removal up to the sweep leave the runs fitting, and remove no job.
Looking(h) ==
  \/ \E w \in Workflow, force \in BOOLEAN : RemoveStarts(h, w, force)
  \/ RemoveLists(h)
  \/ \E r \in Run : RemoveReads(h, r)
  \/ RemoveReconciles(h) \/ RemoveDecides(h)

\* A removal that lists and reads touches no run.
LEMMA LookingLeavesRuns ==
  ASSUME TypeOK, StepsOK, \A r \in Run : RunFits(r), NEW h \in Helper, RemoveFits(h), Looking(h)
  PROVE  \A r \in Run : RunFits(r)' /\ (job[r] # None => job'[r] # None)
<1>a. UNCHANGED <<parent, home, late, worker, at, resumed, ok, invoked, flight, account, waiter, swept>>
  BY DEF Looking, RemoveStarts, RemoveLists, RemoveReads, RemoveReconciles, RemoveDecides,
         parent_vars, worker_vars, files
<1>b. \A r \in Run : job'[r] = job[r] => Still(r)
  BY <1>a DEF Still
<1>1. CASE UNCHANGED job
  BY <1>b, <1>1, StillFits
<1>2. CASE RemoveReconciles(h)
  <2>1. PICK r \in Run, copy \in Job : Fits(r, copy) /\ WriteReconciled(r, copy)
    BY <1>2 DEF RemoveReconciles, RemoveFits, RemoveSteps, Fits
  <2>2. FileFits(r)' /\ BooksFit(r)' /\ (\A q \in Run : job[q] # None => job'[q] # None)
        /\ (\A q \in Run \ {r} : job'[q] = job[q])
    BY <1>a, <2>1, ReconcileFits
  <2>3. InStep(r)' /\ CallsFit(r)' /\ WaiterFits(r)' /\ LateFits(r)'
    BY <1>a DEF RunFits, InStep, CallsFit, WaiterFits, LateFits, Fits, Known, Working
  <2>4. \A q \in Run \ {r} : RunFits(q)'
    BY <1>b, <2>2, StillFits
  <2> QED
    BY <2>2, <2>3, <2>4 DEF RunFits
<1> QED
  BY <1>1, <1>2 DEF Looking, RemoveStarts, RemoveLists, RemoveReads, RemoveDecides, files

\* They leave what the helpers hold fitting.
LEMMA LookingLeavesHelpers ==
  ASSUME TypeOK, StepsOK, \A r \in Run : RunFits(r), NEW h \in Helper, RemoveFits(h), Looking(h)
  PROVE  CancelFits(h)' /\ RemoveFits(h)' /\ \A g \in Helper \ {h} : helper'[g] = helper[g]
<1>a. /\ UNCHANGED <<parent, home, worker>>
      /\ \A r \in Run : job[r] # None => job'[r] # None
  <2>1. \A r \in Run : job[r] # None => job'[r] # None
    BY LookingLeavesRuns
  <2> QED
    BY <2>1 DEF Looking, RemoveStarts, RemoveLists, RemoveReads, RemoveReconciles, RemoveDecides,
                parent_vars, worker_vars
<1>b. helper[h].at \in RemoveSteps => helper[h] \in RemoveWork
  BY HelperHolds
<1>c. \A r \in Run : \A copy : Fits(r, copy) => FitsNext(r, copy)
  BY <1>a DEF Fits, FitsNext, Known, Working
<1>1. ASSUME NEW w \in Workflow, NEW force \in BOOLEAN, RemoveStarts(h, w, force)
      PROVE  CancelFits(h)' /\ RemoveFits(h)' /\ \A g \in Helper \ {h} : helper'[g] = helper[g]
  <2>1. CASE force
    <3>1. helper'[h] = RemoveAt("sweep", w) /\ \A g \in Helper \ {h} : helper'[g] = helper[g]
      BY <1>1, <2>1, OtherHelpers DEF RemoveStarts
    <3> QED
      BY <3>1 DEF RemoveAt, CancelFits, RemoveFits, CancelSteps, RemoveSteps
  <2>2. CASE ~force
    <3>1. PICK there : there = Recorded(w)
      OBVIOUS
    <3>2. helper'[h] = [RemoveAt("list", w) EXCEPT !.there = there] /\ \A g \in Helper \ {h} : helper'[g] = helper[g]
      BY <1>1, <2>2, <3>1, OtherHelpers DEF RemoveStarts
    <3>3. /\ helper'[h].at = "list" /\ helper'[h].there = there /\ helper'[h].flow = w
          /\ helper'[h].left = {} /\ helper'[h].copies = [r \in Run |-> None]
      BY <3>2 DEF RemoveAt
    <3>4. \A r \in there : r \in Run /\ job'[r] # None /\ home'[r] = w /\ Known(r)'
      BY <1>a, <3>1 DEF Recorded, RunFits, FileFits, Fits, Known
    <3> QED
      BY <3>2, <3>3, <3>4 DEF CancelFits, RemoveFits, CancelSteps, RemoveSteps
  <2> QED
    BY <2>1, <2>2
<1>2. CASE RemoveLists(h)
  <2>1. PICK left : left = Recorded(helper[h].flow)
    OBVIOUS
  <2>2. helper'[h] = [helper[h] EXCEPT !.at = "read", !.left = left] /\ \A g \in Helper \ {h} : helper'[g] = helper[g]
    BY <1>2, <2>1, OtherHelpers DEF RemoveLists
  <2>3. helper[h].at = "list" /\ helper[h] \in RemoveWork
    BY <1>2, <1>b DEF RemoveLists, RemoveSteps
  <2>4. /\ helper'[h].at = "read" /\ helper'[h].there = helper[h].there /\ helper'[h].flow = helper[h].flow
        /\ helper'[h].left = left /\ helper'[h].copies = helper[h].copies
    BY <2>2, <2>3 DEF RemoveWork
  <2>5. \A r \in helper[h].there : r \in left /\ job'[r] # None /\ home'[r] = helper[h].flow /\ Known(r)'
    BY <1>a, <2>1, <2>3 DEF RemoveFits, RemoveSteps, RemoveWork, Recorded, Known
  <2>6. \A r \in Run : helper[h].copies[r] # None => FitsNext(r, helper[h].copies[r])
    BY <1>c, <2>3 DEF RemoveFits, RemoveSteps
  <2> QED
    BY <2>2, <2>4, <2>5, <2>6 DEF CancelFits, RemoveFits, CancelSteps, RemoveSteps, Fits, FitsNext
<1>3. ASSUME NEW r \in Run, RemoveReads(h, r)
      PROVE  CancelFits(h)' /\ RemoveFits(h)' /\ \A g \in Helper \ {h} : helper'[g] = helper[g]
  <2>1. helper[h].at = "read" /\ helper[h] \in RemoveWork /\ UNCHANGED job
    BY <1>3, <1>b DEF RemoveReads, RemoveSteps, files
  <2>2. \A q \in Run : helper[h].copies[q] # None => FitsNext(q, helper[h].copies[q])
    BY <1>c, <2>1 DEF RemoveFits, RemoveSteps
  <2>3. \A q \in helper[h].there :
          /\ q \in Run /\ Known(q)' /\ home'[q] = helper[h].flow
          /\ q \in helper[h].left => job'[q] # None
          /\ q \in helper[h].left \/ helper[h].copies[q] # None
    BY <1>a, <2>1 DEF RemoveFits, RemoveSteps, RemoveWork, Known
  <2>4. CASE job[r] = None
    <3>1. helper'[h] = [helper[h] EXCEPT !.left = @ \ {r}] /\ \A g \in Helper \ {h} : helper'[g] = helper[g]
      BY <1>3, <2>4, OtherHelpers DEF RemoveReads
    <3>2. /\ helper'[h].at = "read" /\ helper'[h].there = helper[h].there /\ helper'[h].flow = helper[h].flow
          /\ helper'[h].left = helper[h].left \ {r} /\ helper'[h].copies = helper[h].copies
      BY <2>1, <3>1 DEF RemoveWork
    <3> QED
      BY <2>1, <2>2, <2>3, <2>4, <3>1, <3>2 DEF CancelFits, RemoveFits, CancelSteps, RemoveSteps, Fits, FitsNext
  <2>5. CASE job[r] # None
    <3>1. PICK record \in Job : record = job[r]
      BY <2>5 DEF TypeOK
    <3>2. /\ helper'[h] = [helper[h] EXCEPT !.at = "reconcile", !.left = @ \ {r}, !.now = r, !.copies[r] = record]
          /\ \A g \in Helper \ {h} : helper'[g] = helper[g]
      BY <1>3, <2>5, <3>1, OtherHelpers DEF RemoveReads
    <3>3. /\ helper'[h].at = "reconcile" /\ helper'[h].there = helper[h].there /\ helper'[h].flow = helper[h].flow
          /\ helper'[h].left = helper[h].left \ {r} /\ helper'[h].now = r
          /\ helper'[h].copies = [helper[h].copies EXCEPT ![r] = record]
      BY <2>1, <3>2 DEF RemoveWork
    <3>4. /\ helper'[h].copies[r] = record
          /\ \A q \in Run \ {r} : helper'[h].copies[q] = helper[h].copies[q]
      BY <2>1, <3>3 DEF RemoveWork
    <3>5. record # None /\ FitsNext(r, record)
      BY <1>c, <2>5, <3>1 DEF RunFits, FileFits
    <3> QED
      BY <2>1, <2>2, <2>3, <3>2, <3>3, <3>4, <3>5
      DEF CancelFits, RemoveFits, CancelSteps, RemoveSteps, Fits, FitsNext
  <2> QED
    BY <2>4, <2>5
<1>4. CASE RemoveReconciles(h)
  <2>1. helper[h].at = "reconcile" /\ helper[h] \in RemoveWork
    BY <1>4, <1>b DEF RemoveReconciles, RemoveSteps
  <2>2. PICK r \in Run, copy \in Job :
          /\ Fits(r, copy) /\ WriteReconciled(r, copy) /\ r = helper[h].now /\ copy = helper[h].copies[r]
    BY <1>4 DEF RemoveReconciles, RemoveFits, RemoveSteps, Fits
  <2>3. UNCHANGED <<parent, home, worker, ok, invoked, flight, account, swept>>
    BY <1>4 DEF RemoveReconciles, parent_vars, worker_vars
  <2>4. Fits(r, Reconciled(r, copy))
    BY <2>2, <2>3, ReconcileFits
  <2>5. PICK found \in Job : found = Reconciled(r, copy) /\ FitsNext(r, found) /\ found # None
    BY <1>c, <2>4, NoJobOK DEF Fits
  <2>6. /\ helper'[h] = [helper[h] EXCEPT !.at = "read", !.now = None, !.copies[r] = found]
        /\ \A g \in Helper \ {h} : helper'[g] = helper[g]
    BY <1>4, <2>2, <2>5, OtherHelpers DEF RemoveReconciles
  <2>7. /\ helper'[h].at = "read" /\ helper'[h].there = helper[h].there /\ helper'[h].flow = helper[h].flow
        /\ helper'[h].left = helper[h].left /\ helper'[h].copies = [helper[h].copies EXCEPT ![r] = found]
    BY <2>1, <2>6 DEF RemoveWork
  <2>8. /\ helper'[h].copies[r] = found
        /\ \A q \in Run \ {r} : helper'[h].copies[q] = helper[h].copies[q]
    BY <2>1, <2>7 DEF RemoveWork
  <2>9. \A q \in Run : helper[h].copies[q] # None => FitsNext(q, helper[h].copies[q])
    BY <1>c, <2>1 DEF RemoveFits, RemoveSteps
  <2>10. \A q \in helper[h].there :
          /\ q \in Run /\ Known(q)' /\ home'[q] = helper[h].flow
          /\ q \in helper[h].left => job'[q] # None
          /\ q \in helper[h].left \/ helper[h].copies[q] # None
    BY <1>a, <2>1 DEF RemoveFits, RemoveSteps, RemoveWork, Known
  <2> QED
    BY <2>5, <2>6, <2>7, <2>8, <2>9, <2>10
    DEF CancelFits, RemoveFits, CancelSteps, RemoveSteps, Fits, FitsNext
<1>5. CASE RemoveDecides(h)
  <2>1. helper[h].at = "read" /\ helper[h].left = {} /\ helper[h] \in RemoveWork
    BY <1>5, <1>b DEF RemoveDecides, RemoveSteps
  <2>2. CASE Busy(h)
    BY <1>5, <2>2, OtherHelpers DEF RemoveDecides, Idle, CancelFits, RemoveFits, CancelSteps, RemoveSteps
  <2>3. CASE ~Busy(h)
    <3>1. helper'[h] = [helper[h] EXCEPT !.at = "sweep"] /\ \A g \in Helper \ {h} : helper'[g] = helper[g]
      BY <1>5, <2>3, OtherHelpers DEF RemoveDecides
    <3>2. /\ helper'[h].at = "sweep" /\ helper'[h].there = helper[h].there /\ helper'[h].flow = helper[h].flow
          /\ helper'[h].left = {} /\ helper'[h].copies = helper[h].copies
      BY <2>1, <3>1 DEF RemoveWork
    <3>3. \A r \in helper[h].there :
            /\ r \in Run /\ Known(r)' /\ home'[r] = helper[h].flow
            /\ Working(r)' => helper[h].copies[r] # None /\ helper[h].copies[r].unsure
      BY <1>a, <2>1, <2>3, NobodyIsBusy DEF RemoveFits, RemoveSteps, RemoveWork, Known, Working
    <3>4. \A r \in Run : helper[h].copies[r] # None => FitsNext(r, helper[h].copies[r])
      BY <1>c, <2>1 DEF RemoveFits, RemoveSteps
    <3> QED
      BY <3>1, <3>2, <3>3, <3>4 DEF CancelFits, RemoveFits, CancelSteps, RemoveSteps, Fits, FitsNext
  <2> QED
    BY <2>2, <2>3
<1> QED
  BY <1>1, <1>2, <1>3, <1>4, <1>5 DEF Looking

\* The sweep leaves every run fitting: what was the run's is gone, and its books with it.
LEMMA SweepLeavesRuns ==
  ASSUME TypeOK, StepsOK, \A r \in Run : RunFits(r), NEW h \in Helper, RemoveSweeps(h)
  PROVE  \A r \in Run : RunFits(r)'
<1>1. helper[h].flow \in Workflow
  BY HelperHolds DEF RemoveSweeps, RemoveSteps, RemoveWork
<1>2. PICK w \in Workflow : w = helper[h].flow
  BY <1>1
<1> SUFFICES ASSUME NEW r \in Run PROVE RunFits(r)'
  OBVIOUS
<1>a. UNCHANGED <<parent, home, late, worker, at, resumed, ok, invoked, waiter>>
  BY DEF RemoveSweeps, parent_vars, worker_vars
<1>b. /\ job'[r] = IF home[r] = w THEN None ELSE job[r]
      /\ r \in swept' <=> r \in swept \/ home[r] = w
      /\ flight' = flight \ ({w} \X Run) /\ account' = [account EXCEPT ![w] = [q \in Run |-> 0]]
  BY <1>2 DEF RemoveSweeps
<1>c. \A v \in Workflow : account'[v][r] = IF v = w THEN 0 ELSE account[v][r]
  BY <1>b DEF TypeOK
<1>3. InStep(r)' /\ WaiterFits(r)' /\ LateFits(r)'
  BY <1>a DEF RunFits, InStep, WaiterFits, LateFits, Fits, Known, Working
<1>4. FileFits(r)'
  BY <1>a, <1>b DEF RunFits, FileFits, Fits, Known, Working, Outcome
<1>5. worker[r] # "none" \/ job[r] # None => home[r] \in Workflow
  BY DEF RunFits, InStep, FileFits, Fits, Known
<1>6. BooksFit(r)'
  <2>1. home[r] # w /\ home[r] \in Workflow => (Closed(r) => Closed(r)') /\ (Counted(r)' <=> Counted(r))
    BY <1>a, <1>b, <1>c DEF Closed, Counted
  <2>2. \A v \in Workflow : <<v, r>> \notin flight => <<v, r>> \notin flight'
    BY <1>b
  <2>3. CASE home[r] = w
    BY <1>a, <1>b, <1>c, <2>2, <2>3 DEF RunFits, BooksFit
  <2>4. CASE home[r] # w /\ worker[r] \in {"none", "born"}
    BY <1>a, <1>b, <1>c, <1>5, <2>1, <2>2, <2>4 DEF RunFits, BooksFit
  <2>5. CASE home[r] # w /\ worker[r] \notin {"none", "born"}
    <3>1. home[r] \in Workflow => account'[home'[r]][r] = account[home[r]][r]
      BY <1>a, <1>c, <2>5
    <3> QED
      BY <1>a, <1>b, <1>5, <2>1, <2>5, <3>1 DEF RunFits, BooksFit
  <2> QED
    BY <2>3, <2>4, <2>5
<1>7. CallsFit(r)'
  <2>1. home[r] \in Workflow => account'[home'[r]][r] = account[home[r]][r] \/ account'[home'[r]][r] = 0
    BY <1>a, <1>c
  <2> QED
    BY <1>a, <1>5, <2>1 DEF RunFits, CallsFit
<1> QED
  BY <1>3, <1>4, <1>6, <1>7 DEF RunFits

\* The sweep takes the runs it removes from what the other removals know to be there.
LEMMA SweepLeavesHelpers ==
  ASSUME TypeOK, StepsOK, NEW h \in Helper, RemoveSweeps(h), NEW g \in Helper, CancelFits(g), RemoveFits(g)
  PROVE  CancelFits(g)' /\ RemoveFits(g)'
<1>a. UNCHANGED <<parent, home, worker>>
  BY DEF RemoveSweeps, parent_vars, worker_vars
<1>b. PICK theirs : theirs = {r \in Run : home[r] = helper[h].flow}
  OBVIOUS
<1>c. /\ \A r \in Run \ theirs : job'[r] = job[r]
      /\ helper'[g] = IF g = h THEN Idle
                      ELSE IF helper[g].at \in RemoveSteps THEN [helper[g] EXCEPT !.there = @ \ theirs]
                      ELSE helper[g]
  BY <1>b DEF RemoveSweeps
<1>1. CASE g = h
  BY <1>1, <1>c DEF Idle, CancelFits, RemoveFits, CancelSteps, RemoveSteps
<1>2. CASE g # h /\ helper[g].at \notin RemoveSteps
  <2>1. helper'[g] = helper[g]
    BY <1>2, <1>c
  <2> QED
    BY <1>2, <1>a, <2>1 DEF CancelFits, RemoveFits, Fits, Known, Working
<1>3. CASE g # h /\ helper[g].at \in RemoveSteps
  <2>1. helper[g] \in RemoveWork
    BY <1>3, HelperHolds
  <2>2. helper'[g] = [helper[g] EXCEPT !.there = @ \ theirs]
    BY <1>3, <1>c
  <2>3. /\ helper'[g].at = helper[g].at /\ helper'[g].there = helper[g].there \ theirs
        /\ helper'[g].flow = helper[g].flow /\ helper'[g].left = helper[g].left
        /\ helper'[g].copies = helper[g].copies /\ helper'[g].now = helper[g].now
    BY <2>1, <2>2 DEF RemoveWork
  <2>4. helper[g].there \subseteq Run
    BY <2>1 DEF RemoveWork
  <2>5. helper'[g].at \notin CancelSteps
    BY <1>3, <2>3 DEF CancelSteps, RemoveSteps
  <2>6. \A r \in Run : helper'[g].copies[r] # None => Fits(r, helper[g].copies[r])
    BY <1>3, <2>3 DEF RemoveFits
  <2>7. \A r \in Run : helper'[g].copies[r] # None => FitsNext(r, helper'[g].copies[r])
    BY <1>a, <2>3, <2>6 DEF Fits, FitsNext, Known, Working
  <2> QED
    BY <1>3, <1>a, <1>c, <2>3, <2>4, <2>5, <2>7
    DEF CancelFits, RemoveFits, Fits, FitsNext, Known, Working
<1> QED
  BY <1>1, <1>2, <1>3

\* Pointing the directory elsewhere, and clearing entries, leave every run fitting.
LEMMA DirectoryLeavesRuns ==
  ASSUME TypeOK, StepsOK, \A r \in Run : RunFits(r), NEW w \in Workflow, Use(w) \/ ClearStalls(w)
  PROVE  /\ UNCHANGED <<job, helper>>
         /\ \A r \in Run : RunFits(r)'
<1>1. /\ UNCHANGED <<parent, home, late, worker, at, resumed, ok, invoked, waiter, job, account, swept, helper>>
      /\ flight' \subseteq flight
  BY DEF Use, ClearStalls, parent_vars, worker_vars
<1> QED
  BY <1>1 DEF RunFits, InStep, FileFits, WaiterFits, LateFits, BooksFit, CallsFit, Fits, Known, Working,
              Closed, Counted, Outcome

-----------------------------------------------------------------------------
(* The invariant is inductive. *)

\* Every step keeps the types.
LEMMA StepTyped ==
  ASSUME DInv, [Next]_vars
  PROVE  TypeOK' /\ StepsOK'
<1> USE DEF DInv, RunFits
<1>1. ASSUME NEW r \in Run, ParentNext(r) \/ WorkerNext(r) \/ MachineNext(r) \/ WaitNext(r) PROVE TypeOK' /\ StepsOK'
  BY <1>1, ParentTyped, WorkerTyped, OthersTyped
<1>2. ASSUME NEW h \in Helper, CancelNext(h) \/ RemoveNext(h) PROVE TypeOK' /\ StepsOK'
  BY <1>2, CancelTyped, RemoveTyped
<1>3. ASSUME NEW w \in Workflow, Use(w) PROVE TypeOK' /\ StepsOK'
  BY <1>3 DEF Use, TypeOK, StepsOK, parent_vars, worker_vars
<1>4. ASSUME NEW w \in Workflow, ClearStalls(w) PROVE TypeOK' /\ StepsOK'
  BY <1>4 DEF ClearStalls, TypeOK, StepsOK, parent_vars, worker_vars
<1>5. CASE UNCHANGED vars
  BY <1>5 DEF vars, files, TypeOK, StepsOK, parent_vars, worker_vars
<1> QED
  BY <1>1, <1>2, <1>3, <1>4, <1>5 DEF Next

\* Every step leaves every run, and what every helper holds, fitting.
LEMMA StepFits ==
  ASSUME DInv, [Next]_vars
  PROVE  (\A r \in Run : RunFits(r)') /\ (\A h \in Helper : CancelFits(h)' /\ RemoveFits(h)')
<1> DEFINE AllFit == (\A r \in Run : RunFits(r)') /\ (\A h \in Helper : CancelFits(h)' /\ RemoveFits(h)')
<1>a. TypeOK /\ StepsOK /\ (\A r \in Run : RunFits(r)) /\ (\A h \in Helper : CancelFits(h) /\ RemoveFits(h))
  BY DEF DInv
<1>b. \A r \in Run : Onward(r)
  BY <1>a, StepGoesOnward DEF RunFits
<1>c. \A h \in Helper : helper'[h] = helper[h] /\ (\A r \in Run : job[r] # None => job'[r] # None) =>
        CancelFits(h)' /\ RemoveFits(h)'
  BY <1>a, <1>b, HelperStands
<1>d. \A r \in Run : Still(r) => RunFits(r)'
  BY <1>a, StillFits
<1>1. ASSUME NEW r \in Run, ParentNext(r) PROVE AllFit
  <2>1. \A q \in Run : RunFits(q)'
    BY <1>a, <1>d, <1>1, ParentFits, ParentsAreApart
  <2>2. UNCHANGED helper
    BY <1>1 DEF ParentNext, ParentStarts, ParentRecords, ParentSpawns, ParentNames, ParentDies
  <2>3. \A q \in Run : job[q] # None => job'[q] # None
    <3>1. \A q \in Run \ {r} : job'[q] = job[q]
      BY <1>a, <1>1, ParentsAreApart DEF Still
    <3>2. job[r] # None => job'[r] # None
      <4>1. ParentNames(r) => job'[r] # None
        <5>1. OnDisk(r, NewJob) \in Job
          BY <1>a, JobsAreJobs DEF TypeOK
        <5>2. Named(OnDisk(r, NewJob)) \in Job
          BY <5>1 DEF Named, Job
        <5> QED
          BY <1>a, <5>2, NoJobOK DEF ParentNames, WriteJob, TypeOK
      <4>2. ParentSpawns(r) => UNCHANGED job \/ job'[r] # None
        <5>1. [NewJob EXCEPT !.status = "failed"] \in Job
          BY DEF NewJob, Job, Finished
        <5> QED
          BY <1>a, <5>1, NoJobOK DEF ParentSpawns, WriteJob, TypeOK
      <4>3. ParentRecords(r) => job'[r] # None
        BY <1>a, JobsAreJobs, NoJobOK DEF ParentRecords, WriteJob, TypeOK
      <4> QED
        BY <1>1, <4>1, <4>2, <4>3 DEF ParentNext, ParentStarts, ParentDies, files
    <3> QED
      BY <3>1, <3>2
  <2> QED
    BY <1>c, <2>1, <2>2, <2>3
<1>2. ASSUME NEW r \in Run, WorkerNext(r) PROVE AllFit
  <2>1. \A q \in Run \ {r} : Still(q)
    BY <1>a, <1>2, WorkersAreApart DEF RunFits
  <2>2. \A q \in Run : RunFits(q)'
    BY <1>a, <1>d, <1>2, <2>1, WorkerFits
  <2>3. UNCHANGED helper
    BY <1>a, <1>2, WorkerMoves
  <2>4. job[r] # None => job'[r] # None
    <3>1. OnDisk(r, NewJob) \in Job
      BY <1>a, JobsAreJobs DEF TypeOK
    <3>2. \A status \in Finished : Finishes(r, status) => job'[r] # None
      BY <1>a, NoJobOK, FinishesSurely
    <3>3. WorkerClaims(r) => job'[r] # None
      <4>1. [OnDisk(r, NewJob) EXCEPT !.pid = TRUE, !.status = "running", !.unsure = FALSE] \in Job
        BY <3>1 DEF Job
      <4> QED
        BY <1>a, <4>1, NoJobOK DEF WorkerClaims, WriteJob, TypeOK
    <3>4. JobFinishes(r) \/ WorkerSaves(r) => UNCHANGED job \/ job'[r] # None
      BY <3>2 DEF JobFinishes, WorkerSaves, Outcome, Finished
    <3>5. WorkerNext(r) /\ ~WorkerClaims(r) /\ ~JobFinishes(r) /\ ~WorkerSaves(r) => UNCHANGED job
      BY DEF WorkerNext, WorkerEnters, WorkerRefused, WorkerBegins, WorkerRan, WorkerRaises, RejectedCounts,
             RejectedEnds, OutcomeCounts, OutcomeEnds, Counts, WorkerDies, files
    <3> QED
      BY <1>2, <3>3, <3>4, <3>5
  <2>5. \A q \in Run : job[q] # None => job'[q] # None
    BY <2>1, <2>4 DEF Still
  <2> QED
    BY <1>c, <2>2, <2>3, <2>5
<1>3. ASSUME NEW r \in Run, MachineNext(r) \/ WaitNext(r) PROVE AllFit
  <2>1. RunFits(r)' /\ UNCHANGED helper /\ (\A q \in Run \ {r} : Still(q))
        /\ (\A q \in Run : job[q] # None => job'[q] # None)
    BY <1>a, <1>3, OthersFit
  <2> QED
    BY <1>c, <1>d, <2>1
<1>4. ASSUME NEW h \in Helper, CancelNext(h) PROVE AllFit
  <2>1. \A r \in Run : RunFits(r)' /\ (job[r] # None => job'[r] # None)
    BY <1>a, <1>4, CancelLeavesRuns
  <2>2. CancelFits(h)' /\ RemoveFits(h)' /\ \A g \in Helper \ {h} : helper'[g] = helper[g]
    BY <1>a, <1>4, CancelLeavesHelpers
  <2> QED
    BY <1>c, <2>1, <2>2
<1>5. ASSUME NEW h \in Helper, Looking(h) PROVE AllFit
  <2>1. \A r \in Run : RunFits(r)' /\ (job[r] # None => job'[r] # None)
    BY <1>a, <1>5, LookingLeavesRuns
  <2>2. CancelFits(h)' /\ RemoveFits(h)' /\ \A g \in Helper \ {h} : helper'[g] = helper[g]
    BY <1>a, <1>5, LookingLeavesHelpers
  <2> QED
    BY <1>c, <2>1, <2>2
<1>6. ASSUME NEW h \in Helper, RemoveSweeps(h) PROVE AllFit
  BY <1>a, <1>6, SweepLeavesRuns, SweepLeavesHelpers
<1>7. ASSUME NEW w \in Workflow, Use(w) \/ ClearStalls(w) PROVE AllFit
  BY <1>a, <1>c, <1>7, DirectoryLeavesRuns
<1>8. ASSUME UNCHANGED vars PROVE AllFit
  BY <1>c, <1>d, <1>8 DEF vars, files, parent_vars, worker_vars, Still
<1>9. \A h \in Helper : RemoveNext(h) => Looking(h) \/ RemoveSweeps(h)
  BY DEF RemoveNext, Looking
<1> HIDE DEF AllFit
<1>10. AllFit
  BY <1>1, <1>2, <1>3, <1>4, <1>5, <1>6, <1>7, <1>8, <1>9 DEF Next
<1> QED
  BY <1>10 DEF AllFit

\* Every file, copy and helper fits where its run is, in every behaviour.
LEMMA Inductive == Spec => []DInv
<1>1. DInv /\ [Next]_vars => DInv'
  BY StepTyped, StepFits DEF DInv
<1> QED
  BY <1>1, InitFits, PTL DEF Spec

-----------------------------------------------------------------------------
(* What it comes to. *)

\* Every variable has its type, and no run is accounted for more than twice: only a rejected session
\* gives a run a second call (cli_run.py, _retry_fresh_after_rejection).
THEOREM DetachedTypeCorrect == Spec => []TypeOK
BY Inductive, PTL DEF DInv

\* cli_run.py:870: who sees a job succeeded finds the books closed, in the workflow of the job.
THEOREM BooksBeforeOutcome == Spec => []AccountBeforeOutcome
<1>1. DInv => AccountBeforeOutcome
  BY DEF DInv, RunFits, BooksFit, Closed, Counted, AccountBeforeOutcome
<1> QED
  BY <1>1, Inductive, PTL

\* cli_workflow.py:180: a workflow that is not forced is not removed under a run that was there and
\* is still to write, unless that run was told to be cancelled.
THEOREM RemovalSpares == Spec => RemoveSpares
<1>1. DInv => \A h \in Helper : helper[h].at = "sweep" =>
        \A r \in helper[h].there : Working(r) => helper[h].copies[r] # None /\ helper[h].copies[r].unsure
  BY DEF DInv, RemoveFits, RemoveSteps
<1>2. DInv /\ [Next]_vars =>
        [\A h \in Helper :
           helper[h].at = "sweep" /\ helper'[h].at # "sweep" =>
             \A r \in helper[h].there :
               Working(r) => helper[h].copies[r] # None /\ helper[h].copies[r].unsure]_vars
  BY <1>1
<1> QED
  BY <1>2, Inductive, PTL DEF Spec, RemoveSpares

\* The job of a run has an outcome that is sure.
Sure(r) == job[r] # None /\ job[r].status \in Finished /\ ~job[r].unsure

\* Once its outcome is sure, nothing writes another one over it: the parent has recorded it and its
\* worker has written its own outcome or is gone, a reader and a cancel leave an outcome on disk as it is.
LEMMA SureStands ==
  ASSUME DInv, [Next]_vars, NEW r \in Run, Sure(r), job'[r] # None
  PROVE  job'[r].status = job[r].status
<1>a. TypeOK /\ StepsOK /\ RunFits(r) /\ job[r] \in Job
  BY DEF DInv, TypeOK, Sure
<1>b. Known(r) /\ ~Working(r) /\ (worker[r] = "finished" => job[r].status = Outcome(r))
  BY DEF Sure, DInv, RunFits, FileFits, Fits
<1>c. \A copy : OnDisk(r, copy) = job[r]
  BY DEF Sure, OnDisk
<1>d. \A q \in Run \ {r} : \A copy : WriteJob(q, copy) => job'[r] = job[r]
  BY <1>a DEF WriteJob, TypeOK
<1>e. \A q \in Run : \A copy : WriteReconciled(q, copy) => job'[r].status = job[r].status
  <2>1. SUFFICES ASSUME NEW copy, LooksDead(r, copy), WriteReconciled(r, copy) PROVE job'[r].status = job[r].status
    BY <1>a, <1>d DEF WriteReconciled
  <2>2. Reconciled(r, copy) = job[r]
    BY <1>c, <2>1 DEF Reconciled, Abandoned, Sure
  <2>3. WriteJob(r, job[r])
    BY <2>1, <2>2 DEF WriteReconciled
  <2> QED
    BY <1>a, <2>3 DEF WriteJob, TypeOK
<1>1. ASSUME NEW q \in Run, ParentNext(q) PROVE job'[r].status = job[r].status
  <2>1. CASE q # r
    BY <1>1, <1>a, <2>1, ParentsAreApart DEF Still
  <2>2. CASE q = r
    <3>1. CASE ParentNames(r)
      <4>1. Named(job[r]).status = job[r].status
        BY <1>a DEF Named, Job, Sure, Finished
      <4>2. job'[r] = Named(job[r])
        BY <1>a, <1>c, <3>1 DEF ParentNames, WriteJob, TypeOK
      <4> QED
        BY <4>1, <4>2
    <3>2. CASE ParentDies(r)
      BY <3>2 DEF ParentDies, files
    <3>3. ~ParentStarts(r) /\ ~ParentRecords(r) /\ ~ParentSpawns(r)
      BY <1>b DEF ParentStarts, ParentRecords, ParentSpawns, Parent, Known, Working
    <3> QED
      BY <1>1, <2>2, <3>1, <3>2, <3>3 DEF ParentNext
  <2> QED
    BY <2>1, <2>2
<1>2. ASSUME NEW q \in Run, WorkerNext(q) PROVE job'[r].status = job[r].status
  <2>1. CASE q # r
    <3>1. InStep(q)
      BY DEF DInv, RunFits
    <3> QED
      BY <1>2, <1>a, <2>1, <3>1, WorkersAreApart DEF Still
  <2>2. CASE q = r
    <3>1. worker[r] = "finished"
      BY <1>a, <1>b, <1>2, <2>2, WorkerMoves DEF Working, Over
    <3>2. WorkerSaves(r) \/ WorkerDies(r)
      BY <1>2, <2>2, <3>1 DEF WorkerNext, Worker, WorkerEnters, WorkerRefused, WorkerClaims, WorkerBegins, WorkerRan,
         WorkerRaises, RejectedCounts, RejectedEnds, OutcomeCounts, OutcomeEnds, Counts, JobFinishes
    <3>3. CASE UNCHANGED job
      BY <3>3
    <3>4. CASE Finishes(r, Outcome(r))
      BY <1>a, <1>b, <3>1, <3>4, FinishesSurely DEF Outcome, Finished
    <3> QED
      BY <3>2, <3>3, <3>4 DEF WorkerSaves, WorkerDies, files
  <2> QED
    BY <2>1, <2>2
<1>3. ASSUME NEW q \in Run, MachineNext(q) \/ WaitNext(q) PROVE job'[r].status = job[r].status
  BY <1>3, <1>e DEF MachineNext, PidReused, GraceEnds, WaitNext, WaitReads, WaitLooks, files
<1>4. ASSUME NEW h \in Helper, CancelNext(h) PROVE job'[r].status = job[r].status
  <2>a. helper[h].at \in CancelSteps => helper[h].run \in Run
    BY <1>a, HelperHolds DEF CancelWork
  <2>1. CASE CancelLooks(h)
    BY <1>e, <2>1, <2>a DEF CancelLooks, CancelSteps
  <2>2. CASE CancelMarks(h)
    <3>q. PICK q \in Run : \E copy, killed : WriteJob(q, Cancelled(OnDisk(q, copy), killed))
      BY <2>2, <2>a DEF CancelMarks, CancelSteps
    <3>1. PICK copy, killed : WriteJob(q, Cancelled(OnDisk(q, copy), killed))
      BY <3>q
    <3>2. Cancelled(job[r], killed) = job[r]
      BY DEF Cancelled, Sure
    <3>3. CASE q = r
      <4>1. WriteJob(r, job[r])
        BY <1>c, <3>1, <3>2, <3>3
      <4> QED
        BY <1>a, <4>1 DEF WriteJob, TypeOK
    <3> QED
      BY <1>d, <3>1, <3>3
  <2>3. CASE ~CancelLooks(h) /\ ~CancelMarks(h)
    BY <1>4, <2>3 DEF CancelNext, CancelReads, CancelKills, files
  <2> QED
    BY <2>1, <2>2, <2>3
<1>5. ASSUME NEW h \in Helper, RemoveNext(h) PROVE job'[r].status = job[r].status
  <2>1. CASE RemoveReconciles(h)
    <3>1. helper[h].now \in Run
      BY <2>1 DEF RemoveReconciles, DInv, RemoveFits, RemoveSteps
    <3> QED
      BY <1>e, <2>1, <3>1 DEF RemoveReconciles
  <2>2. CASE RemoveSweeps(h)
    BY <2>2 DEF RemoveSweeps
  <2>3. CASE ~RemoveReconciles(h) /\ ~RemoveSweeps(h)
    BY <1>5, <2>3 DEF RemoveNext, RemoveStarts, RemoveLists, RemoveReads, RemoveDecides, files
  <2> QED
    BY <2>1, <2>2, <2>3
<1>6. ASSUME NEW w \in Workflow, Use(w) \/ ClearStalls(w) PROVE job'[r].status = job[r].status
  BY <1>6 DEF Use, ClearStalls
<1>7. CASE UNCHANGED vars
  BY <1>7 DEF vars, files
<1> QED
  BY <1>1, <1>2, <1>3, <1>4, <1>5, <1>6, <1>7 DEF Next

\* jobs.py:175: an outcome that is sure stands, whoever still holds an older copy of the job.
THEOREM OutcomesStand == Spec => OutcomeStands
<1>1. DInv /\ [Next]_vars =>
        [\A r \in Run :
           job[r] # None /\ job'[r] # None /\ job[r].status \in Finished /\ ~job[r].unsure =>
             job'[r].status = job[r].status]_vars
  BY SureStands DEF Sure
<1> QED
  BY <1>1, Inductive, PTL DEF Spec, OutcomeStands
=============================================================================
