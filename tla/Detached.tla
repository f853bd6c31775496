------------------------------ MODULE Detached ------------------------------
(***************************************************************************)
(* A run handed to a detached worker (`run --detach`), from the parent     *)
(* that records the job to the worker that writes its outcome, beside      *)
(* those who read the job file (`jobs wait`, `show`, `list`), cancel the   *)
(* job, point the directory at another workflow, and remove the workflow   *)
(* (jobs.py, workflow.py, cli_workflow.py, cli_run.py).                    *)
(*                                                                         *)
(* A workflow is a directory: the job files of its runs, and in state.json *)
(* the invocations accounted for and the runs in flight.  Removing it      *)
(* takes all of that, and whoever writes there later makes it again.  The  *)
(* budget is Ledger's, a unit's record Units', the end of a CLI            *)
(* Execution's: here a worker that is killed takes its CLI with it.        *)
(***************************************************************************)
EXTENDS Naturals, FiniteSets

CONSTANTS
  Run,         \* detached runs
  Workflow,    \* workflow ids
  None,        \* no record, no workflow
  Helper,      \* processes running `jobs cancel` and `workflow remove`
  MaxUses      \* bound: commands that point the directory elsewhere

ASSUME NoneOutside == None \notin Workflow \cup Run

VARIABLES
  tokens,      \* whether a process's start time can be read here
  pointer,     \* current.json: the workflow this directory is on
  dir,         \* the workflow directories that exist
  job,         \* the job file of each run, in its parent's workflow
  flight,      \* <<workflow, run>>: state.json's runs in flight
  account,     \* the invocations state.json accounts for
  parent,      \* the parent of each run: where it is
  home,        \* the workflow the parent resolved
  worker,      \* the worker of each run: where it is
  at,          \* the workflow the worker resolved
  resumed,     \* whether the worker's next call continues a session
  ok,          \* whether the last call succeeded
  invoked,     \* how many calls reached the CLI
  stranger,    \* whether another process has the worker's pid by now
  late,        \* whether STARTING_GRACE_SECONDS have passed since the record
  waiter,      \* what `jobs wait` has read of each job
  helper,      \* the cancel or the removal each helper is at
  uses,        \* counts towards MaxUses
  swept        \* the runs whose workflow was removed after they began

files == <<dir, job, flight, account>>
worker_vars == <<worker, at, resumed, ok, invoked, stranger>>
parent_vars == <<parent, home, late>>
vars == <<tokens, pointer, files, parent_vars, worker_vars, waiter, helper, uses, swept>>

Finished == {"succeeded", "failed", "cancelled", "abandoned"}
Job == [status : Finished \cup {"starting", "running"}, pid : BOOLEAN, unsure : BOOLEAN]
ASSUME NoJobOK == None \notin Job
NewJob == [status |-> "starting", pid |-> FALSE, unsure |-> FALSE]
Over == {"none", "gone"}                      \* a worker that is no process
BeforeClaim == {"born", "entered", "refused"}
Idle == [at |-> "idle"]

-----------------------------------------------------------------------------
(* The operations on one job file.                                         *)

\* jobs.update: the change is made to what is on disk, else to the default;
\* the write makes the workflow's directory if it is not there.
OnDisk(r, default) == IF job[r] = None THEN default ELSE job[r]
WriteJob(r, record) ==
  /\ job' = [job EXCEPT ![r] = record]
  /\ dir' = dir \cup {home[r]}

\* pid_alive and _worker_alive: TRUE, FALSE, or "unknown" for a live pid that
\* nothing says whose it is.
PidAlive(r) == worker[r] \notin Over \/ stranger[r]
WorkerAliveByPid(r) == IF PidAlive(r) THEN "unknown" ELSE "no"   \* mutant: the start time is not looked at
WorkerAlive(r) ==
  CASE ~PidAlive(r) -> "no"
    [] PidAlive(r) /\ ~tokens -> "unknown"
    [] PidAlive(r) /\ tokens -> IF worker[r] \in Over THEN "no" ELSE "yes"

\* _reconcile: a copy that names a pid that is gone is made abandoned, unless
\* what is on disk by then has an outcome.
LooksDead(r, copy) == copy.status \notin Finished /\ copy.pid /\ WorkerAlive(r) = "no"
AbandonedAsRead(current) == [current EXCEPT !.status = "abandoned"]   \* mutant: not read again under the lock
Abandoned(current) ==
  IF current.status \in Finished THEN current ELSE [current EXCEPT !.status = "abandoned"]
Reconciled(r, copy) == IF LooksDead(r, copy) THEN Abandoned(OnDisk(r, copy)) ELSE copy
WriteReconciled(r, copy) ==
  IF LooksDead(r, copy) THEN WriteJob(r, Reconciled(r, copy)) ELSE UNCHANGED <<job, dir>>

\* may_still_run, of a record as it was read.
MayStillRunIfNamed(r, copy) ==   \* mutant: no grace for a job without a pid
  copy.status \notin Finished /\ copy.pid /\ WorkerAlive(r) # "no"
MayStillRun(r, copy) ==
  /\ copy.status \notin Finished
  /\ IF copy.pid THEN WorkerAlive(r) # "no" ELSE ~late[r]

-----------------------------------------------------------------------------
(* Which workflow a command belongs to.                                    *)

Fresh == {w \in Workflow : w \notin dir /\ w # pointer /\ \A r \in Run : home[r] # w}

\* resolve: the id the command or its session names, else the pointer, else
\* a new one.
Resolve(named) ==
  IF named # None THEN {named} ELSE IF pointer # None THEN {pointer} ELSE Fresh

Init ==
  /\ tokens \in BOOLEAN
  /\ pointer = None
  /\ dir = {}
  /\ job = [r \in Run |-> None]
  /\ flight = {}
  /\ account = [w \in Workflow |-> [r \in Run |-> 0]]
  /\ parent = [r \in Run |-> "idle"]
  /\ home = [r \in Run |-> None]
  /\ worker = [r \in Run |-> "none"]
  /\ at = [r \in Run |-> None]
  /\ resumed = [r \in Run |-> FALSE]
  /\ ok = [r \in Run |-> FALSE]
  /\ invoked = [r \in Run |-> 0]
  /\ stranger = [r \in Run |-> FALSE]
  /\ late = [r \in Run |-> FALSE]
  /\ waiter = [r \in Run |-> None]
  /\ helper = [h \in Helper |-> Idle]
  /\ uses = 0
  /\ swept = {}
-----------------------------------------------------------------------------
(* The parent: `run --detach`, jobs.start.                                 *)

Parent(r, from, to) == parent[r] = from /\ parent' = [parent EXCEPT ![r] = to]

\* _workspace: resolved, the directory's pointer moved unless it answered,
\* and the workflow's directory made.
Resolved(named) ==
  \E w \in Resolve(named) :
    /\ pointer' = w
    /\ dir' = dir \cup {w}

ParentStarts(r) ==
  /\ Parent(r, "idle", "ready")
  /\ \E named \in Workflow \cup {None} : Resolved(named)
  /\ home' = [home EXCEPT ![r] = pointer']
  /\ UNCHANGED <<tokens, job, flight, account, late, worker_vars, waiter, helper, uses, swept>>

\* jobs.start: the record first, so that the worker finds it.
ParentRecords(r) ==
  /\ Parent(r, "ready", "recorded")
  /\ WriteJob(r, NewJob)
  /\ UNCHANGED <<tokens, pointer, flight, account, home, late, worker_vars, waiter, helper, uses, swept>>

\* The Popen: the worker is born, or cannot be, and the record says so.
ParentSpawns(r) ==
  /\ \/ /\ Parent(r, "recorded", "spawned")
        /\ worker' = [worker EXCEPT ![r] = "born"]
        /\ UNCHANGED <<job, dir>>
     \/ /\ Parent(r, "recorded", "done")
        /\ WriteJob(r, [NewJob EXCEPT !.status = "failed"])
        /\ UNCHANGED worker
  /\ UNCHANGED <<tokens, pointer, flight, account, home, late, at, resumed, ok, invoked, stranger,
                 waiter, helper, uses, swept>>

\* spawned: merged into what a fast worker may already have written.
Named(current) ==
  [current EXCEPT !.pid = TRUE,
                  !.status = IF current.status = "starting" THEN "running" ELSE current.status]

ParentNames(r) ==
  /\ Parent(r, "spawned", "done")
  /\ WriteJob(r, Named(OnDisk(r, NewJob)))
  /\ UNCHANGED <<tokens, pointer, flight, account, home, late, worker_vars, waiter, helper, uses, swept>>

ParentDies(r) ==
  /\ \E from \in {"ready", "recorded", "spawned"} : Parent(r, from, "done")
  /\ UNCHANGED <<tokens, pointer, files, home, late, worker_vars, waiter, helper, uses, swept>>

-----------------------------------------------------------------------------
(* The worker: the same command entered again with --job-file.             *)

Worker(r, from, to) == worker[r] \in from /\ worker' = [worker EXCEPT ![r] = to]

\* _detached_argv: the workflow the worker is told, its parent's.
PassNothing(r) == None   \* mutant: the worker resolves its workflow itself
PassThrough(r) == home[r]

\* It does not move the pointer, and makes the directory again if it is gone.
WorkerEnters(r) ==
  /\ Worker(r, {"born"}, "entered")
  /\ \E w \in Resolve(PassThrough(r)) :
       /\ at' = [at EXCEPT ![r] = w]
       /\ dir' = dir \cup {w}
  /\ UNCHANGED <<tokens, pointer, job, flight, account, parent_vars, resumed, ok, invoked, stranger,
                 waiter, helper, uses, swept>>

\* The gates are asked again; a refusal goes into the job.
WorkerRefused(r) ==
  /\ Worker(r, {"entered"}, "refused")
  /\ UNCHANGED <<tokens, pointer, files, parent_vars, at, resumed, ok, invoked, stranger,
                 waiter, helper, uses, swept>>

\* jobs.claim, over whatever the record says; with --resume the session to
\* continue was looked up just before.
WorkerClaims(r) ==
  /\ Worker(r, {"entered"}, "claimed")
  /\ \E session \in BOOLEAN : resumed' = [resumed EXCEPT ![r] = session]
  /\ WriteJob(r, [OnDisk(r, NewJob) EXCEPT !.pid = TRUE, !.status = "running", !.unsure = FALSE])
  /\ UNCHANGED <<tokens, pointer, flight, account, parent_vars, at, ok, invoked, stranger,
                 waiter, helper, uses, swept>>

\* state.json of the worker's workflow, made again if it was removed.
InFlight(r) == <<at[r], r>>
Touch(r) == dir' = dir \cup {at[r]}
Ends(r) == flight' = flight \ {InFlight(r)} /\ Touch(r)
Counts(r, from, to) ==
  /\ Worker(r, {from}, to)
  /\ account' = [account EXCEPT ![at[r]][r] = @ + 1]
  /\ Touch(r)
  /\ UNCHANGED <<tokens, pointer, job, flight, parent_vars, at, resumed, ok, invoked, stranger,
                 waiter, helper, uses, swept>>

\* _run_once: in flight before the call; the fresh run after a rejected one,
\* once the budget has granted it.
WorkerBegins(r) ==
  /\ Worker(r, {"claimed", "granted"}, "running")
  /\ flight' = flight \cup {InFlight(r)}
  /\ Touch(r)
  /\ UNCHANGED <<tokens, pointer, job, account, parent_vars, at, resumed, ok, invoked, stranger,
                 waiter, helper, uses, swept>>

\* The call returns: with or without the CLI having been reached, well or
\* not, or with the session it was to continue rejected.
WorkerRan(r) ==
  /\ worker[r] = "running"
  /\ \E reached, well, rejected \in BOOLEAN :
       /\ well => reached /\ ~rejected
       /\ rejected => resumed[r]
       /\ ok' = [ok EXCEPT ![r] = well]
       /\ invoked' = [invoked EXCEPT ![r] = @ + IF reached THEN 1 ELSE 0]
       /\ worker' = [worker EXCEPT ![r] =
            CASE rejected /\ reached -> "rejected"
              [] rejected /\ ~reached -> "unsent"
              [] ~rejected /\ reached -> "ran"
              [] ~rejected /\ ~reached -> "counted"]
  /\ UNCHANGED <<tokens, pointer, files, parent_vars, at, resumed, stranger, waiter, helper, uses, swept>>

\* The call raises, a model that cannot be resolved or an interrupt: the entry
\* is ended and the job failed.
WorkerRaises(r) ==
  /\ Worker(r, {"running"}, "refused")
  /\ Ends(r)
  /\ UNCHANGED <<tokens, pointer, job, account, parent_vars, at, resumed, ok, invoked, stranger,
                 waiter, helper, uses, swept>>

\* _retry_fresh_after_rejection: the rejected run is counted and ended, and
\* running fresh asks the budget unless the CLI was never reached.
RejectedCounts(r) == Counts(r, "rejected", "rejected_counted")
RejectedEnds(r) ==
  /\ \/ Worker(r, {"rejected_counted"}, "granted")
     \/ Worker(r, {"rejected_counted"}, "refused")
     \/ Worker(r, {"unsent"}, "granted")
  /\ resumed' = [resumed EXCEPT ![r] = FALSE]
  /\ Ends(r)
  /\ UNCHANGED <<tokens, pointer, job, account, parent_vars, at, ok, invoked, stranger,
                 waiter, helper, uses, swept>>

\* _record_outcome: the usage, the end, and only then the job's outcome.
OutcomeCounts(r) == Counts(r, "ran", "counted")
OutcomeEnds(r) ==
  /\ Worker(r, {"counted"}, "ended")
  /\ Ends(r)
  /\ UNCHANGED <<tokens, pointer, job, account, parent_vars, at, resumed, ok, invoked, stranger,
                 waiter, helper, uses, swept>>

\* jobs.finish, whatever the record says: the outcome of the run, of a
\* refusal (_fail_job), or of the accounting that failed.
Outcome(r) == IF ok[r] THEN "succeeded" ELSE "failed"
Finishes(r, status) == WriteJob(r, [OnDisk(r, NewJob) EXCEPT !.status = status, !.unsure = FALSE])
JobFinishes(r) ==
  /\ \/ Worker(r, {"ended"}, "finished") /\ Finishes(r, Outcome(r))
     \/ Worker(r, {"refused"}, "gone") /\ Finishes(r, "failed")
     \/ Worker(r, {"ran", "counted"}, "gone") /\ Finishes(r, "failed")
  /\ UNCHANGED <<tokens, pointer, flight, account, parent_vars, at, resumed, ok, invoked, stranger,
                 waiter, helper, uses, swept>>

\* _report_outcome: --output is saved after the job has its outcome, and a
\* save that was refused is written into the job as a second update.
WorkerSaves(r) ==
  /\ Worker(r, {"finished"}, "gone")
  /\ \/ dir' = dir \cup {at[r]} /\ UNCHANGED job
     \/ ~ok[r] /\ Finishes(r, Outcome(r))
     \/ UNCHANGED <<dir, job>>
  /\ UNCHANGED <<tokens, pointer, flight, account, parent_vars, at, resumed, ok, invoked, stranger,
                 waiter, helper, uses, swept>>

WorkerDies(r) ==
  /\ worker[r] \notin Over
  /\ worker' = [worker EXCEPT ![r] = "gone"]
  /\ UNCHANGED <<tokens, pointer, files, parent_vars, at, resumed, ok, invoked, stranger,
                 waiter, helper, uses, swept>>

-----------------------------------------------------------------------------
(* The machine: a pid used again, and the seconds of the grace.            *)

PidReused(r) ==
  /\ worker[r] = "gone" /\ ~stranger[r]
  /\ stranger' = [stranger EXCEPT ![r] = TRUE]
  /\ UNCHANGED <<tokens, pointer, files, parent_vars, worker, at, resumed, ok, invoked,
                 waiter, helper, uses, swept>>

\* From the record to the spawn and from there to the claim takes moments:
\* who gets there does so within STARTING_GRACE_SECONDS.
GraceEnds(r) ==
  /\ job[r] # None /\ job[r].status = "starting" /\ ~late[r]
  /\ parent[r] = "done" /\ worker[r] \notin BeforeClaim
  /\ late' = [late EXCEPT ![r] = TRUE]
  /\ UNCHANGED <<tokens, pointer, files, parent, home, worker_vars, waiter, helper, uses, swept>>

-----------------------------------------------------------------------------
(* `jobs wait`: reads, looks at the process, and writes under the job's    *)
(* lock; again and again until the job has an outcome.                     *)

WaitReads(r) ==
  /\ waiter[r] = None
  /\ job[r] # None /\ job[r].status \notin Finished
  /\ waiter' = [waiter EXCEPT ![r] = job[r]]
  /\ UNCHANGED <<tokens, pointer, files, parent_vars, worker_vars, helper, uses, swept>>

WaitLooks(r) ==
  /\ waiter[r] # None
  /\ waiter' = [waiter EXCEPT ![r] = None]
  /\ WriteReconciled(r, waiter[r])
  /\ UNCHANGED <<tokens, pointer, flight, account, parent_vars, worker_vars, helper, uses, swept>>

-----------------------------------------------------------------------------
(* `jobs cancel`.                                                          *)

Helps(h, state) == helper' = [helper EXCEPT ![h] = state]
CancelAt(step, r, copy, killed) == [at |-> step, run |-> r, copy |-> copy, killed |-> killed]

CancelReads(h, r) ==
  /\ helper[h] = Idle
  /\ job[r] # None /\ job[r].status \notin Finished
  /\ Helps(h, CancelAt("look", r, job[r], FALSE))
  /\ UNCHANGED <<tokens, pointer, files, parent_vars, worker_vars, waiter, uses, swept>>

CancelLooks(h) ==
  /\ helper[h].at = "look"
  /\ LET r == helper[h].run
         copy == helper[h].copy
     IN /\ WriteReconciled(r, copy)
        /\ Helps(h, IF LooksDead(r, copy) THEN Idle ELSE CancelAt("kill", r, copy, FALSE))
  /\ UNCHANGED <<tokens, pointer, flight, account, parent_vars, worker_vars, waiter, uses, swept>>

\* kill_tree: what has the pid is confirmed gone, or it is not confirmed;
\* then a pid that is still there leaves the job as it is.  A pid known not
\* to be the worker's any more is not signalled, and no pid is not looked for.
CancelKills(h) ==
  /\ helper[h].at = "kill"
  /\ LET r == helper[h].run
         copy == helper[h].copy
         Stop(killed) ==
           /\ worker' = [worker EXCEPT ![r] = IF @ \in Over THEN @ ELSE "gone"]
           /\ stranger' = [stranger EXCEPT ![r] = @ /\ tokens]
           /\ Helps(h, CancelAt("mark", r, copy, killed))
     IN IF copy.pid /\ WorkerAlive(r) # "no"
        THEN \/ \E killed \in BOOLEAN : Stop(killed)
             \/ Helps(h, Idle) /\ UNCHANGED <<worker, stranger>>      \* not_stopped
        ELSE Helps(h, CancelAt("mark", r, copy, FALSE)) /\ UNCHANGED <<worker, stranger>>
  /\ UNCHANGED <<tokens, pointer, files, parent_vars, at, resumed, ok, invoked, waiter, uses, swept>>

Cancelled(current, killed) ==
  IF current.status \in Finished THEN current
  ELSE [current EXCEPT !.status = "cancelled", !.unsure = ~killed]

CancelMarks(h) ==
  /\ helper[h].at = "mark"
  /\ LET r == helper[h].run
     IN WriteJob(r, Cancelled(OnDisk(r, helper[h].copy), helper[h].killed))
  /\ Helps(h, Idle)
  /\ UNCHANGED <<tokens, pointer, flight, account, parent_vars, worker_vars, waiter, uses, swept>>

-----------------------------------------------------------------------------
(* `workflow use` and `workflow remove`.                                   *)

Use(w) ==
  /\ uses < MaxUses /\ w # pointer
  /\ uses' = uses + 1
  /\ pointer' = w
  /\ UNCHANGED <<tokens, dir, job, flight, account, parent_vars, worker_vars, waiter, helper, swept>>

\* `there` is the runs recorded when the check begins and not removed by
\* somebody else since (history), `copies` what list_jobs returns of those it
\* has come to, `left` the job files it has not, and `now` the one it is at.
RemoveSteps == {"list", "read", "reconcile", "sweep"}
RemoveAt(step, w) ==
  [at |-> step, flow |-> w, there |-> {}, copies |-> [r \in Run |-> None], left |-> {}, now |-> None]
Recorded(w) == {r \in Run : job[r] # None /\ home[r] = w}

\* The workflow the command is in is refused; a stage in flight refuses; with
\* --force what is found is overruled.
RemoveStarts(h, w, force) ==
  /\ helper[h] = Idle /\ w \in dir
  /\ \E named \in Workflow \cup {None} : \E current \in Resolve(named) : current # w
  /\ force \/ \A r \in Run : <<w, r>> \notin flight
  /\ Helps(h, IF force THEN RemoveAt("sweep", w)
                       ELSE [RemoveAt("list", w) EXCEPT !.there = Recorded(w)])
  /\ UNCHANGED <<tokens, pointer, files, parent_vars, worker_vars, waiter, uses, swept>>

RemoveLists(h) ==
  /\ helper[h].at = "list"
  /\ Helps(h, [helper[h] EXCEPT !.at = "read", !.left = Recorded(helper[h].flow)])
  /\ UNCHANGED <<tokens, pointer, files, parent_vars, worker_vars, waiter, uses, swept>>

RemoveReads(h, r) ==
  /\ helper[h].at = "read" /\ r \in helper[h].left
  /\ Helps(h, IF job[r] = None THEN [helper[h] EXCEPT !.left = @ \ {r}]
              ELSE [helper[h] EXCEPT !.at = "reconcile", !.left = @ \ {r}, !.now = r, !.copies[r] = job[r]])
  /\ UNCHANGED <<tokens, pointer, files, parent_vars, worker_vars, waiter, uses, swept>>

RemoveReconciles(h) ==
  /\ helper[h].at = "reconcile"
  /\ LET r == helper[h].now
     IN /\ WriteReconciled(r, helper[h].copies[r])
        /\ Helps(h, [helper[h] EXCEPT !.at = "read", !.now = None, !.copies[r] = Reconciled(r, @)])
  /\ UNCHANGED <<tokens, pointer, flight, account, parent_vars, worker_vars, waiter, uses, swept>>

\* _busy_reason
Busy(h) == \E r \in Run : helper[h].copies[r] # None /\ MayStillRun(r, helper[h].copies[r])
RemoveDecides(h) ==
  /\ helper[h].at = "read" /\ helper[h].left = {}
  /\ Helps(h, IF Busy(h) THEN Idle ELSE [helper[h] EXCEPT !.at = "sweep"])
  /\ UNCHANGED <<tokens, pointer, files, parent_vars, worker_vars, waiter, uses, swept>>

RemoveSweeps(h) ==
  /\ helper[h].at = "sweep"
  /\ LET w == helper[h].flow
         theirs == {r \in Run : home[r] = w}
     IN /\ dir' = dir \ {w}
        /\ job' = [r \in Run |-> IF r \in theirs THEN None ELSE job[r]]
        /\ flight' = flight \ ({w} \X Run)
        /\ account' = [account EXCEPT ![w] = [r \in Run |-> 0]]
        /\ swept' = swept \cup theirs
        /\ helper' = [g \in Helper |->
             IF g = h THEN Idle
             ELSE IF helper[g].at \in RemoveSteps THEN [helper[g] EXCEPT !.there = @ \ theirs]
             ELSE helper[g]]
  /\ UNCHANGED <<tokens, pointer, parent_vars, worker_vars, waiter, uses>>

\* clear_stalls, of the next run in the workflow: here of runs whose worker is
\* gone (which other entries are stalled is Ledger's).
ClearStalls(w) ==
  /\ \E r \in Run : <<w, r>> \in flight /\ worker[r] = "gone"
  /\ flight' = {e \in flight : ~(e[1] = w /\ worker[e[2]] = "gone")}
  /\ UNCHANGED <<tokens, pointer, dir, job, account, parent_vars, worker_vars, waiter, helper, uses, swept>>

-----------------------------------------------------------------------------
ParentNext(r) ==
  \/ ParentStarts(r) \/ ParentRecords(r) \/ ParentSpawns(r) \/ ParentNames(r) \/ ParentDies(r)
WorkerNext(r) ==
  \/ WorkerEnters(r) \/ WorkerRefused(r) \/ WorkerClaims(r) \/ WorkerBegins(r) \/ WorkerRan(r)
  \/ WorkerRaises(r) \/ RejectedCounts(r) \/ RejectedEnds(r) \/ OutcomeCounts(r) \/ OutcomeEnds(r)
  \/ JobFinishes(r) \/ WorkerSaves(r) \/ WorkerDies(r)
MachineNext(r) == PidReused(r) \/ GraceEnds(r)
WaitNext(r) == WaitReads(r) \/ WaitLooks(r)
CancelNext(h) ==
  \/ \E r \in Run : CancelReads(h, r)
  \/ CancelLooks(h) \/ CancelKills(h) \/ CancelMarks(h)
RemoveNext(h) ==
  \/ \E w \in Workflow, force \in BOOLEAN : RemoveStarts(h, w, force)
  \/ RemoveLists(h)
  \/ \E r \in Run : RemoveReads(h, r)
  \/ RemoveReconciles(h) \/ RemoveDecides(h) \/ RemoveSweeps(h)

Next ==
  \/ \E r \in Run : ParentNext(r) \/ WorkerNext(r) \/ MachineNext(r) \/ WaitNext(r)
  \/ \E h \in Helper : CancelNext(h) \/ RemoveNext(h)
  \/ \E w \in Workflow : Use(w) \/ ClearStalls(w)

Spec == Init /\ [][Next]_vars

\* Somebody waits for the job: `jobs wait` reads and looks again until the job
\* has its outcome.  Nothing is asked of workers, which may take any time.
Fairness == \A r \in Run : WF_vars(WaitReads(r)) /\ WF_vars(WaitLooks(r))
FairSpec == Spec /\ Fairness

-----------------------------------------------------------------------------
(* Properties.                                                             *)

TypeOK ==
  /\ tokens \in BOOLEAN /\ pointer \in Workflow \cup {None} /\ dir \subseteq Workflow
  /\ job \in [Run -> Job \cup {None}]
  /\ flight \subseteq Workflow \X Run
  /\ account \in [Workflow -> [Run -> 0 .. 2]]
  /\ home \in [Run -> Workflow \cup {None}] /\ at \in [Run -> Workflow \cup {None}]
  /\ waiter \in [Run -> Job \cup {None}]
  /\ swept \subseteq Run

\* A run whose bookkeeping is still to be written: its parent is about to
\* start the worker, or the worker has not written its outcome.
Working(r) == parent[r] = "recorded" \/ worker[r] \notin Over \cup {"finished"}

\* cli_workflow.py:180: unless forced, a workflow is not removed under a run
\* that was recorded in it when the check began and still has its outcome to
\* write, unless another removal took it from there meanwhile -- however the
\* parent, the worker and the check interleave, whoever of them dies, and
\* whatever process has the worker's pid by then.  A run whose job said it was
\* cancelled with its worker perhaps running is excepted.
RemoveSpares ==
  [][\A h \in Helper :
       helper[h].at = "sweep" /\ helper'[h].at # "sweep" =>
         \A r \in helper[h].there :
           Working(r) => helper[h].copies[r] # None /\ helper[h].copies[r].unsure]_vars

\* jobs.py:175: an outcome stands.  Once a job has one that is sure, nobody --
\* a reader that took the worker for dead, a cancel, the parent's late naming,
\* the worker's second update -- changes it.
OutcomeStands ==
  [][\A r \in Run :
       job[r] # None /\ job'[r] # None /\ job[r].status \in Finished /\ ~job[r].unsure =>
         job'[r].status = job[r].status]_vars

\* cli_run.py:870: who sees a job succeeded finds the books closed: the run is
\* in no list of runs in flight and every call of it is accounted for, the
\* rejected one before a fresh retry included, in the workflow of the job.
AccountBeforeOutcome ==
  \A r \in Run \ swept :
    job[r] # None /\ job[r].status = "succeeded" =>
      <<home[r], r>> \notin flight /\ account[home[r]][r] = invoked[r]

\* jobs.py:166: no silent stall: where start times can be read, a job that
\* names a worker that is gone comes to an outcome for who waits for it, even
\* when another process has the pid.
SettlesOnceNamed ==
  \A r \in Run :
    tokens /\ job[r] # None /\ job[r].pid /\ worker[r] = "gone"
      ~> job[r] = None \/ job[r].status \in Finished
=============================================================================
