------------------------------- MODULE Units -------------------------------
(***************************************************************************)
(* Work units: the record a unit keeps in units.json from its claim to its *)
(* merge, shared by commands that run at the same time.                    *)
(*                                                                         *)
(* A run is one `run implementer --unit` invocation.  Its thread starts in *)
(* the command; with --detach it goes on in a worker process while the     *)
(* command's tail only writes the worker's pid and the job id down.  Other *)
(* commands (units status, units clean, units merge, jobs cancel) are      *)
(* carried out by helpers.  Every read made outside a lock, every section  *)
(* under the units lock and every change on disk is one action, so the     *)
(* interleavings are those of the processes.  The units lock itself is     *)
(* taken as exclusive here.                                                *)
(***************************************************************************)
EXTENDS Naturals, FiniteSets

CONSTANTS
  Unit,      \* the names of the plan's units
  Run,       \* `run implementer --unit` invocations, each also its own pid and job id
  Helper,    \* processes that carry out the other commands
  Plan,      \* plan digests plan.md may have
  DependsOn, \* DependsOn[p][u]: the units u depends on in plan p
  Cap,       \* implementation.max_parallel
  Command,   \* the commands helpers carry out: see Commands
  Fault,     \* what the environment may do: see Faults
  MaxKills,  \* bound: how many processes may be killed
  None       \* no run, no helper

Commands == {"status", "clean", "merge", "cancel"}
Faults == {"kill",    \* a process dies with no cleanup
           "handoff", \* a detaching command dies before its record names the job
           "lag",     \* a detaching command names the job only after its worker is done
           "gate",    \* the worker's own checks refuse the run
           "replan",  \* plan.md is rewritten
           "early"}   \* a job is cancelled before its worker has claimed it

ASSUME ConstantsOK ==
  /\ IsFiniteSet(Unit) /\ Unit # {}
  /\ None \notin Run /\ None \notin Helper /\ "tree" \notin Run
  /\ Run \cap Helper = {}
  /\ DependsOn \in [Plan -> [Unit -> SUBSET Unit]]
  /\ Cap \in Nat \ {0}
  /\ Command \subseteq Commands /\ Fault \subseteq Faults
  /\ MaxKills \in Nat

VARIABLES
  rec,       \* units.json: the record of each unit
  owner,     \* units.json: plan_sha256, None before any claim
  plan,      \* the digest of plan.md now
  disk,      \* the worktrees on disk, named by the run that made them
  landed,    \* runs whose edits are in the user's tree (history)
  job,       \* jobs/<id>.json: the status of each run's job
  jobPid,    \* whether that file has a pid
  mergeLock, \* the helper that holds units/merge, or None
  unit,      \* the unit each run and helper works on
  at,        \* the plan digest a run's command read
  pc,        \* where the run's thread is
  tail,      \* where the detaching command is once it has spawned the worker
  kills,     \* how many processes were killed so far
  loc,       \* where the run's agent works: "tree", or a worktree
  prev,      \* the record a claim replaced
  ok,        \* whether the run's agent succeeded
  todo,      \* runs found gone, still to be recorded as failed
  snap,      \* the record an actor read and acts on
  fields,    \* the fields an actor is about to merge into the record
  hpc,       \* where the helper is
  target,    \* the run whose job jobs cancel was given
  names,     \* the units units clean has still to look at
  strayed    \* whether an update that does not look again has met another run's record (history)

runVars    == <<unit, at, loc, prev, ok>>
actorVars  == <<todo, snap, fields>>
helperOwn  == <<hpc, target, names, mergeLock>>
helperVars == <<helperOwn, strayed>>
jobVars    == <<job, jobPid>>
fileVars   == <<rec, owner>>
worldVars  == <<plan, disk, landed, kills>>
vars == <<fileVars, worldVars, jobVars, runVars, actorVars, helperVars, pc, tail>>

Actor == Run \cup Helper

Status == {"pending", "running", "succeeded", "merged", "failed", "cancelled", "conflicted"}
Record == [status: Status, inPlace: BOOLEAN, job: Run \cup {None}, pid: Run \cup {None},
           wt: Run \cup {None}, result: BOOLEAN]
Fields == [status: (Status \ {"running"}) \cup {"same"}, result: BOOLEAN,
           worktree: {"same", "gone", "stays"}]
Suspect == [unit: Unit, job: Run \cup {None}, pid: Run \cup {None}, gone: BOOLEAN]
JobStatus == {"none", "starting", "running", "succeeded", "failed", "cancelled", "abandoned"}
Label == {"new", "reconcile", "claim", "worktree", "describe", "release", "restore", "spawn",
          "popen", "gate", "own", "agent", "close", "tree", "record", "outcome", "over", "undone"}
TailLabel   == {"none", "pid", "job", "done", "lost"}
HelperLabel == {"idle", "status", "clean", "cleanCheck", "cleanFail", "cleanRemove", "cleanWrite",
                "merge", "merged", "conflicted", "cancelMark", "cancelRead", "cancelRemove", "cancelWrite"}
Finished  == {"succeeded", "failed", "cancelled", "abandoned"}

\* A unit with no record counts as pending.
Blank    == [status |-> "pending", inPlace |-> FALSE, job |-> None, pid |-> None,
             wt |-> None, result |-> FALSE]
AnyUnit  == CHOOSE u \in Unit : TRUE
NoFields == [status |-> "same", result |-> FALSE, worktree |-> "same"]

Init ==
  /\ rec = [u \in Unit |-> Blank] /\ owner = None
  /\ plan \in Plan /\ disk = {} /\ landed = {} /\ kills = 0
  /\ job = [r \in Run |-> "none"] /\ jobPid = [r \in Run |-> FALSE]
  /\ unit = [a \in Actor |-> AnyUnit] /\ at = [r \in Run |-> None]
  /\ loc = [r \in Run |-> None]
  /\ prev = [r \in Run |-> Blank] /\ ok = [r \in Run |-> FALSE]
  /\ pc = [r \in Run |-> "new"] /\ tail = [r \in Run |-> "none"]
  /\ todo = [a \in Actor |-> {}] /\ snap = [a \in Actor |-> Blank]
  /\ fields = [a \in Actor |-> NoFields]
  /\ hpc = [h \in Helper |-> "idle"] /\ target = [h \in Helper |-> None]
  /\ names = [h \in Helper |-> {}] /\ mergeLock = None /\ strayed = FALSE

-----------------------------------------------------------------------------
(* Processes and what is known of them. *)

Handed(r)      == tail[r] # "none"
ThreadAlive(r) == pc[r] \notin {"new", "over", "undone"}
WorkerAlive(r) == Handed(r) /\ ThreadAlive(r)
CommandAlive(r) == IF Handed(r) THEN tail[r] \in {"pid", "job"} ELSE ThreadAlive(r)

\* jobs.may_still_run of a job file, and of a unit's record.
JobMayRun(j) == job[j] \notin Finished /\ (jobPid[j] => WorkerAlive(j))
\* Mutant of StillGoing: a run with no job counts as going.
StillGoingByJob(j, pid) == j # None => JobMayRun(j)

StillGoing(j, pid) == IF j # None THEN JobMayRun(j) ELSE pid # None /\ CommandAlive(pid)
MayStillRun(record) == record.status = "running" /\ StillGoing(record.job, record.pid)

\* jobs._reconcile, for the job files in js: a worker gone without a word is abandoned.
Reconciled(js) == [r \in Run |->
  IF r \in js /\ job[r] \notin Finished \cup {"none"} /\ jobPid[r] /\ ~WorkerAlive(r)
  THEN "abandoned" ELSE job[r]]

At(r, label) == pc[r] = label
Goto(r, label) == pc' = [pc EXCEPT ![r] = label]
HGoto(h, from, to) == hpc[h] = from /\ hpc' = [hpc EXCEPT ![h] = to]

\* A thread dies with no cleanup, and all it remembered with it.
Dies(r) ==
  /\ Goto(r, IF pc[r] \in {"reconcile", "claim", "worktree", "describe", "release", "restore",
                          "spawn", "popen"} THEN "undone" ELSE "over")
  /\ at' = [at EXCEPT ![r] = None] /\ loc' = [loc EXCEPT ![r] = None]
  /\ prev' = [prev EXCEPT ![r] = Blank] /\ ok' = [ok EXCEPT ![r] = FALSE]
  /\ todo' = [todo EXCEPT ![r] = {}] /\ snap' = [snap EXCEPT ![r] = Blank]
  /\ fields' = [fields EXCEPT ![r] = NoFields]
RunsGoOn == UNCHANGED <<pc, at, loc, prev, ok, actorVars>>

\* units.update: the given fields are merged into whatever record is there now.
Update(record, f, old) ==
  [record EXCEPT
     !.status = IF f.status = "same" THEN @ ELSE f.status,
     !.result = IF f.status \in {"same", "cancelled"} THEN @ ELSE f.result,
     !.wt = CASE f.worktree = "same"  -> @
              [] f.worktree = "gone"  -> None
              [] f.worktree = "stays" -> old.wt]

\* Fields meant for the record of run r go into unit u's, whichever run that is of by now.
Strays(u, r) == strayed' = (strayed \/ rec[u].pid # r)

-----------------------------------------------------------------------------
(* Which units may start: units.py and units_run.refusal. *)

StatusIn(entries, u) == entries[u].status

\* The least set that holds u's dependencies and is closed under them.
Ancestors(p, u) ==
  {v \in Unit : \A S \in SUBSET Unit :
     (DependsOn[p][u] \subseteq S /\ \A w \in S : DependsOn[p][w] \subseteq S) => v \in S}

\* Mutant: it is enough that every other unit has started.
RunsInPlaceOnceStarted(p, entries, u) ==
  \A v \in Unit \ {u} : StatusIn(entries, v) # "pending" \/ u \in Ancestors(p, v)

RunsInPlace(p, entries, u) ==
  \A v \in Unit \ {u} :
    /\ StatusIn(entries, v) # "running"
    /\ StatusIn(entries, v) = "merged" \/ u \in Ancestors(p, v)

Running(entries) == {u \in Unit : StatusIn(entries, u) = "running"}

\* Mutants of MayStart: a result not merged yet is run again; dependencies are not looked at.
MayStartOverResult(p, entries, u) ==
  /\ StatusIn(entries, u) \in {"pending", "failed", "cancelled", "succeeded"}
  /\ \A v \in Running(entries) : ~entries[v].inPlace
MayStartAnyOrder(p, entries, u) ==
  /\ StatusIn(entries, u) \in {"pending", "failed", "cancelled"}
  /\ \A v \in Running(entries) : ~entries[v].inPlace

MayStart(p, entries, u) ==
  /\ StatusIn(entries, u) \in {"pending", "failed", "cancelled"}
  /\ \A d \in DependsOn[p][u] : StatusIn(entries, d) = "merged"
  /\ \A v \in Running(entries) : ~entries[v].inPlace
  /\ Cardinality(Running(entries)) < Cap

\* Units of another plan that still run or hold a worktree.
HeldByWorktree == {u \in Unit : rec[u].wt # None}  \* mutant: a run in place is overlooked
Held == {u \in Unit : rec[u].wt # None \/ rec[u].status = "running"}

\* The records a claim for plan p starts from: none of an earlier plan's.
EntriesFor(p) == IF owner = p THEN rec ELSE [u \in Unit |-> Blank]

-----------------------------------------------------------------------------
(* A run's command, up to the agent or the hand-off. *)

\* cmd_run: the approved plan is read, and its gates have passed.
Start(r) == \E u \in Unit :
  /\ pc[r] = "new"
  /\ unit' = [unit EXCEPT ![r] = u] /\ at' = [at EXCEPT ![r] = plan]
  /\ Goto(r, "reconcile")
  /\ UNCHANGED <<fileVars, worldVars, jobVars, loc, prev, ok, actorVars, helperVars, tail>>

\* reconcile: units.json and then each job file are read outside the units lock.
ReadRunning(a) == todo' = [todo EXCEPT ![a] = {[unit |-> u, job |-> rec[u].job, pid |-> rec[u].pid,
                                                gone |-> FALSE] : u \in Running(rec)}]
CheckGone(a) == \E t \in todo[a] :
  /\ \A s \in todo[a] : ~s.gone
  /\ job' = Reconciled({t.job})
  /\ todo' = [todo EXCEPT ![a] = (@ \ {t}) \cup
                (IF StillGoing(t.job, t.pid) THEN {} ELSE {[t EXCEPT !.gone = TRUE]})]

\* Mutant of FailGone: whichever run the record is of now.
FailGoneAnyRun(a) == \E t \in todo[a] :
  /\ t.gone /\ todo' = [todo EXCEPT ![a] = @ \ {t}]
  /\ rec' = IF rec[t.unit].status = "running"
            THEN [rec EXCEPT ![t.unit].status = "failed"] ELSE rec

\* _fail_gone_run: under the lock, and only while the record is still that run's.
FailGone(a) == \E t \in todo[a] :
  LET record == rec[t.unit] IN
  /\ t.gone /\ todo' = [todo EXCEPT ![a] = @ \ {t}]
  /\ rec' = IF record.status = "running" /\ <<record.job, record.pid>> = <<t.job, t.pid>>
            THEN [rec EXCEPT ![t.unit].status = "failed"] ELSE rec

RunReadsRunning(r) ==
  /\ At(r, "reconcile") /\ ReadRunning(r) /\ Goto(r, "claim")
  /\ UNCHANGED <<fileVars, worldVars, jobVars, runVars, snap, fields, helperVars, tail>>

RunChecksGone(r) ==
  /\ At(r, "claim") /\ CheckGone(r)
  /\ UNCHANGED <<fileVars, worldVars, jobPid, runVars, snap, fields, helperVars, pc, tail>>

RunFailsGone(r) ==
  /\ At(r, "claim") /\ FailGone(r)
  /\ UNCHANGED <<owner, worldVars, jobVars, runVars, snap, fields, helperVars, pc, tail>>

\* Mutant: an earlier run's worktree does not refuse the claim.
MayClaimOverWorktree(p, u) == (owner = p \/ Held = {}) /\ MayStart(p, EntriesFor(p), u)

MayClaim(p, u) ==
  /\ owner = p \/ Held = {}
  /\ MayStart(p, EntriesFor(p), u)
  /\ EntriesFor(p)[u].wt = None

\* claim's locked section: the unit is recorded as running, or nothing is written.
Claim(r) ==
  LET u == unit[r]
      entries == EntriesFor(at[r])
      inPlace == RunsInPlace(at[r], entries, u)
  IN
  /\ At(r, "claim") /\ todo[r] = {}
  /\ IF MayClaim(at[r], u)
     THEN /\ rec' = [entries EXCEPT ![u] = [Blank EXCEPT
                       !.status = "running", !.inPlace = inPlace, !.pid = r]]
          /\ owner' = at[r]
          /\ prev' = [prev EXCEPT ![r] = entries[u]]
          /\ loc' = [loc EXCEPT ![r] = IF inPlace THEN "tree" ELSE r]
          /\ Goto(r, IF inPlace THEN "describe" ELSE "worktree")
     ELSE Goto(r, "over") /\ UNCHANGED <<rec, owner, prev, loc>>
  /\ at' = [at EXCEPT ![r] = None]
  /\ UNCHANGED <<worldVars, jobVars, unit, ok, actorVars, helperVars, tail>>

\* worktrees.create, outside the lock; when git cannot make it nothing is left on disk.
MakeWorktree(r) ==
  /\ At(r, "worktree")
  /\ \/ disk' = disk \cup {r} /\ Goto(r, "describe")
     \/ disk' = disk /\ Goto(r, "restore")
  /\ UNCHANGED <<fileVars, plan, landed, kills, jobVars, runVars, actorVars, helperVars, tail>>

\* claim's last write puts where the unit runs into its record.  Then _spend_attempt gives the
\* run its attempt, and it goes on here or, with --detach, in a worker; or the claim is undone.
Describe(r) ==
  /\ At(r, "describe")
  /\ rec' = [rec EXCEPT ![unit[r]].wt = IF loc[r] = "tree" THEN None ELSE r]
  /\ \/ \E label \in {"agent", "spawn"} : Goto(r, label) /\ prev' = [prev EXCEPT ![r] = Blank]
     \/ Goto(r, "release") /\ UNCHANGED prev
  /\ UNCHANGED <<owner, worldVars, jobVars, unit, at, loc, ok, actorVars, helperVars, tail>>

\* release: the worktree the record names is removed, then the old record is put back.
Release(r) ==
  /\ At(r, "release")
  /\ disk' \in {disk, disk \ {rec[unit[r]].wt}}
  /\ Goto(r, "restore")
  /\ UNCHANGED <<fileVars, plan, landed, kills, jobVars, runVars, actorVars, helperVars, tail>>

Restore(r) ==
  /\ At(r, "restore")
  /\ rec' = [rec EXCEPT ![unit[r]] = prev[r]] /\ prev' = [prev EXCEPT ![r] = Blank]
  /\ Goto(r, "undone")
  /\ UNCHANGED <<owner, worldVars, jobVars, unit, at, loc, ok, actorVars, helperVars, tail>>

-----------------------------------------------------------------------------
(* --detach: jobs.start, and the worker up to its agent. *)

\* Mutant of WriteJob: a status the rest of the code does not know.
WriteJobQueued(r) ==
  /\ At(r, "spawn") /\ Goto(r, "popen")
  /\ job' = [job EXCEPT ![r] = "queued"]
  /\ UNCHANGED <<fileVars, worldVars, jobPid, runVars, actorVars, helperVars, tail>>

\* The job file is written with no pid before the worker exists.
WriteJob(r) ==
  /\ At(r, "spawn")
  /\ job' = [job EXCEPT ![r] = "starting"]
  /\ Goto(r, "popen")
  /\ UNCHANGED <<fileVars, worldVars, jobPid, runVars, actorVars, helperVars, tail>>

\* Popen: the worker takes the thread over, or the unit is closed as failed.
Popen(r) ==
  /\ At(r, "popen")
  /\ \/ /\ tail' = [tail EXCEPT ![r] = "pid"] /\ Goto(r, "gate")
        /\ UNCHANGED job
     \/ /\ job' = [job EXCEPT ![r] = "failed"]
        /\ Goto(r, "close") /\ UNCHANGED tail
  /\ UNCHANGED <<fileVars, worldVars, jobPid, runVars, actorVars, helperVars>>

\* start's `spawned`: merged into what a fast worker may already have written.
RecordPid(r) ==
  /\ tail[r] = "pid"
  /\ jobPid' = [jobPid EXCEPT ![r] = TRUE]
  /\ job' = [job EXCEPT ![r] = IF @ = "starting" THEN "running" ELSE @]
  /\ tail' = [tail EXCEPT ![r] = "job"]
  /\ UNCHANGED <<fileVars, worldVars, runVars, actorVars, helperVars, pc>>

\* _detach: the unit's record names the job.
RecordJob(r) ==
  /\ tail[r] = "job"
  /\ rec' = [rec EXCEPT ![unit[r]].job = r]
  /\ tail' = [tail EXCEPT ![r] = "done"] /\ Strays(unit[r], r)
  /\ UNCHANGED <<owner, worldVars, jobVars, runVars, actorVars, helperOwn, pc>>

\* The worker checks again what its command checked.  Refused, it fails the job; then it closes
\* the unit when that was the approval gate, and leaves it as it is when it was a check before.
Gate(r) ==
  /\ "gate" \in Fault /\ At(r, "gate")
  /\ job' = [job EXCEPT ![r] = "failed"]
  /\ \E label \in {"close", "over"} : Goto(r, label)
  /\ UNCHANGED <<fileVars, worldVars, jobPid, runVars, actorVars, helperVars, tail>>

\* _worker_unit: the worker runs where the record it finds says, if that is there.
WorkerUnit(r) ==
  LET record == rec[unit[r]] IN
  /\ At(r, "gate")
  /\ \/ /\ record.status # "running"
        /\ job' = [job EXCEPT ![r] = "failed"] /\ Goto(r, "over")
        /\ UNCHANGED loc
     \/ /\ record.status = "running" /\ ~record.inPlace /\ record.wt \notin disk
        /\ Goto(r, "close") /\ UNCHANGED <<job, loc>>
     \/ /\ record.status = "running" /\ (record.inPlace \/ record.wt \in disk)
        /\ loc' = [loc EXCEPT ![r] = IF record.inPlace THEN "tree" ELSE record.wt]
        /\ Goto(r, "own") /\ UNCHANGED job
  /\ UNCHANGED <<fileVars, worldVars, jobPid, unit, at, prev, ok, actorVars, helperVars, tail>>

\* jobs.claim: whatever the job file says, the worker owns it and it is running.
OwnJob(r) ==
  /\ At(r, "own")
  /\ job' = [job EXCEPT ![r] = "running"] /\ jobPid' = [jobPid EXCEPT ![r] = TRUE]
  /\ Goto(r, "agent")
  /\ UNCHANGED <<fileVars, worldVars, runVars, actorVars, helperVars, tail>>

-----------------------------------------------------------------------------
(* The end of a run: units_run.finish, then the job's outcome. *)

\* The provider returns, well or not; in place, the agent's edits are in the user's tree.  Or it
\* raises, its model has no resolution, or a fresh retry finds no budget: then a worker says in
\* its job that the run failed before it closes the unit, in _run_in_process's `finally`.
AgentEnds(r) ==
  /\ At(r, "agent")
  /\ \/ /\ \E good \in BOOLEAN :
             /\ ok' = [ok EXCEPT ![r] = good]
             /\ landed' = IF good /\ loc[r] = "tree" THEN landed \cup {r} ELSE landed
        /\ UNCHANGED job
     \/ /\ job' = IF Handed(r) THEN [job EXCEPT ![r] = "failed"] ELSE job
        /\ UNCHANGED <<ok, landed>>
  /\ Goto(r, "close")
  /\ UNCHANGED <<fileVars, plan, disk, kills, jobPid, unit, at, loc, prev, actorVars, helperVars, tail>>

\* finish reads the record outside the lock, and does nothing for a unit not running; whose run
\* it is does not matter.  Two small writes of the command come first, unless it lags behind the
\* whole run of its worker.
ReadToClose(r) ==
  LET record == rec[unit[r]] IN
  /\ At(r, "close") /\ (tail[r] \in {"pid", "job"} => "lag" \in Fault)
  /\ snap' = [snap EXCEPT ![r] = record]
  /\ IF record.status = "running" THEN Goto(r, "tree") /\ Strays(unit[r], r)
     ELSE Goto(r, "outcome") /\ UNCHANGED strayed
  /\ UNCHANGED <<fileVars, worldVars, jobVars, runVars, todo, fields, helperOwn, tail>>

\* finish's work on the tree: the result tree may fail to be written, the worktree to go.
CloseTree(r) ==
  LET inPlace == snap[r].inPlace
      wt == snap[r].wt IN
  /\ At(r, "tree")
  /\ \E written, removed \in BOOLEAN :
       LET result == written /\ (inPlace \/ wt \in disk)
           keeps == inPlace \/ wt = None \/ (ok[r] /\ ~result)
       IN
       /\ fields' = [fields EXCEPT ![r] =
            [status |-> IF ~ok[r] THEN "failed"
                        ELSE IF inPlace THEN "merged"
                        ELSE IF result THEN "succeeded" ELSE "failed",
             result |-> result,
             worktree |-> IF keeps THEN "same"
                          ELSE IF removed \/ wt \notin disk THEN "gone" ELSE "stays"]]
       /\ disk' = IF keeps \/ ~removed THEN disk ELSE disk \ {wt}
  /\ Goto(r, "record")
  /\ UNCHANGED <<fileVars, plan, landed, kills, jobVars, runVars, todo, snap, helperVars, tail>>

RecordEnd(r) ==
  /\ At(r, "record")
  /\ rec' = [rec EXCEPT ![unit[r]] = Update(@, fields[r], snap[r])] /\ Strays(unit[r], r)
  /\ snap' = [snap EXCEPT ![r] = Blank] /\ fields' = [fields EXCEPT ![r] = NoFields]
  /\ Goto(r, "outcome")
  /\ UNCHANGED <<owner, worldVars, jobVars, runVars, todo, helperOwn, tail>>

\* jobs.finish, by a worker; the books are closed just before, and failing that fails the job.  A
\* run whose job was failed before its unit was closed writes no more: that job says failed as it is.
Outcome(r) ==
  /\ At(r, "outcome")
  /\ \E booked \in BOOLEAN :
       job' = IF Handed(r)
              THEN [job EXCEPT ![r] = IF ok[r] /\ booked THEN "succeeded" ELSE "failed"] ELSE job
  /\ ok' = [ok EXCEPT ![r] = FALSE] /\ loc' = [loc EXCEPT ![r] = None]
  /\ Goto(r, "over")
  /\ UNCHANGED <<fileVars, worldVars, jobPid, unit, at, prev, actorVars, helperVars, tail>>

-----------------------------------------------------------------------------
(* units status and units clean. *)

\* A helper is done with its command, and keeps nothing of it.
Done(h) ==
  /\ hpc' = [hpc EXCEPT ![h] = "idle"] /\ unit' = [unit EXCEPT ![h] = AnyUnit]
  /\ snap' = [snap EXCEPT ![h] = Blank] /\ fields' = [fields EXCEPT ![h] = NoFields]
  /\ target' = [target EXCEPT ![h] = None]
HelperKeeps == UNCHANGED <<unit, snap, fields, target>>
RunState == <<at, loc, prev, ok, pc, tail>>
Others == <<RunState, strayed>>

Status_Read(h) ==
  /\ "status" \in Command /\ HGoto(h, "idle", "status") /\ ReadRunning(h) /\ HelperKeeps
  /\ Running(rec) # {}
  /\ UNCHANGED <<fileVars, worldVars, jobVars, names, mergeLock, Others>>

Status_Check(h) ==
  /\ hpc[h] = "status" /\ CheckGone(h) /\ HelperKeeps
  /\ UNCHANGED <<fileVars, worldVars, jobPid, hpc, names, mergeLock, Others>>

Status_Fail(h) ==
  /\ hpc[h] = "status"
  /\ \/ todo[h] = {} /\ Done(h) /\ UNCHANGED <<rec, todo>>
     \/ FailGone(h) /\ HelperKeeps /\ UNCHANGED hpc
  /\ UNCHANGED <<owner, worldVars, jobVars, names, mergeLock, Others>>

\* clean: every unit that has a record, or the one named.
Clean_Start(h) ==
  /\ "clean" \in Command /\ HGoto(h, "idle", "clean")
  /\ \E N \in {{u} : u \in Unit} \cup {Unit} :
       names' = [names EXCEPT ![h] = {u \in N : rec[u] # Blank}]
  /\ names'[h] # {}
  /\ HelperKeeps /\ UNCHANGED <<fileVars, worldVars, jobVars, todo, mergeLock, Others>>

\* Each record is read when its turn comes, and when it says running, then its job's file.
Clean_Read(h) == \E u \in names[h] :
  /\ unit' = [unit EXCEPT ![h] = u] /\ names' = [names EXCEPT ![h] = @ \ {u}]
  /\ snap' = [snap EXCEPT ![h] = rec[u]]
  /\ HGoto(h, "clean", IF rec[u].status = "running" THEN "cleanCheck"
                       ELSE IF rec[u].wt # None THEN "cleanRemove" ELSE "clean")
  /\ UNCHANGED <<fileVars, worldVars, jobVars, todo, fields, target, mergeLock, Others>>

\* A run that may be going keeps its worktree.
Clean_Check(h) ==
  LET going == MayStillRun(snap[h]) IN
  /\ HGoto(h, "cleanCheck", IF going THEN "clean" ELSE "cleanFail") /\ HelperKeeps
  /\ job' = Reconciled({snap[h].job})
  /\ todo' = [todo EXCEPT ![h] = IF going THEN {}
                ELSE {[unit |-> unit[h], job |-> snap[h].job, pid |-> snap[h].pid, gone |-> TRUE]}]
  /\ UNCHANGED <<fileVars, worldVars, jobPid, names, mergeLock, Others>>

Clean_Fail(h) ==
  /\ FailGone(h) /\ HelperKeeps
  /\ HGoto(h, "cleanFail", IF rec' # rec /\ snap[h].wt # None THEN "cleanRemove" ELSE "clean")
  /\ UNCHANGED <<owner, worldVars, jobVars, names, mergeLock, Others>>

Clean_Remove(h) ==
  /\ \/ disk' = disk \ {snap[h].wt} /\ HGoto(h, "cleanRemove", "cleanWrite")
     \/ disk' = disk /\ snap[h].wt \in disk /\ HGoto(h, "cleanRemove", "clean")
  /\ HelperKeeps
  /\ UNCHANGED <<fileVars, plan, landed, kills, jobVars, todo, names, mergeLock, Others>>

Clean_Write(h) ==
  /\ HGoto(h, "cleanWrite", "clean") /\ HelperKeeps
  /\ rec' = [rec EXCEPT ![unit[h]].wt = None] /\ Strays(unit[h], snap[h].pid)
  /\ UNCHANGED <<owner, worldVars, jobVars, todo, names, mergeLock, RunState>>

Clean_End(h) ==
  /\ hpc[h] = "clean" /\ names[h] = {} /\ Done(h)
  /\ UNCHANGED <<fileVars, worldVars, jobVars, todo, names, mergeLock, Others>>

-----------------------------------------------------------------------------
(* units merge, under a lock of its own that a claim or a finish does not take. *)

Merge_Read(h) == \E u \in Unit :
  /\ "merge" \in Command /\ mergeLock = None /\ mergeLock' = h
  /\ owner = plan /\ rec[u].status = "succeeded" /\ rec[u].result
  /\ unit' = [unit EXCEPT ![h] = u] /\ snap' = [snap EXCEPT ![h] = rec[u]]
  /\ HGoto(h, "idle", "merge")
  /\ UNCHANGED <<fileVars, worldVars, jobVars, todo, fields, target, names, Others>>

\* plan_merge and apply: the tree has the unit's changes, with or without conflicts, or the
\* merge failed and the tree is as it was.
Merge_Apply(h) ==
  /\ hpc[h] = "merge"
  /\ \/ /\ landed' = landed \cup {snap[h].pid}
        /\ \E status \in {"merged", "conflicted"} : HGoto(h, "merge", status)
        /\ HelperKeeps /\ UNCHANGED mergeLock
     \/ Done(h) /\ mergeLock' = None /\ UNCHANGED landed
  /\ UNCHANGED <<fileVars, plan, disk, kills, jobVars, todo, names, Others>>

\* The status is merged into whatever record the unit has by now.
Merge_Write(h) ==
  /\ hpc[h] \in {"merged", "conflicted"} /\ Done(h) /\ mergeLock' = None
  /\ rec' = [rec EXCEPT ![unit[h]].status = hpc[h]] /\ Strays(unit[h], snap[h].pid)
  /\ UNCHANGED <<owner, worldVars, jobVars, todo, names, RunState>>

\* units merge --resolved: the user's conflicts are resolved in the tree.
Resolve_Read(h) == \E u \in Unit :
  /\ "merge" \in Command /\ mergeLock = None /\ mergeLock' = h
  /\ owner = plan /\ rec[u].status = "conflicted"
  /\ unit' = [unit EXCEPT ![h] = u] /\ snap' = [snap EXCEPT ![h] = rec[u]]
  /\ HGoto(h, "idle", "merged")
  /\ UNCHANGED <<fileVars, worldVars, jobVars, todo, fields, target, names, Others>>

-----------------------------------------------------------------------------
(* jobs cancel: the job first (jobs.cancel), then the unit it ran (units_run.cancel). *)

\* The worker is killed when the job file has its pid; a job with none is only marked.
Cancel_Kill(h) == \E r \in Run :
  LET seen == Reconciled({r})[r] IN
  /\ "cancel" \in Command /\ hpc[h] = "idle" /\ job[r] # "none"
  /\ job[r] = "starting" => "early" \in Fault
  /\ job' = Reconciled({r})
  /\ target' = [target EXCEPT ![h] = r] /\ unit' = [unit EXCEPT ![h] = unit[r]]
  /\ \/ seen = "cancelled" /\ HGoto(h, "idle", "cancelRead") /\ RunsGoOn
     \/ /\ seen \notin Finished /\ HGoto(h, "idle", "cancelMark")
        /\ IF jobPid[r] THEN Dies(r) ELSE RunsGoOn
  /\ UNCHANGED <<fileVars, worldVars, jobPid, names, mergeLock, tail, strayed>>

\* Under the job's lock, an outcome the worker wrote meanwhile stands.
Cancel_Mark(h) ==
  LET r == target[h] IN
  /\ hpc[h] = "cancelMark"
  /\ job' = [job EXCEPT ![r] = IF @ \in Finished THEN @ ELSE "cancelled"]
  /\ IF job'[r] = "cancelled" THEN HGoto(h, "cancelMark", "cancelRead") /\ HelperKeeps
     ELSE Done(h)
  /\ UNCHANGED <<fileVars, worldVars, jobPid, todo, names, mergeLock, Others>>

\* The record is read outside the lock; one that names another job is left alone.
Cancel_Read(h) ==
  LET record == rec[unit[h]] IN
  /\ hpc[h] = "cancelRead"
  /\ IF record.job \in {None, target[h]} /\ record.status \in {"running", "failed"}
     THEN /\ HGoto(h, "cancelRead", "cancelRemove") /\ snap' = [snap EXCEPT ![h] = record]
          /\ Strays(unit[h], target[h])
          /\ UNCHANGED <<unit, fields, target>>
     ELSE Done(h) /\ UNCHANGED strayed
  /\ UNCHANGED <<fileVars, worldVars, jobVars, todo, names, mergeLock, RunState>>

Cancel_Remove(h) ==
  /\ HGoto(h, "cancelRemove", "cancelWrite")
  /\ disk' \in {disk, disk \ {snap[h].wt}}
  /\ fields' = [fields EXCEPT ![h] =
       [status |-> IF snap[h].status = "running" THEN "cancelled" ELSE "same",
        result |-> FALSE,
        worktree |-> IF snap[h].wt = None THEN "same"
                     ELSE IF snap[h].wt \in disk' THEN "stays" ELSE "gone"]]
  /\ UNCHANGED <<fileVars, plan, landed, kills, jobVars, unit, todo, snap, target, names, mergeLock, Others>>

Cancel_Write(h) ==
  /\ hpc[h] = "cancelWrite" /\ Done(h)
  /\ rec' = [rec EXCEPT ![unit[h]] = Update(@, fields[h], snap[h])] /\ Strays(unit[h], target[h])
  /\ UNCHANGED <<owner, worldVars, jobVars, todo, names, mergeLock, RunState>>

-----------------------------------------------------------------------------
(* The environment. *)

\* A run's thread is killed at any point.
Kill(r) ==
  /\ "kill" \in Fault /\ kills < MaxKills /\ kills' = kills + 1
  /\ ThreadAlive(r) /\ Dies(r)
  /\ UNCHANGED <<fileVars, plan, disk, landed, jobVars, unit, helperVars, tail>>

\* A detaching command dies with its worker's pid or the job id not yet written down.
KillTail(r) ==
  /\ "handoff" \in Fault /\ kills < MaxKills /\ kills' = kills + 1
  /\ tail[r] \in {"pid", "job"} /\ tail' = [tail EXCEPT ![r] = "lost"]
  /\ UNCHANGED <<fileVars, plan, disk, landed, jobVars, runVars, actorVars, helperVars, pc>>

\* A merge is killed after it changed the tree; its lock is broken once stale.
KillMerge(h) ==
  /\ "kill" \in Fault /\ hpc[h] \in {"merged", "conflicted"} /\ Done(h) /\ mergeLock' = None
  /\ UNCHANGED <<fileVars, worldVars, jobVars, todo, names, Others>>

\* plan.md is rewritten, and the new plan approved.
Replan ==
  /\ "replan" \in Fault /\ plan' \in Plan \ {plan}
  /\ UNCHANGED <<fileVars, disk, landed, kills, jobVars, runVars, actorVars, helperVars, pc, tail>>

-----------------------------------------------------------------------------

Thread(r) ==
  \/ RunReadsRunning(r) \/ RunChecksGone(r) \/ RunFailsGone(r) \/ Claim(r) \/ MakeWorktree(r) \/ Describe(r)
  \/ Release(r) \/ Restore(r) \/ WriteJob(r) \/ Popen(r)
  \/ Gate(r) \/ WorkerUnit(r) \/ OwnJob(r) \/ AgentEnds(r)
  \/ ReadToClose(r) \/ CloseTree(r) \/ RecordEnd(r) \/ Outcome(r)

Tail(r) == RecordPid(r) \/ RecordJob(r)

StatusStep(h) == Status_Read(h) \/ Status_Check(h) \/ Status_Fail(h)
CleanStep(h)  == Clean_Start(h) \/ Clean_Read(h) \/ Clean_Check(h) \/ Clean_Fail(h) \/ Clean_Remove(h)
                 \/ Clean_Write(h) \/ Clean_End(h)
MergeStep(h)  == Merge_Read(h) \/ Merge_Apply(h) \/ Merge_Write(h) \/ Resolve_Read(h)
CancelStep(h) == Cancel_Kill(h) \/ Cancel_Mark(h) \/ Cancel_Read(h) \/ Cancel_Remove(h)
                 \/ Cancel_Write(h)

Next ==
  \/ \E r \in Run : Start(r) \/ Thread(r) \/ Tail(r) \/ Kill(r) \/ KillTail(r)
  \/ \E h \in Helper : StatusStep(h) \/ CleanStep(h) \/ MergeStep(h) \/ CancelStep(h)
                        \/ KillMerge(h)
  \/ Replan

Spec == Init /\ [][Next]_vars

\* A process that may go on does, an agent ends by its deadline at the latest, and the
\* orchestrator comes back to units status again and again.
Fairness ==
  /\ \A r \in Run : WF_vars(Thread(r)) /\ WF_vars(Tail(r))
  /\ \A h \in Helper :
       /\ SF_vars(Status_Read(h)) /\ WF_vars(Status_Check(h) \/ Status_Fail(h))
       /\ WF_vars(hpc[h] # "idle" /\ (CleanStep(h) \/ MergeStep(h) \/ CancelStep(h)))
FairSpec == Spec /\ Fairness

-----------------------------------------------------------------------------
(* What should hold. *)

FileTypes  == rec \in [Unit -> Record] /\ owner \in Plan \cup {None}
WorldTypes == /\ plan \in Plan /\ disk \subseteq Run /\ landed \subseteq Run \cup {None}
              /\ kills \in 0 .. MaxKills
JobTypes   == job \in [Run -> JobStatus] /\ jobPid \in [Run -> BOOLEAN]
RunTypes   == /\ unit \in [Actor -> Unit] /\ at \in [Run -> Plan \cup {None}]
              /\ loc \in [Run -> Run \cup {"tree", None}]
              /\ prev \in [Run -> Record] /\ ok \in [Run -> BOOLEAN]
ActorTypes == /\ todo \in [Actor -> SUBSET Suspect]
              /\ snap \in [Actor -> Record] /\ fields \in [Actor -> Fields]
HelperTypes == /\ hpc \in [Helper -> HelperLabel] /\ target \in [Helper -> Run \cup {None}]
               /\ names \in [Helper -> SUBSET Unit] /\ mergeLock \in Helper \cup {None}
               /\ strayed \in BOOLEAN
ThreadTypes == pc \in [Run -> Label] /\ tail \in [Run -> TailLabel]
TypeOK == /\ FileTypes /\ WorldTypes /\ JobTypes /\ RunTypes /\ ActorTypes /\ HelperTypes
          /\ ThreadTypes

\* A unit recorded as running in place is the only one recorded as running, and no more than
\* implementation.max_parallel are: whatever commands race, crash or cancel.
InPlaceAlone == \A u, v \in Unit :
  rec[u].status = "running" /\ rec[u].inPlace /\ rec[v].status = "running" => u = v
UnderCap == Cardinality(Running(rec)) <= Cap

Agents == {r \in Run : At(r, "agent")}

\* Two agents never edit the same files: none shares a worktree, and one in the user's tree is
\* the only agent at all ("nothing else starts while it runs").
AgentsApart == ~strayed => \A r, s \in Agents :
  r # s => loc[r] # loc[s] /\ loc[r] # "tree"

\* "A unit still running keeps its worktree": the directory an agent works in is there until the
\* agent ends.
RunningKeepsWorktree == ~strayed => \A r \in Agents : loc[r] = "tree" \/ loc[r] \in disk

\* A worker that failed its job before it closed its unit.
Closing == {"close", "tree", "record"}
SaidOver(r) == Handed(r) /\ job[r] \in Finished

\* While an agent works, and until its end is written down, its unit's record is running and is
\* that run's, so no other command takes the run for gone, and what the run writes at its end is
\* written over its own record.  Only a worker whose job already says it failed may have lost the
\* record meanwhile (_run_once, _run_in_process's `finally`).
AgentOwnsRecord == ~strayed => \A r \in Run :
  At(r, "agent") \/ (pc[r] \in Closing /\ ~SaidOver(r)) =>
    /\ rec[unit[r]].status = "running"
    /\ rec[unit[r]].pid = r
    /\ MayStillRun(rec[unit[r]])

\* A unit is running only on top of merged dependencies, and a merged unit's edits are in the
\* user's tree, by the run its record names.
StartsOnMerged == ~strayed => \A u \in Unit :
  rec[u].status = "running" => \A d \in DependsOn[owner][u] : rec[d].status = "merged"
MergedIsInTree == ~strayed => \A u \in Unit : rec[u].status = "merged" => rec[u].pid \in landed

\* A worktree an agent has worked in is named by a record for as long as it is on disk, so units
\* clean can find it and no edits are lost: only a run that never got to its agent may leave one
\* that no record names.
Unnamed == {w \in disk : \A u \in Unit : rec[u].wt # w}
WorktreeFindable == ~strayed => \A w \in Unnamed : pc[w] \in {"describe", "restore", "undone"}

\* No worktree is taken from the agent in it, nor forgotten with edits in it: what units clean removes
\* and what finish and claim leave behind agree with the records (clean, finish, claim).
WorktreesKept == RunningKeepsWorktree /\ WorktreeFindable

\* Within a plan, a merged unit stays merged, and a result that waits for its merge is not
\* thrown away: the record goes on to merged or conflicted, never back.
ResultsKept == [][~strayed' => \A u \in Unit : owner' = owner =>
  /\ rec[u].status = "merged" => rec'[u].status = "merged"
  /\ rec[u].status = "conflicted" => rec'[u].status \in {"conflicted", "merged"}
  /\ rec[u].status = "succeeded" => rec'[u].status \in {"succeeded", "conflicted", "merged"}]_vars

\* A result lasts: it waits until it is merged, and a unit recorded as merged is in the tree for good
\* (may_start, cmd_units_merge).
ResultsLast == []MergedIsInTree /\ ResultsKept

\* No unit stays recorded as running for ever, whatever became of its run: it can be run again.
UnitsSettle == \A u \in Unit : rec[u].status = "running" ~> rec[u].status # "running"

=============================================================================
