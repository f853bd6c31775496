# dev-orchestra in TLA+

dev-orchestra is a command-line tool that an agent session calls to drive a
software change through roles (architect, implementer, reviewers, fixer), each a
CLI of some provider started as a subprocess.  There is no server: every command
is a process of its own, several run at the same time, and all they share is a
workspace directory of JSON files, a git repository and the user's working tree.
What is hard in it is therefore what several such processes do to the same files,
what is left when one dies, and what a slow one still writes.

This directory holds TLA+ modules of that core, TLC configurations that check them
on small instances, and theorems checked by TLAPS for every instance.  Paths below
are relative to `src/scripts/orchestrator/` unless they start with `references/`.

## Inventory

| Part | State it keeps | Operations | Hard behaviour |
| --- | --- | --- | --- |
| Unit runs (`units_run.py`, `units.py`, `cli_units.py`) | `units.json`: plan digest and one record per unit (status, in place or worktree, job, pid) | reconcile, claim, release, finish, cancel, clean, merge, merge --resolved | several commands at once; most reads are outside the units lock; runs die |
| Worktrees (`worktrees.py`) | directories under the worktrees root, git's own list | create, remove | either can fail; a record must go on naming what is on disk |
| Jobs (`jobs.py`) | `jobs/<id>.json` per detached job | start, claim, finish, cancel, reconcile, wait | parent and worker both write the file; a worker can die without a word |
| run (`cli_run.py`) | none of its own | gates, claim, attempt, detach or run, outcome | order of the writes against crashes |
| Budget ledger (`ledger.py`) | `ledger.json`: accounts per stage, runs in flight, epoch | begin, end, consume, reset, stalls | two ends of one run, reset while runs are in flight |
| File lock (`workspace.py`) | one lock file per guarded file | enter, break if stale, exit | bounded waits: a waiter may go on without the lock |
| Approval, questions (`approval.py`, `approval_auto.py`, `questions.py`) | the approval record, the question list | approve, current, answer | the plan changes between reading and approving |
| Workflow (`workflow.py`, `cli_workflow.py`) | the container of workflows and the current one | start, switch, remove | removal against running jobs |
| Review loop (`cli_review*.py`, `review_loop.py`, `round_progress.py`, `review_snapshot.py`, `review_consolidation.py`, `review_fanout.py`) | snapshot, reports, consolidated findings, triage | snapshot, round, triage, fix, recheck | the loop must end; findings keep their triage from round to round |
| Execution (`execution*.py`, `clocks.py`) | pipes, process groups, deadlines | launch, drain, idle and total deadline, kill | output after the exit, children that outlive their parent |
| Providers (`providers/`, `verified.py`) | session ids, verified versions | run, resume, retry fresh | which session may be resumed |
| Configuration (`config*.py`, `presets.py`, `cli_config.py`) | a global and a project file | compose, validate, `reviewer add`, `set`, `remove`, setup, reset | each file is written on its own, and read over the other; what a project file may not loosen |
| Hooks (`claude_hooks.py`, `reply_language.py`) | the user's settings file, a relay script, its record | install, uninstall, sync, refresh | the settings are edited by others; a failure or a death half-way |
| The rest | | wizard, doctor, suggestions, YAML, reports | sequential or read-only |

Correctness, part by part.  *Unit runs*: two agents never edit the same files; a unit
that runs in place is alone; the cap holds; a unit starts on merged dependencies only;
a result is never thrown away; a worktree is always findable; no unit is stuck.  *Jobs*:
one worker per job and one outcome.  *Ledger*: every run is charged once, in the epoch it
began in, and the attempts of a stage never pass its budget unless forced.  *Lock*: with
prompt holders, mutual exclusion; with a dead holder, no deadlock.  *Approval*: a run of
the implementer follows an approval of the very plan it reads.  *Review loop*: it ends,
and a finding triaged once stays triaged.  *Execution*: no CLI outlives its deadline.

## Modules

| Module | Models |
| --- | --- |
| `Units` | `units_run.py`, with the parts of `units.py`, `jobs.py`, `worktrees.py`, `cli_run.py`, `cli_units.py` and `cli_state.py` that act on a unit's record |
| `UnitsProofs` | theorems about `Units` |
| `Ledger` | `ledger.py`, with what calls it in `cli_run.py`, `cli_common.py`, `cli_review_round.py`, `cli_state.py` and `cli_workflow.py` |
| `LedgerProofs` | theorems about `Ledger` |
| `FileLock` | `file_lock` of `workspace.py` |
| `AbstractLock` | what `file_lock` promises; `FileLock` implements it |
| `ReviewLoop` | the code review: `review snapshot`, `run`, `consolidate` and `triage`, from `cli_review.py`, `cli_review_round.py`, `review_snapshot.py`, `review_consolidation.py`, `review_fanout.py`, `review_loop.py`, `round_progress.py` |
| `ReviewLoopProofs` | theorems about `ReviewLoop` |
| `Panel` | who sits on a review round, and whether it runs: `optimization.py`, `config_policy.py`, `cli_review_round.py` |
| `Conduct` | extends `Panel`: the conduct of a whole review, what `status` and `review status` advise against what the commands do |
| `ConductProofs` | theorems about `Panel` and `Conduct` |
| `Approval` | the user's approval of the plan: `approval.py`, `approval_auto.py`, `questions.py`, the design rounds of `cli_review*.py`, the gate of `run implementer` |
| `UnitsMerge` | `units merge` file by file: `units_merge.py`, `cli_units.py` |
| `MergeProofs` | theorems about `FileLock` and `UnitsMerge` |
| `Detached` | a detached run between its parent, its worker, those who wait for it, cancel it and remove its workflow: `jobs.py`, `workflow.py`, `cli_workflow.py`, `cli_run.py` |
| `DetachedProofs` | theorems about `Detached` |
| `Execution` | one run of a CLI: `execution.py`, `execution_drain.py`, `execution_tree.py` |
| `RunProofs` | theorems about `Execution` and `Approval` |
| `Seats` | the reviewer panels in the two configuration files: `config.py`, `config_layers.py`, `config_reviewers.py`, `config_validation.py`, `presets.py`, `cli_config.py` |
| `Hooks` | the reply-language hooks in Claude Code's settings: `claude_hooks.py`, `cli_hooks.py`, `cli_config.py` |
| `ConfigProofs` | theorems about `Hooks` and `Seats` |
| `MC*` | small constants for TLC |

The parts meet at their files.  `Units` has the records of the units and treats a merge as one
outcome, which `UnitsMerge` takes apart; `Units` and `Detached` both have the job file, the one for
what it says of a unit, the other for who may write it last; `Ledger` is entered by every run,
and `Detached` keeps only whether a run is in flight and accounted for; `Conduct` rests on one
report at a time, and what two commands do to that report is `ReviewLoop`; `FileLock` is what
each of them takes its locks for.  `Hooks` follows what the configuration commands write; the panels
that `Seats` composes are those `Panel` picks a round's reviewers from.

### Units

A `Run` is one `run implementer --unit` invocation.  `pc[r]` is where its thread is.
With `--detach` the thread starts in the command and goes on in the worker (`Popen`); what
is left of the command is its *tail* (`tail[r]`), two late writes: the worker's pid into the
job file (`RecordPid`) and the job's id into the unit's record (`RecordJob`).  A `Helper` is
a process that carries out `units status`, `units clean`, `units merge` or `jobs cancel`.

| Code | Variables | Actions |
| --- | --- | --- |
| `reconcile` | `todo`: the runs read as running, then those found gone | `RunReadsRunning`, `RunChecksGone`, `RunFailsGone` (and `Status_*`) |
| `claim` | `rec`, `owner`, `prev`, `disk`, `loc` | `Claim` (the locked section), `MakeWorktree`, `Describe` |
| `restore`, `release` | `rec`, `disk` | `Restore`, `Release` |
| `jobs.start`, `_detach` | `job`, `jobPid`, `tail` | `WriteJob`, `Popen`, `RecordPid`, `RecordJob` |
| the worker | `pc`, `job`, `loc` | `Gate`, `WorkerUnit`, `OwnJob` |
| the agent, `finish`, `_record_outcome` | `ok`, `snap`, `fields`, `rec`, `disk`, `job` | `AgentEnds`, `ReadToClose`, `CloseTree`, `RecordEnd`, `Outcome` |
| `clean` | `names`, `snap`, `todo` | `Clean_*` |
| `cmd_units_merge`, `_resolve_unit` | `mergeLock`, `landed` | `Merge_*`, `Resolve_Read` |
| `jobs.cancel`, `units_run.cancel` | `job`, `fields`, `rec`, `disk` | `Cancel_*` |
| crashes, a rewritten plan | `kills`, `plan` | `Kill`, `KillTail`, `KillMerge`, `Replan` |

The grain: every read made outside a lock is an action of its own, so is every section under
the units lock and every change on disk.  `landed` and `strayed` are history.

How a run ends depends on what ended it.  A run whose provider returned closes its unit first and writes its
job's outcome last (`ReadToClose`, `CloseTree`, `RecordEnd`, `Outcome`).  One whose provider raised, whose
model has no resolution, or that finds no budget for a fresh retry fails its job where that
happens (`cli_run.py:759-772`, `852`, `860`) and closes its unit afterwards, in the `finally` of
`_run_in_process` (`434-436`): the other disjunct of `AgentEnds`, which needs no fault.  A worker that its own
checks refuse is in the same order (`Gate`).  In between, reconcile takes the unit for free, and it may be
claimed again while the first run has still to close it.

`strayed` says that an update that does not look at whose the record is has met the record of another
run.  Four writes of the code can: that late `_finish_unit`, which finishes whatever run the record
says is running; `jobs cancel`, which reads the record outside the lock and
writes it later (`units_run.py:352-380`); `units clean`, which puts down that a worktree is gone
after removing it, so that two of them at once forget the worktree of a run in between; and a
detaching command that names its job late (`cli_run.py:716`).  What follows such a write is not
bounded by anything in the code: a later run of the unit is recorded as cancelled while it works, and
the next claim puts a second agent on the unit.  It may also remove the worktree of the run in between, or write over its result.
With two runs and one helper two agents on a unit do not come of it, with three runs they do (see the end of *Runs*), so the properties about records, agents
and worktrees are stated for as long as no update has strayed.

What the model assumes, and where it abstracts:

- A section under the units lock, and a `units.update`, is one step.  The lock is best-effort
  in the code; what its protocol guarantees is `FileLock`'s question.  So is the merge lock.
- `update` merges fields into whatever record is there: `Update` keeps that, so an actor's late
  write lands on a later run's record in the model too.
- A pid is never mistaken for another process (`pid_started` guards that in the code).
- The check and the state write of a job file by `_reconcile` is one step.
- `jobs cancel` of a worker that cannot be confirmed stopped changes nothing, so it is a
  stutter.
- A detaching command makes its two late writes before its worker is through with its agent,
  unless the fault `lag` lets it fall behind.  The writes follow `Popen` directly; an agent
  takes minutes.
- The tree's contents are not modelled (`"tree"` names it, so no run is called that): `landed` is the set of runs whose edits the user's tree
  has.  A failed merge leaves the tree as it was (`units_merge.apply` undoes what it wrote).
- A worktree's name is the run that made it (the code appends a random suffix).

Faults are constants, so that each run says what it assumes: `kill` (at most `MaxKills` threads
die anywhere, worker or command), `handoff` (the command dies with its late writes not made),
`early` (a job is cancelled before its worker has claimed it), `lag`, `gate` (the worker's own checks refuse), `replan` (`plan.md` is rewritten and
approved).  A state where nothing is left to do is the end of all runs, so deadlock is not
checked.

### Ledger

The ledger is the one object every command that delegates work shares.  `ledger` is its record on
disk; `stale` says that the next command to read it starts a fresh one (`Load`), which is on disk
only once something is written (`Write`).  A `Run` is a `run` command, in the foreground or in a
worker, or a review round: a round takes no attempts and asks for the runtime alone.  A try of a
run is a *token*: a `run` whose resumed session is rejected ends its token and runs a second one,
fresh, with a new attempt if the first CLI was started and with the one it has otherwise.

| Code | Variables | Actions |
| --- | --- | --- |
| `clear_stalls` of a command, of `status` | `seen`: the entries read without the lock, still to look at | `Start`, `ReadStalls`, `ClearStall` |
| `_refuse_if_exhausted`, `_refuse_if_runtime_spent` | `pc` | `Check` (without the lock) |
| `_spend_attempt`, `budget consume`: `consume` | `attempts`, `passes`, `total` | `Consume` (checked again under the lock) |
| `begin`, the provider, `record_usage`, `register_signature` | `inFlight`, `account`, `signatures` | `Begin`, `Return`, `RecordUsage`, `RegisterSignature` |
| `end`, `_record_outcome`, `_retry_fresh_after_rejection` | `inFlight`, `runtime`, `try` | `End` |
| `budget reset`, `workflow_id`, `progress record` | all of the ledger | `Reset`, `SettleEpoch`, `RecordProgress` |
| the clock, a crash | `stale`, `pc` | `Idle`, `Kill` |

`began`, `measured`, `used` and `granted` are history: what the ledger should say is stated over
them, never read by an action.  What the model assumes, and where it abstracts:

- A method that changes the ledger is one step, as it holds the state lock throughout.
- Every measured run costs 1 second and 1 in the account, so that a sum is a count; what is wrong
  with a sum (a charge lost, made twice, made to the wrong epoch) is wrong with the count.
- A run's process is alive until it is over, and may or may not be after: `Gone` and `MayLive`
  overlap there, which is what lets `clear_stalls` look at a run that has ended meanwhile.
- An epoch is a number, in the code a random id: they only need to differ.  `MaxEpoch` bounds the
  resets and idle times, and `progress record` is not given again once its stage is refused for
  it.

### FileLock

Nearly every file of the program is changed under a `file_lock`: `units.json`, a job file, the
ledger, the approval, the questions, a merge.  It is a file made with `O_EXCL`, and it is a best
effort: a waiter gives up after `timeout` with a holder that does not change, or after `max_wait`
in all, and goes on without the lock; a lock file older than `stale_after` is removed.

Every system call is an action: `Create` (`os.open`), `WriteToken` (`os.write`), `Look` (the file's
age) and `Break` (its `unlink`), `Poll` (the holder and the deadline), `Leave` (`__exit__`).
`file.by` is who made the file, `file.written` whether the token is in it, which is all `Holder`
can read.  A token is given out once, a number for the code's pid and uuid.  `Tick` is the sleep
between two polls; a process that sleeps wakes at the next.  `seen`, `left` and `waited` are
locals of `__enter__` and end with it.

`AbstractLock` has those who ask, those who are inside, and a flag that the promise has lapsed.  `ImplementsLock` maps those who ask and those inside to it, and the flag to `deaths > 0`
or `blind`.  `blind` is history: somebody gave up in a moment the lock file was absent or had no
token.  That moment is real: a lock that has just changed hands reads as held by nobody until the
token is written, so a waiter whose deadline falls there does not count it as the change of hands
it is, and goes in beside the new holder.

What the model assumes, and where it abstracts:

- `Prompt` (a constant): time stands still while a process is between two system calls.  The
  refinement needs it, and `Hold < Timeout`; the theorems need neither.
- `MaxWait` is longer than the queue of the run.  A longer queue than `max_wait` is given up by
  design ("the backstop"), and excludes nobody.
- Writing the token sets the age back, as it does the file's mtime.
- On Windows an `unlink` or an `O_EXCL` open can fail while another process has the file open.
  The code's branch for it (677-685) waits like any other poll; it is not modelled.

### ReviewLoop

The review of a change goes round: a snapshot of the diff, a panel of reviewers on it, one report
consolidated from theirs, triage, a fix, another snapshot.  Nothing holds the loop together but
three things on disk: the snapshot, a report file per reviewer, and the consolidated report.  A
`Run` is a `review run` (minutes long, often in the background), a `Helper` a `review consolidate`.

| Code | Variables | Actions |
| --- | --- | --- |
| `cmd_review_snapshot`, `create_snapshot` | `target` | `ReviewSnapshot` |
| `cmd_review_run`: the round's number, the cap | `work` | `StartRound` |
| `run_reviews`, `_attempt` | `work`, `written` | `Returns`: failed, unreadable, partial or ok |
| `_consolidate_round` before its lock, and under it | `work`, `report` | `ReadReports`, `SaveRound` |
| `cmd_review_consolidate` | `work`, `report` | `StartConsolidate`, `SaveConsolidation` |
| `cmd_review_triage` | `report` | `Triage` |
| another branch, `budget reset`, a crash | `branch`, `workflow`, `work` | `Checkout`, `BudgetReset`, `Dies` |

A snapshot's `sha` is the pair of what the diff is from and what it is to, which is what makes two
diffs the same.  `said`, `read`, `owed`, `counted`, `forced` and `torn` are history.  What the model
assumes, and where it abstracts:

- `torn`: a report saved over another snapshot, or another count of rounds, than it was begun on.
  The code does not prevent it (the number, the stamp and the reports are read before the report's
  lock, the snapshot again under it, and a snapshot takes no lock at all), and then a report can
  list another snapshot's findings and two snapshots can share a round.  The properties are stated
  for reports that are not torn, and the runs do not go on from one that is.
- `StartRound` reads the number, the metadata and the diff at once; the code reads them one after
  the other, and a snapshot taken in between makes the round's report a torn one all the same.
- A finding is its key (`finding_key`): how findings are parsed, matched and merged, and the archive
  of earlier reports, are left out.  `duplicate` counts as `rejected`.
- `review run --base` is a `ReviewSnapshot` and then a `StartRound`.
- The recheck and narrowing are on, no reviewer is conditional, no `--iteration` is given, and tests
  do not hold a round back: these are `Conduct`'s.

### Panel and Conduct

`Panel` is the policy as operators over a change: `Joins` (a seat with a condition), `RuleOf`,
`Judged` and `Needed` (the relevance rules), `Qualified` (and who is kept when nobody is left),
`KeepsWhole` and `Sits` (the cut on a small change), `LevelOf` and `Gate` (the test gate).  A change
is what the policy can tell of it, without patterns and reasons.

`Conduct` is one review: snapshots, rounds, triage, fixes and tests as events of the run log, and
what the commands compute from the log, the report and the snapshot.

| Code | Definitions and actions |
| --- | --- |
| `round_progress.py`, `review_tests.py` | `LastReviewed`, `FixedSince`, `RetestedSince`, `TestsOn`, `RoundTests`, `Held`, `ThrownAway` |
| `review_loop.decide`, `round_cap`; `next_iteration`; `_refuse_if_rounds_spent` | `Decision`, `FinalFix`, `Iteration`, `Cap`, `RoundsSpent` |
| `cli_workflow._next_step` | `Advice` |
| `review snapshot`, `review run`, `review triage` | `TakeSnapshot`, `RunRefused`, `RunGated`, `RunDies`, `ReviewRun`, `Triage` |
| `run review_fixer`, `state record --stage test`, the user, the report | `Fix`, `RecordTest`, `Edit`, `Conclude` |

A *guided* orchestrator does what it is advised, and nothing else; a *free* one does what it likes
within `MaxLog` events.  Fairness is for the guided one alone: that it goes on is what it is for.
`RoundReport` is the consolidation of a round: a seat that `ran` left something readable in it, and the
findings of one that did not stay its own from the round before.  `AcceptedStays` goes by that: a
rerun of a snapshot may drop an accepted finding only if everybody who reported it ran again.  A
value of `None` is no snapshot (`NoSnapshotOK`, here and in `ReviewLoop`), and the seats of a panel are
the numbers of its places (`SeatsOK`).
Left out: two commands at once, another base or branch, the design review, an empty snapshot, the
runtime budget, stalls, `--force` and `--iteration`.

### Approval

`run implementer` goes ahead if the plan was approved as it stands, or if nobody needs to be
asked.  What it goes by is spread over five files, which the commands read one by one: `state.json`
(questions, approval), `plan.md`, the frozen target of a design round, the number of the latest
round, and its report.

| Code | Actions |
| --- | --- |
| `questions record`, `answer`; `delegate_unattended` | `RecordQuestions`, `AnswerQuestion`, `StartArchitect`, `LeaveToArchitect` |
| the architect's or the user's plan | `WritePlan` |
| `review run --design`, `review triage --design` | `StartReview`, `FreezeDecisions`, `FreezeRound`, `EndReview`, `EndUnreviewed`, `ReviewDies`, `Triage` |
| `design approve` | `StartApprove`, `ApproveReport`, `ApproveRound`, `ApproveState`, `RecordApproval` |
| `approval_auto.requirement`, the gate | `StartGate`, `GateState`, `GatePlan`, `GateDeclared`, `GateReport`, `GateLatest`, `GateFrozen`, `GateVerdict` |

A text stands for its digest.  A command loads its configuration when it starts: `Setting` is what
the global file, the project file and the environment may say.  `Required` is the decision with all
files read at once, which is what `ProjectCannotLoosen` is about; the gate reaches its own verdict
read by read.  Two things a project file may loosen, and the property says so: it can turn on a design
review that is off without it, and once that review has read the whole plan and left nothing above Low,
nobody is asked (`TurnedOnAndRead`); and its `review.re_review_severities` replaces the global list, so that
an open Low the global list blocks on and the project's leaves out is not waited for
(`LeavesLowOut`; the only severity this can be, as Medium and up always count, `AboveLow`), which
`references/configuration.md:897` lists among what a project file makes looser.  The rounds in which an architect asks its questions, and their cap, are left out;
`StartReview` reads the plan and the decisions with its first write.

### UnitsMerge

`ReadFile` is `_merge_file` for one file (`MergeFile` and below, the three-way decision),
`KeepCopies` the unit's versions put aside, `CheckFile` and `MoveFile` one write with the look at the
file before it, `FailMerge`, `UndoFile` and `MoveBack` a failure and the undo, `RecordMerge` the record,
`Resolve` and `RecordResolved` `merge --resolved`.  The user edits, rewrites the plan or reruns the unit
at any point, and the merge may die at any point.  What git makes of two texts is one value or one
value with markers; modes, and directories left empty, are not modelled.  `FailsWhole` excepts the
edits moved over between the look and the move (`lost`), and `UnitNotDropped` a record that a new
plan's merge made (`torn`) and the conflicts that keep the user's version and no copy of the unit's (`CopyOwed`): of a
file the unit deleted, of a submodule, and of a file the unit put where a link or a submodule was, see below.
A submodule on the user's disk is a directory, which the code takes as it takes a link: not a regular file (`OnDisk`).

### Detached

| Code | Actions |
| --- | --- |
| `workflow.resolve`, `jobs.start`, `Popen`, `jobs.update` in `_detach` | `ParentStarts`, `ParentRecords`, `ParentSpawns`, `ParentNames`, `ParentDies` |
| the worker: pinned workflow, gates, `jobs.claim` | `WorkerEnters`, `WorkerRefused`, `WorkerClaims` |
| `begin`, the provider, `record_usage`, `end`, a rejected resume, `jobs.finish`, `_write_job_output` | `WorkerBegins`, `WorkerRan`, `WorkerRaises`, `RejectedCounts`, `RejectedEnds`, `OutcomeCounts`, `OutcomeEnds`, `JobFinishes`, `WorkerSaves`, `WorkerDies` |
| `jobs.read`, `_reconcile`, `jobs wait` | `WaitReads`, `WaitLooks` |
| `jobs.cancel` | `CancelReads`, `CancelLooks`, `CancelKills`, `CancelMarks` |
| `workflow use`, `workflow remove`, `clear_stalls` | `Use`, `Remove*`, `ClearStalls` |
| the machine | `PidReused`, `GraceEnds` |

A helper keeps the runs it could have seen when its check begins (`there`), less those another removal
takes away, and what it reads is a copy it may use much later; `None` is no job file (`NoJobOK`).

Assumed: `STARTING_GRACE_SECONDS` is enough from the record to the worker's claim; reconcile's judgement
and its locked write are one step after a read of its own.  The Windows case of a pid whose start
cannot be read while it lives, and runs in the foreground, are left out.  Fairness: the parent, the
worker, the machine and `jobs wait` go on (every wait of theirs is bounded); nothing of cancels and
removals.

### Execution

The main thread spawns the CLI with SIGTERM deferred, polls it, ends it at a deadline, lets its
output settle and ends what it left behind (`StartSpawn` to `Result`); a thread reads the pipe
(`Read1`, `Keep1`, `Hand1`, `ReadEnd`), another hands lines to `on_line` (`Get` to `OnLineReturns`); the
CLI writes, starts a process that may leave its group or keep its pipe, and exits; a SIGTERM comes
at any moment.

Assumed: a deadline or a bounded wait ends at any moment, but the reader gets what the CLI wrote
within `_SETTLE_SECONDS`; looking at a group and signalling it is one step; a group's id is not
used again during an escalation; a SIGKILL for the worker comes after its handler is through.
stdout and stderr are one stream, a chunk is one line.  POSIX only; how a program is found and
launched, and its stdin, are left out.  Fairness: the main thread and the reader; not `on_line`, whose
caller may hang, and not the CLI.

### Seats

`CodePanel` and `DesignPanel` are `compose`: a file lists a panel, or adds seats beside the one it
inherits (`Fold`, which gives an extra whose id is taken another one); the design rounds have a panel
of a file's or the preset's own, or run the code panel without its conditions.  `Add`, `EditSeat` (of
`reviewer set` and `remove`), `Reset` and `SetupPreset` are the commands, `Refit` a change of what the preset
is fitted to, and `Write` the check all writers of a panel make (`panel_write_problems`).

A seat is who sits there, its id (a number), whether its provider runs with a warning only, and
whether it joins some rounds only.  Left out: files written by hand, `config set` on a list, roles as
selectors, high-risk patterns, the other keys; and one command runs at a time, as nothing locks the
files.  `last` holds the last command with the panels it found, which is what the properties compare.
`bare` is history: a design panel was copied into the project file of a project that had nobody on its
code panel, which `StaysLoadable` excepts.  What `expand` deals is an assumption on `Fits`: the ids of
a panel differ and somebody in it always runs.

### Hooks

A process goes from step to step (`job[p].at`): `install` writes the relay, its record and then the
settings (`WriteRelay`, `WriteRecord`, `Read`, `Check`, `Rename`), and on a failure puts the relay files back
(`Undo`, `Unwrite`); `uninstall` takes the entries out of the settings and then deletes the files
(`Unrelay`, `Unrecord`); a config command writes its file (`ConfigWrite`) and installs, removes or leaves the
hooks (`Sync`); any command inside Claude Code may move the record (`Refresh`).  `Edit` is the user's or
Claude Code's, `Pull` a project file that comes with a checkout, `Fail` and `Die` a failure and a death
at any step.  The user's part of the settings is a number, one more with each edit.

`edits`, `late`, `beside`, `wanted` and `chosen` are history.  `beside` is the one exception of the
properties: nothing in the code keeps two commands that edit the settings apart.

## Runs

Two units, two runs and one helper: a helper can be halfway through when a run is claimed,
fails and is claimed again, which is what nearly every hazard found needs.  Only what a stray update
leaves behind takes a third run, to meet the record it spoiled, and two cleans at once a second helper:
those instances are too large for a run that is repeated with every change, and the proofs are what covers
them (the invariant of `UnitsProofs` was also explored once with three runs and two helpers).  One kill is enough to leave each kind of remnant, and the other run goes on over it.
`Pair` is a plan of two unrelated units (worktrees, both at once), `Chain` one where `b` builds
on `a` (in place).

| Run | Instance | Checks |
| --- | --- | --- |
| `units_core` | Pair, cap 2, status, clean and merge, one kill | the safety properties |
| `units_chain` | Chain, status, kill, handoff and gate, fair | `UnitsSettle`: no unit is recorded as running for ever |
| `units_replan` | two plans, one with a dependency, cancel, clean and replan | `AgentsApart`, `StartsOnMerged` |
| `ledger` | one stage with a budget of one attempt, one of review rounds, two pieces that are free to join a pass, total and runtime 2 | `LedgerAddsUp`, `WithinBudget`, `OneAttemptPerPass` |
| `lock` | three processes, three entries, timeout 2, stale after 3, sections of at most 1, one death, fair | `BrokenOrExclusive`, `ImplementsLock` |
| `loop` | one reviewer, one finding, two trees, two branches, two bases, a round and a consolidation, three snapshots, limit 1, one reset | the five properties of `ReviewLoop` |
| `conduct` | two seats of three kinds, a finding above low and one below, two rounds, two attempts of the fixer, two edits | `RecommendedRuns`, `PanelSits`, `AcceptedStays`, `Concludes` |
| `approval` | a plan within the patterns and one outside, one question, two edits, two design rounds, five configurations | `ApprovedAsSeen`, `UnattendedUnrisky`, `AutoReviewed`, `ProjectCannotLoosen` |
| `merge` | a file the unit changed, one it deleted and one it put a submodule in place of, three edits, two merges, two plans | `FailsWhole`, `UnitNotDropped` |
| `detached` | one run, one helper, two workflows, one change of workflow, fair | `AccountBeforeOutcome`, `RemoveSpares`, `OutcomeStands`, `SettlesOnceNamed` |
| `exec` | two chunks of output, a queue of one, one process started, fair | `OwnOutputKept`, `HolderIsReported`, `StopEndsCli`, `Returns` |
| `config` | two commands over two presets and nine pairs of files; or two processes, two checkouts, one language, one edit, two commands | `StaysLoadable`, `EditsNamedSeat`, `DesignMovesAloud`; `RelayThere`, `SettingsAreTheUsers` |

The invariants of `units_core` together say that a record tells the truth about its run.
`AgentOwnsRecord` is the centre: while an agent works, the record is running, is that run's, and
looks alive to whoever reads it.  It fails as soon as one of the stale reads is acted upon, and it holds to the end of
`finish`, but for a worker whose job already says that it failed (`SaidOver`).
`AgentsApart` is what a user would notice.  `WorktreesKept` says that nobody removes the directory an
agent is in (`RunningKeepsWorktree`) and that edits an agent has made are always named by a record
until they are merged or cleaned (`WorktreeFindable`); `ResultsLast`, that nothing is recorded merged
that is not in the tree (`MergedIsInTree`), nor taken back (`ResultsKept`).

In `ledger` two runs race for one attempt, each may be retried once (so that there are up to four
tries against a total of two), and two epochs come after the first: an entry, a charge and a grant
can each be left over from an earlier one.  Of `LedgerAddsUp`, `RuntimeIsSpent` is the hard part: the charge of an
epoch is that of the runs which began in it and ended themselves, each once, whatever was reset,
cleared or killed between; `InFlightIsOpen` is what makes a stall tell something; `WithinBudget`
is broken by trusting the check made before the lock; `OneAttemptPerPass` is the code's promise
(`ledger.py:423`) that the units of one plan cost their stage a single attempt.

In `lock` three entries are what it takes for a waiter to outlast its timeout while the lock
changes hands twice (`PollPatiently`, which does not put the deadline off, breaks the refinement),
for one process to find a dead one's lock stale, and for two waiters to break it together.
`ImplementsLock` holds the liveness of the abstract lock too: every section ends, and who asks gets
in, a dead holder or not.  `BrokenOrExclusive` leaves out who went in without the lock; that is the
refinement's part.  Its fairness: time passes, a process that can take its next step does, and a
section ends, since nothing is done under a lock but reading, writing and git.

In `loop` a limit of one round and three snapshots are the least that can pass the limit: the spare
round is had after a reset, which leaves a narrowed snapshot to be round one of a new count.
`MarkNotLaundered` needs two snapshots, one handed over as a file and one narrowed to its fix.
`Bound` (in `MCReviewLoop`) keeps the hard cases apart to keep the run small: a consolidation on its
own and the second branch only with the first snapshot, the second base before the third snapshot,
and none of them after the reset.  `--full` is modelled but not given: it only ever widens a
snapshot.

In `conduct` two rounds are one whole and one that narrows to the fix, so that the cap is met by a
round that is recommended, held by its tests and thrown away.  `RecommendedRuns` is the
contract between the two sides: `review run` does not refuse, for the rounds being spent, the round
that `review status` recommends.  `Concludes` is that following the advice comes to an end; the free
orchestrator's log bounds only the two safety properties that are about it.  `PanelSits`: whoever a
rule leaves out, somebody reads the change, and a high-risk change keeps every seat it is due.

In `approval` two edits are a plan changed and a question answered, around a design round that reads
the one and not the other; the third configuration is a project file that loosens all it can, the
fourth one that turns the design review on and blocks on Low alone, the fifth one that leaves Low out of the
severities that block.  The bounds of the run: an approval is not given beside a
gate (one writes `state.json` in a step, the other reads it in one), and neither beside an architect
about to take over the open questions (`Apart`); a gate that asks about the design review is in a
workflow without an approval (`Unattended`); no gate goes by the last two configurations, which are there
for `ProjectCannotLoosen` (`Compared`); a gate that is bound to be refused is not followed further
(`Followed`); and a second round finds something above Low or comes to nothing (`Fewer`).  The theorems
need none of these.

In `merge` the first two files are what a half-done merge takes, one written and one to fail on; the third
is a conflict without a copy, which no merge writes, so one kind of edit to it is enough (`Plain`).  In
`detached` one run is enough for every order of parent, worker, reader and remover: they share no
file with another run's but the directory.  In `config` the two topics share a run and nothing else:
two commands are what it takes for an edit to meet an extra that another renamed, and two processes
for an edit of the settings to fall between another's look and its rename.  In `exec` two chunks are one before the exit and one
after it, and a queue of one is full as soon as `on_line` is slow.

Fairness (`FairSpec`, of `Units`): a process that can go on does (weak fairness of each thread, tail and
helper), because the code only ever waits with bounded waits and an agent is killed at its
deadline.  `units status` is asked again and again (strong fairness of `Status_Read`): the skill
that drives the tool polls it.  Nothing is assumed of the user's other commands, or of starts.

### Where the code and what it says part

Seen while modelling; each was a counterexample, or is a guard, an exception or a history variable
of a property, as named.

Units and jobs
- `units_run.py:352-380`: the docstring of `cancel` says that a record that has gone to another job
  is left alone; a later foreground run names no job and is taken for the cancelled one's, and the
  record is read outside the units lock and written later, so it may be another run's by then.  A
  run that works is then recorded as cancelled, and a third claim puts a second agent on its unit
  (`strayed`).
- `cli_units.py`: two `units clean` at once: the second forgets the worktree of a run claimed since
  the first was through (`strayed`).
- `cli_run.py:427-431` says of closing the unit: "Before the outcome: `jobs wait` returns on the job's
  status, and what it returns to must find the unit's tree and diff written and its worktree gone."  A
  provider that raises, a model without a resolution and a fresh retry out of budget (`759-772`, `852`, `860`) fail
  the job first, and so does a worker refused by its gate.  A claim in
  between takes the unit for free, and it is that claim's record, worktree and result the worker then
  closes (`strayed`).
- `units_run.py:279`: `references/cli.md:458` says a refused attempt removes the worktree; `release`
  puts the earlier record back even when the removal failed, and nothing finds it again
  (`WorktreeFindable` excepts `undone`).
- `cli_run.py:716`: a running unit keeps its worktree in `units clean` (`references/cli.md:917`), unless
  a parent that fell behind (`lag`) marks a later run with its finished job (`strayed`).
- A command that dies between starting its worker and naming the job leaves a record that goes by
  the command's pid, and reconcile fails a run that is going (`handoff` breaks `AgentsApart`).  A
  job record without a pid is never reconciled, though `jobs.py:166` says that none stalls silently.
- `cli_workflow.py:180`: two removals at once: the one takes a workflow away with a run that works in it,
  as it may if it is forced, while the other lists the jobs; the second then finds no job and
  goes on though it was not forced (`RemoveSpares` excepts the runs another removal took).
- `jobs.py:464`: `claim` revives a job cancelled before its worker got to it (`early` breaks
  `AgentsApart`), and makes a removed workflow again.
- `cli_run.py:922` and `1004`: the output file is saved after `jobs.finish`, so that `jobs wait`
  can return before it is there, and a save that is refused writes the finished job again.
- `cli_run.py:838-862`: a foreground retry after a rejected resume is in nobody's list of runs in
  flight for a moment.  Two `--resume` runs at once may continue one session.
- A merge takes the lock for at most 5 seconds of waiting and then goes on beside the other
  (`workspace.py:674`), though `references/cli.md` says merges are taken one at a time.
- `units_merge.py:358-363`: an edit made between the look at a file and the move is written over
  (`lost`), where `atomic_file.py:87` speaks of it as checked; a merge begun under one plan records
  its outcome under the next (`torn`).
- `units_merge.py:173` and `219`: `references/cli.md:916` says that a conflict over a symlink or a submodule
  "saves the unit's under `.ai/execution/units/<name>/theirs/`".  Of a submodule no copy is saved, nor of a
  file the unit put where a symlink or a submodule was: the copy is made only where the unit's own mode is
  a link's (`CopyOwed`, in `UnitNotDropped`, excepts them).

Review and approval
- `approval_auto.py:12` says the latest round reviewed this very plan; a gate may read the frozen plan
  of a round that has not begun yet (`review_snapshot.py:1179`, `AutoReviewed` excepts `torn`).
- With tests beside the round and a recheck of the whole change, a clean round at the cap that its
  tests throw away is recommended again (`cli_review_status.py:222-240`), but its snapshot takes no
  mark of a recheck and `review run` refuses it (`RecommendedRuns` leaves out a round thrown away).
- `status` takes a held round for closing nothing, `review status` closes on it all the same; `next:`
  advises a new review at the cap; the gate counts only stage `test`.
- A finding not yet triaged, of a seat that a rerun leaves out, is gone (`AcceptedStays` is about
  accepted ones).
- `review_loop.py:109`: a round whose reviewers all failed has no findings, and `decide` reads that
  as the end of the review, against `references/workflow.md:1155`.

Execution, configuration and hooks
- `execution.py:79`: `orphans_possible` is said to tell that the group did not fully exit after being
  killed; a CLI that exits just as its deadline comes is reaped by the first look of
  `terminate_tree` (`execution_tree.py:145`), which then takes its group for gone.  `HolderIsReported` is
  about runs that were not killed.
- `cli_config.py:1106`: `reviewer set` and `remove` in a project find the seat again by the id it has in
  the panel in force; a global extra that goes by another name beside the project's own extras is then
  another seat, or none, in the list the edit copies (`EditsNamedSeat` excepts `shifted`).  In a list
  written by hand with an id twice, `reviewer remove <position>` removes the first.
- `config_layers.py:231` speaks of nothing being written that `load()` then refuses: a write of the global
  file is checked without the project's, and one that takes everybody off a panel is accepted
  (`StaysLoadable` excepts both).  And in four commands: remove every project reviewer; globally
  `reviewer add --design --when high-risk`; in the project `reviewer set 1 --id ... --design`, which copies
  a design panel of that one seat and is no new problem of a panel that has it already; in the project
  `reviewer add`.  Every write is accepted and the configuration does not load (`bare`).
- `config.py:160`: a configuration file is written in place, without a lock.
- `claude_hooks.py:552`: a command run once from another checkout must not become the hook of later
  sessions; `config set`, `setup` and `reset` of the language take another checkout's hooks for stale
  and repoint them (`RunsChosen` counts such a command as asking for it).
- A refresh that found no record between an install's two writes gives the record the configuration of
  its own environment.  Two of install, uninstall and their undoing beside each other may leave entries
  without a relay, and a project file that changes between a config command's write and its sync has
  the hooks installed or removed without anybody asking (`beside`).

## Proofs

`UnitsProofs` proves, for any sets of units, runs, helpers and plans, any cap, commands and
faults, from `ConstantsOK` alone:

- `TypeCorrect`: `Spec => []TypeOK`, one step per action.
- `InPlaceIsAlone`: `Spec => []InPlaceAlone` and `CapHolds`: `Spec => []UnderCap`.

The last two are not inductive alone.  Every action but `Claim` only lets units leave the
status running: `Update` and the failing, cancelling, merging writes never write it (`Fields`
has no status "running"), and `Restore` and `Release` put back the record a claim replaced,
which was not running when it was read.  That last fact is the strengthening, `PrevIdle`:
`IInv == TypeOK /\ PrevIdle /\ InPlaceAlone /\ UnderCap`.  `StaysRunning` names what every other
step does (the running units after it are among those before it, and stay in place or not), and
`OtherStepsSafe` draws both invariants from it; `ClaimSafe` is the one step that starts a unit,
where `refusal` and `runs_in_place` are needed.  `AnyUnitType` and `UpdateType` are the lemmas on
operators.

`UnitsProofs` goes on from there to what `units_core` is about, that a record tells the truth about its
run: `AgentsOwnTheirRecords` (`AgentOwnsRecord`), `AgentsKeepApart` (`AgentsApart`), `WorktreesAreKept`
(`WorktreesKept`), `UnitsStartOnMerged` (`StartsOnMerged`) and `UnitResultsLast` (`ResultsLast`).  They assume
`Orderly == Fault \subseteq {"kill", "lag", "replan", "gate"}`, and they have to: the other two faults open a
window in which the code takes a process for gone that goes on (`handoff`, `early`), and under each of them, alone, TLC shows one of the five
violated with two units, two runs and `units status`, `units clean` and `jobs cancel`.  The invariant is
`UInv == ~strayed => Truthful`.  `Truthful` says for each run what it has read and made at its label
(`PlanRead`, `LabelFits`, `DiskFits`) and, while it owns its unit, that the record is its own (`Owns`); a run owns it
from the claim to the end of `finish`, or until its job says it failed (`Owner`, `Late`), and of a late run, that
what it is about to write is its own run's failure (`Lags`); for each
record what its fields say of the run they name (`RecFits`, `InTree`, `OnMerged`); for each suspect that it
is gone if it was found gone (`SuspectFits`); and for each helper that what it read still holds when it
writes (`CleanFits`, `MergeFits`, `CancelFits`).  There are some forty actions and as many copies of a record
in flight, so the proof does not set every action against every part.  It rests on three facts:

- `Onward`: a run only goes on.  It keeps its unit once it has one, and once it is through, at its end or late (`Through`, `Ended`), it is through;
  so what a copy of a record says of a run that is past stays true, whoever holds the copy and
  for however long.
- `OthersLeave`: while a run owns its unit nobody but the run itself, its command's late writes
  included, changes its record, its job or its worktree.
- `Turns`: a step does one of few things to a record: it leaves it, moves its status or its
  worktree on (`Moves`), starts a run on it (`StartsOn`), forgets it for a new plan (`Forgets`) or takes a
  claim back (`Undoes`).  `RecFits`, `InTree` and `OnMerged` are proved once for each of these.

`InPlaceIsAlone` is used once more at the end: two agents in the tree would be two units in place.

`LedgerProofs` proves from `LedgerConstantsOK`, for any runs, stages, pieces, limits and number of
epochs:

- `LedgerTypeCorrect`, `ChargedAsSpent` (`RuntimeIsSpent`), `AccountIsKept` (`AccountKept`),
  `VisibleInFlight` (`InFlightIsOpen`), `LedgerSound` (the three together, `LedgerAddsUp`) and
  `BudgetHolds` (`WithinBudget`).

None is inductive alone, and they need each other: an end is charged only if its entry is there
(`InFlightIsOpen`), and the count of what was spent grows by exactly that run.
`LInv == TypeOK /\ Room /\ Fits /\ Sound(ledger)`: `Room` says that a ledger that was written has
an epoch of its own and that a stale one can be followed, `Fits` what a run has entered and
recorded at each label, and `Sound(l)` is all five over a ledger `l`, with the two facts behind
them: no try began in a later epoch, and an entry's epoch is the ledger's and its try's.  `Sound`
takes the ledger as a parameter because an action writes what it makes of the one it *read*:
`FreshSound` shows that a fresh ledger is sound (its epoch is later than any begun in, so nothing
was spent in it), `LoadSound` that what is read is, and each action is then a step from a sound
`Load` to a sound ledger on disk.  `BeginSound`, `EndSound` and `ConsumeSound` are the steps with
content; `MovesOn` and `RunsStay` are the others.

`LedgerProofs` has `PassCostsOne` too (`OneAttemptPerPass`).  The run counts the grants of a pass; the proof
adds that no grant is of a later epoch, that a try that was not granted has taken nothing
(`Ungranted`), and that as long as the grants of a stage are one pass's, each piece's own, its pass
is open and has as many pieces left as were not granted (`PassFits`), so that the next one joins it.

`MergeProofs` proves the three invariants of `FileLock` for any processes, timeouts and timing
(`Prompt` or not), from `LockConstantsOK` and `NoFileOK`: `FileLockTypeCorrect` (`TypeOK`),
`LockFileHasHolder` (`LockHasHolder`) and `AcquiredAlone` (`BrokenOrExclusive`).  The last is not
inductive: `LockInv` adds that tokens are given out and differ (`TokensGiven`, `TokensDiffer`),
that `acquired` marks only those inside (`AcquiredInside`), and the two facts that make an
owner and its file one: the file is its owner's (`FileOwned`), and while none was broken an owner
has its file (`OwnerHasFile`).  `OwnedKept` and `OwnerKept` cover the steps that change neither.

Of `UnitsMerge` it proves, from `MergeConstantsOK` and for any files, edits, merges and plans:
`MergeTypeCorrect`, `FailedMergeIsUndone` (`FailsWhole`) and `NothingIsDropped` (`UnitNotDropped`).  `MergeInv`
follows one merge through its steps: the result of each file is one the three versions allow, of what
was read (`ResultsTrue`); what is down as done is of files to write, each once, as their results say
(`DoneTrue`); each file is as it was read, as it was written or as it was put back, or as the user has
made it since (`FilesTrue`: `AsRead`, `AsWritten`, `AsLeft`, by the step the merge is at); the record moves
on by the merge under way or by a new plan alone (`RecordTrue`); and what a file came to has been taken
in, kept beside, or acted on by the user (`CopiesKept`, `TakenIn`).  Both properties are then read off it.

`ConfigProofs` proves of `Hooks`, from `HooksConstantsOK` and for any processes, checkouts, languages, edits and
commands: `HooksTypeCorrect`, `RelayIsThere` (`RelayThere`) and `SettingsStayTheUsers`
(`SettingsAreTheUsers`).  The inductive invariant has three parts beside the types: what each process
has in hand fits its step (`Fits`: what an install found before, what a rename read), the text of the
settings is the last edit unless one came late (`TextKept`), and, as long as no two commands were
beside each other, there is one process at most that edits, and the files are as its step has left
them (`Undisturbed`).  Without the last nothing can be said of a relay while its install is half-way.

Of `Seats` it proves, from `SeatsConstantsOK` and for any presets, starting files, ids and number of
commands: `SeatsTypeCorrect`, `WrittenLoads` (`StaysLoadable`), `DesignRoundsMoveAloud` (`DesignMovesAloud`) and
`EditsWhatIsNamed` (`EditsNamedSeat`).
`SeatsInv == SeatsTypeOK /\ ListsOnce /\ GlobalSolid /\ ProjectSolid`: the ids of each written list differ;
the panels of the global file on its own are empty or have somebody who always runs; and so has a panel
that the project file lists, unless it was copied `bare`.  That is all that can be kept, as a write of the
global file is checked without the project's: what a project's panel then comes to is inferred, since
what it does not list it inherits from a panel that is solid (`CodeInherits`, `DesignInherits`).
`FoldSound` is the lemma the rest stands on: whatever extras are folded into a panel, the panel stays in
front as it was and everyone in the whole goes by an id of his own.  `ProblemsAre` turns the problems that
a write looks for into those two facts, and `NoWorse` says what an accepted write has kept.

`EditsNamedSeat` compares two panels place by place, and neither is a place in a file: the command finds a
seat in the panel in force, looks it up again by its id in a list that may have just been copied without
some of the panel, and the panel in force after the write is composed anew.  Three things carry the
proof.  What `Picked` does to a sequence when places are taken out of it or one element is changed
(`PickIs`, `PickConcat`, `PickEdit`, `PickAcross`) needs induction over the sequence; `Climb` does it, over a
subset of the numbers up to the length, as no theorem with an operator for a parameter can be used.
A panel in force is the list it starts from, the extras of the file below and the file's own extras, in
this order, and their names do not matter to the comparison (`PartsOf`, and `Faces`, the seats without
their ids).  And the id of the seat is found in the list where the seat is: an extra's by its place (`OwnLands`),
any other's because the copy is of the seats that the panel in force shows, by the same ids in the same
order, unless `Shifted`, and no two go by one id (`ListLands`, `ListCovers`).

`ReviewLoopProofs` proves from `ReviewLoopConstantsOK` and `NoSnapshotOK`, for any panel, findings, trees, bases,
branches and number of commands, the type invariant (`LoopTypeCorrect`) and all five properties:
`ReportIsOfItsSnapshot`, `MarkStays`, `RoundsAreBounded` and the two action properties `NarrowsFromReviewed` and
`TriageStands`.  `RInv == TypeOK /\ Working /\ Saved`: what a process in the middle of a round has (there is a
snapshot, its round has a number within the cap, what it found was said of its snapshot), and what the
files on disk are: what they list was said of the snapshot they name (`WrittenSaid`, `ReportSaid`), who is
down as having read one has (`ReportRead`), the mark that is owed is there (`MarkKept`), and the rounds
counted are no more than the report's number (`CountFits`).  `SaveSafe` is the one lemma with content: a
report is built from files a reviewer wrote, and from an earlier report of the same snapshot.

`ConductProofs` proves from `SeatsOK`, `ConductConstantsOK` and `NoSnapshotOK`: `ConductTypeCorrect`, `RoundsHaveAPanel`
(`PanelSits`), `RecommendedRoundsRun` (`RecommendedRuns`) and `AcceptedFindingsStay` (`AcceptedStays`).  The first
half is about `Panel` alone, for every panel and every change: the qualified seats are cut to a
limit from the front (`FirstSits`, by the least seat), somebody qualifies because a panel must have a
seat that always runs (`SomebodyQualifies`), and on a high-risk path no rule leaves anyone out
(`RiskyIsWhole`).  The second half needs little of the state: a report is on a snapshot (`OnASnapshot`), and who
reported a finding is among those the report has heard from (`Heard`).

`RunProofs` proves of `Execution`, from `ExecutionConstantsOK`, for any amount of output and size of queue:
`ExecutionTypeCorrect`, `OutputIsReturned` (`OwnOutputKept`), `HoldersAreReported` (`HolderIsReported`) and
`StoppedWorkerEndsCli` (`StopEndsCli`).  `EInv` follows the main thread: what the reader has kept it has read
(`KeptIsRead`), a pipe found at its end stays there (`AtTheEnd`), at each label the CLI is as the
thread has left it (`Spawned`), once it has settled all the CLI wrote lies before its mark (`Settled`), what
still holds the pipe is or will be reported (`Reported`), and a stop that came while the CLI was being
started is not lost (`Stoppable`).

Of `Approval` it proves, from `ApprovalConstantsOK` and for any plans, patterns, answers, configurations and
bounds: `ApprovalTypeCorrect`, the action properties `GoesAsSeen` (`ApprovedAsSeen`), `GoesUnrisky`
(`UnattendedUnrisky`) and `GoesReviewed` (`AutoReviewed`), and `ProjectOnlyTightens` (`ProjectCannotLoosen`).
Nobody reads two of the files at once, so `ApprovalInv` says what each read leaves true.  The frozen plan
is of the latest round or of the one being frozen (`RoundsMatch`); what was declared in a round stays
declared (`DeclaredStays`); a report, an approval on its way, one recorded and one a gate has read all
show what the latest round found, if they are of it (`ShownAsFound`); a report of the frozen plan's round
is of that plan (`OfFrozen`); and a gate has what it read for as long as it goes on (`GateReads`).  The last
holds of a report read earlier because a round only ever gets later: the plan frozen at the round the
gate read is the one it read the report of, or else the gate is `torn`.

`DetachedProofs` proves from `NoneOutside` and `NoJobOK`, for any runs, workflows and helpers: `DetachedTypeCorrect`,
`BooksBeforeOutcome` (`AccountBeforeOutcome`), `RemovalSpares` (`RemoveSpares`) and `OutcomesStand` (`OutcomeStands`).
Everybody here works from a copy of the job file that may be old when it is used.
`DInv == TypeOK /\ StepsOK /\ ...` says for each run what its file, its parent and its worker are to each
other (`RunFits`), and for each helper that its copies still fit (`CancelFits`, `RemoveFits`).  A run
goes only onward, and what a copy says of a run that is over stays true, so `StillFits` carries every copy
over every step of everybody else.

Every invariant and action property of the runs is proved.  Model-checked only:

- `UnitsSettle`, `Returns`, `SettlesOnceNamed` and `Concludes`: the prover has no rule for fairness or `ENABLED`.
- The refinement `ImplementsLock`: half of it is liveness, and its safety half is of timing.  It holds
  for the run's constants alone (`Prompt`, sections shorter than `StaleAfter` and `Timeout`, a queue
  shorter than `MaxWait`): otherwise a live holder's file can be found stale, or a waiter gives up past a
  live holder, neither of which the abstract lock allows.  What holds whatever the timing is
  `BrokenOrExclusive`, which is proved.

## Not modelled

Not modelled yet: which session a run resumes and how a provider's rejection is told from a failure
(`providers/`, `verified.py`; the retry after one is in `Ledger` and `Detached`), the activity a run shows
(`activity.py`), which configuration file may say what and whether a project's is trusted
(`config_trust.py`, beyond what `Approval` takes of it), how two reviewers' findings are taken for one
(`review_consolidation.py`; `ReviewLoop` has a finding as its key), model tiers, and the questions of an architect.

What no property covers, because the code does not promise anything there: the reads and writes of
`jobs cancel` beside a later run (`units_run.py:355`), a claim that revives a cancelled job (`jobs.py:464`), a
report saved over another snapshot (`cli_review_round.py:596`) and a round whose reviewers all failed
(`review_loop.py:109`).  They are exceptions of properties, or in the list above.

Left out for good: prompt texts and reports, the reader and writer of YAML, the wizard, `doctor`, suggestions
and other displays, the release scripts, and Windows.  They are sequential and have no state another
part acts on, or are another platform's.
