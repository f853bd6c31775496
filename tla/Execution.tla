----------------------------- MODULE Execution -----------------------------
(* One run of a child CLI (execution.execute) on POSIX: the main thread that  *)
(* spawns, watches and ends it, the thread that reads its output, the thread  *)
(* that hands lines to on_line, the CLI, a process the CLI starts, and        *)
(* the SIGTERM that jobs cancel sends to the worker that runs it.             *)
(*                                                                            *)
(* Time is abstract: a deadline or a bounded wait may end at any moment.      *)
(* stdout and stderr are one stream, and a chunk read is one line.            *)
EXTENDS Naturals, Sequences

CONSTANTS
  MaxWrites, \* bound: chunks written to the pipe
  QueueSize  \* _LINE_QUEUE_SIZE

ASSUME ExecutionConstantsOK == MaxWrites \in Nat /\ QueueSize \in Nat \ {0}

VARIABLES
  pc,      \* where the main thread is
  leader,  \* the CLI, which leads a process group of its own
  kin,     \* a process the CLI started
  written, \* who wrote each chunk of the pipe, in order
  taken,   \* how many chunks the reader has read
  drain,   \* _Drain: what is kept, the mark, the queue of lines, its flags
  reader,  \* the thread in pump
  handler, \* the thread in _hand_on, with the line it holds
  seen,    \* the lines on_line was called with
  stop,    \* _StopState
  run      \* what execute has found out so far

vars == <<pc, leader, kin, written, taken, drain, reader, handler, seen, stop, run>>
world == <<leader, kin, written>>
threads == <<taken, drain, reader, handler, seen>>

NoMark == MaxWrites + 1

Init ==
  /\ pc = "start" /\ leader = "absent"
  /\ kin = [state |-> "absent", grouped |-> TRUE, holds |-> FALSE, deaf |-> FALSE]
  /\ written = <<>> /\ taken = 0
  /\ drain = [kept |-> 0, limit |-> NoMark, queue |-> <<>>, settled |-> TRUE,
              detached |-> FALSE, closed |-> FALSE, abandoned |-> FALSE]
  /\ reader = "idle" /\ handler = [at |-> "get", line |-> 0] /\ seen = {}
  /\ stop = [spawning |-> FALSE, requested |-> FALSE, active |-> FALSE, noted |-> FALSE]
  /\ run = [killed |-> "no", lingering |-> FALSE, orphans |-> FALSE, mark |-> 0, text |-> 0]

-----------------------------------------------------------------------------
(* The processes outside, and what can be seen of them. *)

Alive(state) == state \in {"running", "doomed"}

\* _group_alive: a zombie leader counts until it is reaped.
GroupAlive == Alive(leader) \/ leader = "zombie" \/ (kin.grouped /\ Alive(kin.state))

\* _group_running: a zombie does not count.
GroupRunning == Alive(leader) \/ (kin.grouped /\ Alive(kin.state))

PipeHeld == Alive(leader) \/ (kin.holds /\ Alive(kin.state))

\* killpg: SIGTERM dooms who heeds it, SIGKILL everyone in the group.
KinStruck(sig) ==
  IF kin.state = "running" /\ kin.grouped /\ (sig = "KILL" \/ ~kin.deaf)
  THEN [kin EXCEPT !.state = "doomed"] ELSE kin

Terminated ==
  /\ leader' = IF leader = "running" THEN "doomed" ELSE leader
  /\ kin' = KinStruck("TERM")
  /\ UNCHANGED written

\* The leader, once it has exited, is collected by poll, wait or waitpid.
Reap == leader' = "reaped" /\ UNCHANGED <<kin, written>>

Write ==
  \E who \in {"cli", "kin"} :
    /\ Len(written) < MaxWrites
    /\ who = "cli" => Alive(leader)
    /\ who = "kin" => kin.holds /\ Alive(kin.state)
    /\ written' = Append(written, who)
    /\ UNCHANGED <<pc, leader, kin, threads, stop, run>>

\* The CLI starts a process: in its group or not, holding its output or not, deaf to SIGTERM or not.
Fork ==
  /\ leader = "running" /\ kin.state = "absent"
  /\ \E g, h, d \in BOOLEAN : kin' = [state |-> "running", grouped |-> g, holds |-> h, deaf |-> d]
  /\ UNCHANGED <<pc, leader, written, threads, stop, run>>

LeaderExits ==
  /\ Alive(leader) /\ leader' = "zombie"
  /\ UNCHANGED <<pc, kin, written, threads, stop, run>>

KinExits ==
  /\ Alive(kin.state) /\ kin' = [kin EXCEPT !.state = "gone"]
  /\ UNCHANGED <<pc, leader, written, threads, stop, run>>

\* jobs cancel signals the worker (kill_tree): its handler waits while a CLI is being started.
Sigterm ==
  /\ pc \notin {"done", "stopping", "stopTerm", "stopKill", "exited"} /\ ~stop.requested
  /\ stop' = [stop EXCEPT !.requested = TRUE]
  /\ pc' = IF stop.spawning THEN pc ELSE "stopping"
  /\ UNCHANGED <<world, threads, run>>

-----------------------------------------------------------------------------
(* The reader, pump, and the thread of on_line, _hand_on. *)

Started == pc \notin {"start", "spawning", "registering"} /\ leader # "absent"

Read1 ==
  /\ reader = "idle" /\ Started /\ taken < Len(written)
  /\ taken' = taken + 1 /\ reader' = "holding"
  /\ UNCHANGED <<pc, world, drain, handler, seen, stop, run>>

\* Under the drain's lock: kept, unless what comes now is no longer the run's.
Keep1 ==
  /\ reader = "holding"
  /\ IF drain.detached THEN reader' = "idle" /\ UNCHANGED drain
     ELSE reader' = "handing" /\ drain' = [drain EXCEPT !.kept = @ + 1]
  /\ UNCHANGED <<pc, world, taken, handler, seen, stop, run>>

\* _hand: outside the lock; a full queue loses the line.
Hand1 ==
  /\ reader = "handing" /\ reader' = "idle"
  /\ drain' = [drain EXCEPT !.queue = IF Len(@) < QueueSize THEN Append(@, taken) ELSE @]
  /\ UNCHANGED <<pc, world, taken, handler, seen, stop, run>>

ReadEnd ==
  /\ reader = "idle" /\ Started /\ taken = Len(written) /\ ~PipeHeld
  /\ reader' = "over" /\ drain' = [drain EXCEPT !.closed = TRUE]
  /\ UNCHANGED <<pc, world, taken, handler, seen, stop, run>>

HandlerAt(at) == handler' = [handler EXCEPT !.at = at]

Get ==
  /\ handler.at = "get"
  /\ \/ drain.abandoned /\ HandlerAt("over") /\ UNCHANGED drain
     \/ /\ ~drain.abandoned /\ drain.queue # <<>>
        /\ handler' = [at |-> "check", line |-> Head(drain.queue)]
        /\ drain' = [drain EXCEPT !.queue = Tail(@)]
     \/ drain.closed /\ drain.queue = <<>> /\ HandlerAt("over") /\ UNCHANGED drain
  /\ UNCHANGED <<pc, world, taken, reader, seen, stop, run>>

\* The mark is looked at under the lock, once before waiting and once after.
CheckMark ==
  /\ handler.at \in {"check", "recheck"}
  /\ \/ drain.abandoned /\ handler.at = "check" /\ HandlerAt("over")
     \/ HandlerAt(IF handler.line <= drain.limit THEN "call"
                  ELSE IF handler.at = "check" THEN "wait" ELSE "get")
  /\ UNCHANGED <<pc, world, taken, drain, reader, seen, stop, run>>

AwaitSettled ==
  /\ handler.at = "wait"
  /\ \/ drain.settled /\ HandlerAt("recheck")
     \/ ~drain.settled /\ drain.abandoned /\ HandlerAt("over")
  /\ UNCHANGED <<pc, world, taken, drain, reader, seen, stop, run>>

\* on_line is called, and may never return.
CallOnLine ==
  /\ handler.at = "call"
  /\ seen' = seen \cup {handler.line} /\ HandlerAt("busy")
  /\ UNCHANGED <<pc, world, taken, drain, reader, stop, run>>

OnLineReturns ==
  /\ handler.at = "busy" /\ HandlerAt("get")
  /\ UNCHANGED <<pc, world, taken, drain, reader, seen, stop, run>>

-----------------------------------------------------------------------------
(* The main thread: execute. *)

To(next) == pc' = next

\* mark, keep and detach of _Drain, each under its lock.
Marked(d) == [d EXCEPT !.limit = d.kept, !.settled = FALSE]
Kept(d) == [d EXCEPT !.limit = NoMark, !.settled = TRUE]
Detached(d, mark) ==
  [d EXCEPT !.detached = TRUE, !.limit = IF @ <= mark THEN @ ELSE mark,
            !.kept = IF @ <= mark THEN @ ELSE mark, !.settled = TRUE]

\* Mutant of StartSpawn: a SIGTERM is not deferred while the CLI is started.
StartSpawnUndeferred ==
  /\ pc = "start" /\ To("spawning") /\ UNCHANGED <<world, threads, stop, run>>

\* _spawn: a SIGTERM is put off until the CLI can be found by the handler.
StartSpawn ==
  /\ pc = "start" /\ To("spawning") /\ stop' = [stop EXCEPT !.spawning = TRUE]
  /\ UNCHANGED <<world, threads, run>>

Popen ==
  /\ pc = "spawning" /\ To("registering") /\ leader' = "running"
  /\ UNCHANGED <<kin, written, threads, stop, run>>

PopenFails ==
  /\ pc = "spawning" /\ stop' = [stop EXCEPT !.spawning = FALSE]
  /\ To(IF stop.requested THEN "stopping" ELSE "done")
  /\ run' = [run EXCEPT !.killed = "spawn"]
  /\ UNCHANGED <<world, threads>>

\* active.append, the end of the deferral, and _honour_stop.
Register ==
  /\ pc = "registering" /\ stop' = [stop EXCEPT !.active = TRUE, !.spawning = FALSE]
  /\ To(IF stop.requested THEN "stopping" ELSE "watch")
  /\ UNCHANGED <<world, threads, run>>

\* _watch: a poll finds the CLI running; a later one has seen it exit, or the total or the idle
\* deadline has passed since the last.
Poll ==
  /\ pc = "watch" /\ Alive(leader) /\ To("polled")
  /\ UNCHANGED <<world, threads, stop, run>>

SeeExit ==
  /\ pc \in {"watch", "polled"} /\ leader = "zombie" /\ Reap /\ To("settle")
  /\ UNCHANGED <<threads, stop, run>>

Deadline ==
  /\ pc = "polled" /\ To("terminate")
  /\ \E why \in {"timeout", "idle"} : run' = [run EXCEPT !.killed = why]
  /\ UNCHANGED <<world, threads, stop>>

\* terminate_tree polls first: a CLI that has exited is taken as gone, its group not looked at.
Terminate ==
  /\ pc = "terminate"
  /\ IF leader = "zombie" THEN Reap /\ To("join") ELSE Terminated /\ To("term")
  /\ UNCHANGED <<threads, stop, run>>

\* Mutant of OutputIsIn: the pipe is not waited for once the CLI has exited.
OutputIsInAtOnce == TRUE

\* _settle: over when the reader is, or when the output is quiet or its time is up. A reader
\* gets what the CLI wrote within that time.
OutputIsIn ==
  \/ reader = "over"
  \/ \A i \in DOMAIN written : written[i] = "cli" => i <= drain.kept

Settle ==
  /\ pc = "settle" /\ OutputIsIn /\ To("join")
  /\ run' = [run EXCEPT !.mark = drain.kept] /\ drain' = Marked(drain)
  /\ UNCHANGED <<world, taken, reader, handler, seen, stop>>

LingeringInGroup == run.killed = "no" /\ reader # "over" /\ GroupAlive

\* Something still holds the output of a CLI that exited by itself.
Lingering == run.killed = "no" /\ reader # "over"

\* A member of its group is still running, though it holds nothing.
LeftBehind == run.killed = "no" /\ ~Lingering /\ GroupRunning

\* The reader is joined, for so long, then asked if it is still alive.
Join ==
  /\ pc = "join"
  /\ run' = [run EXCEPT !.lingering = Lingering, !.orphans = @ \/ Lingering]
  /\ drain' = IF Lingering \/ LeftBehind THEN Detached(drain, run.mark)
              ELSE IF run.killed = "no" THEN Kept(drain) ELSE drain
  /\ To(IF Lingering THEN "leftovers" ELSE "finish")
  /\ UNCHANGED <<world, taken, reader, handler, seen, stop>>

\* _end_leftovers: the group of the exited CLI, if it still has members.
EndLeftovers ==
  /\ pc = "leftovers"
  /\ IF GroupAlive THEN Terminated /\ To("leftTerm") ELSE To("finish") /\ UNCHANGED world
  /\ UNCHANGED <<threads, stop, run>>

Rejoin ==
  /\ pc = "rejoin" /\ To("finish")
  /\ run' = [run EXCEPT !.orphans = reader # "over"]
  /\ UNCHANGED <<world, threads, stop>>

FinishWhenHandled ==
  /\ pc = "finish" /\ To("result") /\ handler.at = "over"
  /\ drain' = [drain EXCEPT !.closed = TRUE, !.abandoned = TRUE]
  /\ UNCHANGED <<world, taken, reader, handler, seen, stop, run>>

\* finish: on_line's thread is joined, for so long, then abandoned.
Finish ==
  /\ pc = "finish" /\ To("result")
  /\ drain' = [drain EXCEPT !.closed = TRUE, !.abandoned = TRUE]
  /\ UNCHANGED <<world, taken, reader, handler, seen, stop, run>>

Result ==
  /\ pc = "result" /\ To("done")
  /\ run' = [run EXCEPT !.text = drain.kept] /\ stop' = [stop EXCEPT !.active = FALSE]
  /\ UNCHANGED <<world, threads>>

\* The two escalations, _end_tree and _stop_group, each wait after each of their two signals.
Wait == [term |-> "kill", leftTerm |-> "leftKill", stopTerm |-> "stopKill",
         kill |-> "join", leftKill |-> "finish", stopKill |-> "exited"]

\* Where each escalation goes on to once its group is confirmed gone.
AfterGone == [term |-> "join", kill |-> "join", leftTerm |-> "rejoin", leftKill |-> "rejoin",
              stopTerm |-> "exited", stopKill |-> "exited"]

\* The group is seen to be gone, its leader reaped.
GroupEnds ==
  /\ pc \in DOMAIN Wait /\ ~GroupRunning
  /\ leader' = "reaped" /\ To(AfterGone[pc])
  /\ UNCHANGED <<kin, written, threads, stop, run>>

\* The wait ends first: SIGKILL after SIGTERM, and after SIGKILL the group may still be running.
\* Either way a leader that has exited has been reaped.
WaitEnds ==
  /\ pc \in DOMAIN Wait /\ GroupRunning /\ To(Wait[pc])
  /\ LET killing == pc \in {"term", "leftTerm", "stopTerm"}
     IN /\ leader' = CASE leader = "zombie" -> "reaped"
                       [] killing /\ leader = "running" -> "doomed"
                       [] OTHER -> leader
        /\ kin' = IF killing THEN KinStruck("KILL") ELSE kin
        /\ UNCHANGED written
  /\ run' = [run EXCEPT !.orphans = @ \/ pc = "kill"]
  /\ stop' = [stop EXCEPT !.noted = @ \/ pc = "stopKill"]
  /\ UNCHANGED threads

\* _stop_now: the group of a CLI not yet reaped is ended; then the worker exits, cleaning up nothing.
StopNow ==
  /\ pc = "stopping"
  /\ IF stop.active /\ leader # "reaped" THEN Terminated /\ To("stopTerm")
     ELSE To("exited") /\ UNCHANGED world
  /\ UNCHANGED <<threads, stop, run>>

-----------------------------------------------------------------------------

Outside == Write \/ Fork \/ LeaderExits \/ KinExits \/ Sigterm

Reader == Read1 \/ Keep1 \/ Hand1 \/ ReadEnd

Handler == Get \/ CheckMark \/ AwaitSettled \/ CallOnLine \/ OnLineReturns

Main ==
  \/ StartSpawn \/ Popen \/ PopenFails \/ Register \/ Poll \/ SeeExit \/ Deadline \/ Terminate
  \/ Settle \/ Join \/ EndLeftovers \/ Rejoin \/ Finish \/ Result
  \/ GroupEnds \/ WaitEnds \/ StopNow

Next == Outside \/ Reader \/ Handler \/ Main

Spec == Init /\ [][Next]_vars

\* The main thread is scheduled, its deadlines pass, and its reader reads what has arrived.
\* Nothing is asked of the CLI, of what it starts, or of on_line.
FairSpec == Spec /\ WF_vars(Main) /\ WF_vars(Reader)

-----------------------------------------------------------------------------

\* Type correctness.
TypeOK ==
  /\ pc \in {"start", "spawning", "registering", "watch", "polled", "terminate", "settle", "join", "leftovers",
             "rejoin", "finish", "result", "done", "stopping", "exited"} \cup DOMAIN Wait
  /\ leader \in {"absent", "running", "doomed", "zombie", "reaped"}
  /\ kin \in [state: {"absent", "running", "doomed", "gone"}, grouped: BOOLEAN, holds: BOOLEAN,
              deaf: BOOLEAN]
  /\ written \in Seq({"cli", "kin"}) /\ Len(written) <= MaxWrites /\ taken \in 0 .. Len(written)
  /\ drain \in [kept: 0 .. taken, limit: 0 .. NoMark, queue: Seq(1 .. taken), settled: BOOLEAN,
                detached: BOOLEAN, closed: BOOLEAN, abandoned: BOOLEAN]
  /\ reader \in {"idle", "holding", "handing", "over"}
  /\ handler \in [at: {"get", "check", "wait", "recheck", "call", "busy", "over"}, line: 0 .. taken]
  /\ seen \subseteq 1 .. taken
  /\ stop \in [spawning: BOOLEAN, requested: BOOLEAN, active: BOOLEAN, noted: BOOLEAN]
  /\ run \in [killed: {"no", "spawn", "timeout", "idle"}, lingering: BOOLEAN, orphans: BOOLEAN,
              mark: 0 .. taken, text: 0 .. taken]

\* A run that was not killed returns everything the CLI itself wrote, also when a process it
\* left behind keeps the pipe open and the reader has to be abandoned.
OwnOutputKept ==
  pc = "done" /\ run.killed = "no" => \A i \in DOMAIN written : written[i] = "cli" => i <= run.text

\* After a run that was not killed, nothing still holds its output unless the outcome says so.
HolderIsReported ==
  pc = "done" /\ run.killed = "no" /\ kin.holds /\ Alive(kin.state) => run.orphans

\* A worker that a SIGTERM ended leaves no CLI running, whenever the signal came, also while
\* the CLI was being started -- or it has said which it could not end.
StopEndsCli == pc = "exited" => ~Alive(leader) \/ stop.noted

\* Every run ends: whatever the CLI, its children and on_line do, execute returns or the worker exits.
Returns == <>(pc \in {"done", "exited"})

=============================================================================
