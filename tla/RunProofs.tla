----------------------------- MODULE RunProofs ------------------------------
(***************************************************************************)
(* Proofs about the two ends of a run: what lets it go to implementation,  *)
(* and what becomes of the child CLI it starts.                            *)
(*                                                                         *)
(* Execution.  A run of a child CLI is well typed, the output of a CLI     *)
(* that was not killed is returned whole, what still holds it is reported, *)
(* and a worker stopped by SIGTERM leaves no CLI it says nothing about.    *)
(* The argument follows the main thread.  Once it has seen a CLI exit,     *)
(* nothing the CLI could write is still to come; it goes on only when what *)
(* the CLI wrote has been kept, marks that place, and never cuts below the *)
(* mark.  A pipe the reader found at its end stays at its end.             *)
(*                                                                         *)
(* Approval.  For any plans, rounds, questions and settings: nothing goes  *)
(* to implementation but what was approved as it was seen, or was waived   *)
(* with no risk declared and, where the settings ask for one, a review;    *)
(* and a project's file loosens nothing.  The argument keeps three pieces  *)
(* in step: a report shows what its round found, an approval what the      *)
(* report showed, and no round is behind the frozen plan.                  *)
(***************************************************************************)
EXTENDS Execution, Approval, SequenceTheorems, TLAPS

-----------------------------------------------------------------------------
(* The inductive invariant. *)

\* The type invariant, by parts.
MainOK ==
  pc \in {"start", "spawning", "registering", "watch", "polled", "terminate", "settle", "join", "leftovers",
          "rejoin", "finish", "result", "done", "stopping", "exited", "term", "leftTerm", "stopTerm",
          "kill", "leftKill", "stopKill"}

LeaderOK == leader \in {"absent", "running", "doomed", "zombie", "reaped"}

KinOK == kin \in [state: {"absent", "running", "doomed", "gone"}, grouped: BOOLEAN, holds: BOOLEAN,
                  deaf: BOOLEAN]

PipeOK ==
  /\ written \in Seq({"cli", "kin"}) /\ Len(written) <= MaxWrites
  /\ taken \in Nat /\ taken <= Len(written)

DrainOK ==
  /\ drain \in [kept: Nat, limit: 0 .. NoMark, queue: Seq(1 .. taken), settled: BOOLEAN,
                detached: BOOLEAN, closed: BOOLEAN, abandoned: BOOLEAN]
  /\ drain.kept <= taken

ThreadsOK ==
  /\ reader \in {"idle", "holding", "handing", "over"}
  /\ handler \in [at: {"get", "check", "wait", "recheck", "call", "busy", "over"}, line: Nat]
  /\ handler.line <= taken
  /\ seen \subseteq 1 .. taken

StopOK == stop \in [spawning: BOOLEAN, requested: BOOLEAN, active: BOOLEAN, noted: BOOLEAN]

RunOK ==
  /\ run \in [killed: {"no", "spawn", "timeout", "idle"}, lingering: BOOLEAN, orphans: BOOLEAN,
              mark: Nat, text: Nat]
  /\ run.mark <= taken /\ run.text <= taken

Typed == MainOK /\ LeaderOK /\ KinOK /\ PipeOK /\ DrainOK /\ ThreadsOK /\ StopOK /\ RunOK

\* The reader is between the pipe and the drain with one chunk in its hand.
InHand == IF reader = "holding" THEN 1 ELSE 0

\* The drain keeps every chunk read, until what comes is no longer the run's.
KeptIsRead ==
  /\ drain.kept + InHand <= taken
  /\ ~drain.detached => drain.kept + InHand = taken
  /\ reader = "handing" => taken > 0
  /\ handler.at \in {"check", "wait", "recheck", "call"} => handler.line > 0

\* The end of the pipe is found once everybody who could write is gone, and is final.
AtTheEnd == reader = "over" => leader # "absent" /\ taken = Len(written) /\ ~PipeHeld

\* Before the CLI exists.
NotSpawned == {"start", "spawning"}

\* While the main thread watches the CLI or ends it.
Watching == {"registering", "watch", "polled", "terminate", "term", "kill"}

\* After the CLI exited by itself, when nothing has interrupted the run.
Leaving == {"leftovers", "leftTerm", "leftKill"}
Ending == {"finish", "result", "done"}
Exited == {"settle", "join", "rejoin"} \cup Leaving \cup Ending

\* The CLI is there from _spawn on, and a SIGTERM is put off until the handler can find it.
Spawned ==
  /\ pc \in NotSpawned => leader = "absent"
  /\ pc \in {"spawning", "registering"} => stop.spawning
  /\ pc \in {"terminate", "term", "kill"} => run.killed \in {"timeout", "idle"}
  /\ pc \in NotSpawned \cup Watching \cup {"settle", "join"} => ~drain.detached

\* A run that was not killed goes past _settle only after its CLI has exited, and with all it wrote
\* kept up to the mark.
Settled ==
  run.killed = "no" /\ pc \in Exited =>
    /\ leader = "reaped"
    /\ pc # "settle" => /\ run.mark <= drain.kept
                        /\ \A i \in DOMAIN written : written[i] = "cli" => i <= run.mark
    /\ pc = "done" => run.mark <= run.text

\* Whoever still holds the output of such a run is in its outcome, or found gone.
Reported ==
  run.killed = "no" =>
    /\ pc \in Leaving => run.orphans
    /\ pc \in Ending => run.orphans \/ reader = "over"

\* The handler of SIGTERM finds the CLI whenever there is one.
Stoppable ==
  /\ pc \notin NotSpawned \cup {"registering", "done", "stopping", "exited"} => stop.active
  /\ pc = "stopping" => stop.active \/ leader = "absent"
  /\ pc = "exited" => ~Alive(leader) \/ stop.noted

EInv == Typed /\ KeptIsRead /\ AtTheEnd /\ Spawned /\ Settled /\ Reported /\ Stoppable

-----------------------------------------------------------------------------
(* The state is well typed. *)

\* A queue of chunks read is one of chunks read when more has been.
LEMMA QueueGrows == ASSUME NEW S, NEW T, S \subseteq T, NEW q \in Seq(S) PROVE q \in Seq(T)
OBVIOUS

\* What is taken from a queue, and added to it, is of its kind.
LEMMA QueueEnds ==
  ASSUME NEW S, NEW q \in Seq(S)
  PROVE  /\ q # <<>> => Head(q) \in S /\ Tail(q) \in Seq(S)
         /\ \A x \in S : Append(q, x) \in Seq(S)
OBVIOUS

\* The waits of the escalations, by name.
LEMMA WaitDomain == DOMAIN Wait = {"term", "leftTerm", "stopTerm", "kill", "leftKill", "stopKill"}
BY DEF Wait

\* The parts say what the type invariant says.
LEMMA TypeParts == Typed <=> TypeOK
<1> USE ExecutionConstantsOK DEF NoMark
<1>1. MainOK <=> pc \in {"start", "spawning", "registering", "watch", "polled", "terminate", "settle", "join",
                         "leftovers", "rejoin", "finish", "result", "done", "stopping", "exited"}
                          \cup DOMAIN Wait
  BY WaitDomain DEF MainOK
<1>2. ASSUME PipeOK
      PROVE  0 .. taken = {n \in Nat : n <= taken}
  BY <1>2 DEF PipeOK
<1>3. ASSUME PipeOK
      PROVE  DrainOK <=> drain \in [kept: 0 .. taken, limit: 0 .. NoMark, queue: Seq(1 .. taken),
                                    settled: BOOLEAN, detached: BOOLEAN, closed: BOOLEAN,
                                    abandoned: BOOLEAN]
  BY <1>3, <1>2 DEF DrainOK, PipeOK
<1>4. ASSUME PipeOK
      PROVE  RunOK <=> run \in [killed: {"no", "spawn", "timeout", "idle"}, lingering: BOOLEAN,
                                orphans: BOOLEAN, mark: 0 .. taken, text: 0 .. taken]
  BY <1>4, <1>2 DEF RunOK, PipeOK
<1>5. ASSUME PipeOK
      PROVE  ThreadsOK <=> /\ reader \in {"idle", "holding", "handing", "over"}
                           /\ handler \in [at: {"get", "check", "wait", "recheck", "call", "busy", "over"},
                                            line: 0 .. taken]
                           /\ seen \subseteq 1 .. taken
  BY <1>5, <1>2 DEF ThreadsOK, PipeOK
<1>6. PipeOK <=> /\ written \in Seq({"cli", "kin"}) /\ Len(written) <= MaxWrites
                 /\ taken \in 0 .. Len(written)
  BY DEF PipeOK
<1> QED
  BY <1>1, <1>3, <1>4, <1>5, <1>6 DEF Typed, TypeOK, LeaderOK, KinOK, StopOK

\* The initial state.
LEMMA InitTyped == Init => Typed
<1> SUFFICES ASSUME Init PROVE Typed
  OBVIOUS
<1> USE ExecutionConstantsOK DEF Init
<1>1. MainOK /\ LeaderOK /\ KinOK /\ PipeOK /\ StopOK /\ RunOK
  BY DEF MainOK, LeaderOK, KinOK, PipeOK, StopOK, RunOK
<1>2. DrainOK /\ ThreadsOK
  BY DEF DrainOK, ThreadsOK, NoMark
<1> QED
  BY <1>1, <1>2 DEF Typed

\* What leaves the reader's and the handler's state alone keeps their types.
LEMMA ThreadsStand ==
  ASSUME Typed, UNCHANGED <<taken, drain, reader, handler, seen>>
  PROVE  DrainOK' /\ ThreadsOK'
BY DEF Typed, DrainOK, ThreadsOK, NoMark

\* A signal to the group dooms who heeds it.
LEMMA StruckOK == ASSUME KinOK, NEW sig PROVE KinStruck(sig) \in [state: {"absent", "running", "doomed", "gone"},
                                                 grouped: BOOLEAN, holds: BOOLEAN, deaf: BOOLEAN]
BY DEF KinOK, KinStruck

\* The steps of the processes outside.
LEMMA OutsideTyped == ASSUME Typed, Outside PROVE Typed'
<1> USE ExecutionConstantsOK
<1>1. CASE Write
  <2>1. PICK who \in {"cli", "kin"} : Len(written) < MaxWrites /\ written' = Append(written, who)
    BY <1>1 DEF Write
  <2>2. PipeOK'
    BY <1>1, <2>1 DEF Typed, PipeOK, Write, threads
  <2>3. UNCHANGED <<pc, leader, kin, taken, drain, reader, handler, seen, stop, run>>
    BY <1>1 DEF Write, threads
  <2> QED
    BY <2>2, <2>3, ThreadsStand DEF Typed, MainOK, LeaderOK, KinOK, StopOK, RunOK
<1>2. CASE Fork
  <2>1. KinOK'
    BY <1>2 DEF Fork, KinOK
  <2>2. UNCHANGED <<pc, leader, written, taken, drain, reader, handler, seen, stop, run>>
    BY <1>2 DEF Fork, threads
  <2> QED
    BY <2>1, <2>2, ThreadsStand DEF Typed, MainOK, LeaderOK, PipeOK, StopOK, RunOK
<1>3. CASE LeaderExits
  <2>1. LeaderOK'
    BY <1>3 DEF LeaderExits, LeaderOK
  <2>2. UNCHANGED <<pc, kin, written, taken, drain, reader, handler, seen, stop, run>>
    BY <1>3 DEF LeaderExits, threads
  <2> QED
    BY <2>1, <2>2, ThreadsStand DEF Typed, MainOK, KinOK, PipeOK, StopOK, RunOK
<1>4. CASE KinExits
  <2>1. KinOK'
    BY <1>4 DEF KinExits, KinOK, Typed
  <2>2. UNCHANGED <<pc, leader, written, taken, drain, reader, handler, seen, stop, run>>
    BY <1>4 DEF KinExits, threads
  <2> QED
    BY <2>1, <2>2, ThreadsStand DEF Typed, MainOK, LeaderOK, PipeOK, StopOK, RunOK
<1>5. CASE Sigterm
  <2>1. MainOK' /\ StopOK'
    BY <1>5 DEF Sigterm, MainOK, StopOK, Typed
  <2>2. UNCHANGED <<leader, kin, written, taken, drain, reader, handler, seen, run>>
    BY <1>5 DEF Sigterm, threads, world
  <2> QED
    BY <2>1, <2>2, ThreadsStand DEF Typed, LeaderOK, KinOK, PipeOK, RunOK
<1> QED
  BY <1>1, <1>2, <1>3, <1>4, <1>5 DEF Outside

\* The steps of the reader and of the thread that hands lines on.
LEMMA ThreadsTyped == ASSUME Typed, KeptIsRead, Reader \/ Handler PROVE Typed'
<1> USE ExecutionConstantsOK
<1>1. UNCHANGED <<pc, leader, kin, written, stop, run>>
  BY DEF Reader, Handler, Read1, Keep1, Hand1, ReadEnd, Get, CheckMark, AwaitSettled, CallOnLine,
         OnLineReturns, world
<1>2. /\ taken \in Nat /\ taken' \in Nat
      /\ taken <= taken'
      /\ taken' <= Len(written)
  BY DEF Reader, Handler, Read1, Keep1, Hand1, ReadEnd, Get, CheckMark, AwaitSettled, CallOnLine,
         OnLineReturns, Typed, PipeOK
<1>3. MainOK' /\ LeaderOK' /\ KinOK' /\ PipeOK' /\ StopOK' /\ RunOK'
  BY <1>1, <1>2 DEF Typed, MainOK, LeaderOK, KinOK, PipeOK, StopOK, RunOK
<1>4. drain.queue \in Seq(1 .. taken) /\ drain.queue \in Seq(1 .. taken')
  <2>1. 1 .. taken \subseteq 1 .. taken'
    BY <1>2
  <2>2. drain.queue \in Seq(1 .. taken)
    BY DEF Typed, DrainOK
  <2> QED
    BY <2>1, <2>2, QueueGrows
<1>5. CASE Read1
  BY <1>5, <1>3, <1>2, <1>4 DEF Typed, Read1, DrainOK, ThreadsOK, NoMark
<1>6. CASE Keep1
  BY <1>6, <1>3, <1>2 DEF Typed, Keep1, DrainOK, ThreadsOK, NoMark, KeptIsRead, InHand
<1>7. CASE Hand1
  <2> DEFINE q == IF Len(drain.queue) < QueueSize THEN Append(drain.queue, taken) ELSE drain.queue
  <2>1. taken \in 1 .. taken
    BY <1>7, <1>2 DEF Hand1, KeptIsRead
  <2>3. q \in Seq(1 .. taken)
    BY <2>1, <1>4, QueueEnds
  <2>4. drain' = [drain EXCEPT !.queue = q] /\ UNCHANGED taken
    BY <1>7 DEF Hand1
  <2>2. DrainOK'
    <3> HIDE DEF q
    <3> QED
      BY <2>3, <2>4 DEF Typed, DrainOK, NoMark
  <2> QED
    BY <1>7, <1>3, <2>2 DEF Typed, Hand1, ThreadsOK
<1>8. CASE ReadEnd
  BY <1>8, <1>3 DEF Typed, ReadEnd, DrainOK, ThreadsOK, NoMark
<1>9. CASE Get
  <2>1. ASSUME drain.queue # <<>>
        PROVE  Head(drain.queue) \in 1 .. taken /\ Tail(drain.queue) \in Seq(1 .. taken)
    BY <2>1, <1>4, QueueEnds
  <2>2. DrainOK'
    BY <1>9, <2>1 DEF Typed, Get, DrainOK, NoMark
  <2>3. ThreadsOK'
    BY <1>9, <2>1, <1>2 DEF Typed, Get, HandlerAt, ThreadsOK
  <2> QED
    BY <1>3, <2>2, <2>3 DEF Typed
<1>10. CASE CheckMark
  BY <1>10, <1>3 DEF Typed, CheckMark, HandlerAt, DrainOK, ThreadsOK, NoMark
<1>11. CASE AwaitSettled
  BY <1>11, <1>3 DEF Typed, AwaitSettled, HandlerAt, DrainOK, ThreadsOK, NoMark
<1>13. CASE CallOnLine
  <2>1. handler.line \in 1 .. taken
    BY <1>13, <1>2 DEF CallOnLine, KeptIsRead, Typed, ThreadsOK
  <2>2. UNCHANGED <<taken, drain, reader>>
    BY <1>13 DEF CallOnLine
  <2>3. DrainOK'
    BY <2>2 DEF Typed, DrainOK, NoMark
  <2>4. ThreadsOK'
    BY <1>13, <2>1, <2>2 DEF Typed, CallOnLine, HandlerAt, ThreadsOK
  <2> QED
    BY <1>3, <2>3, <2>4 DEF Typed
<1>12. CASE OnLineReturns
  BY <1>12, <1>3 DEF Typed, OnLineReturns, HandlerAt, DrainOK, ThreadsOK, NoMark
<1> QED
  BY <1>5, <1>6, <1>7, <1>8, <1>9, <1>10, <1>11, <1>12, <1>13 DEF Reader, Handler

\* The marks the drain is given are chunks it was given, and its type stands.
LEMMA MarkedOK ==
  ASSUME Typed, NEW m \in Nat, NEW d, d \in {Marked(drain), Kept(drain), Detached(drain, m)}
  PROVE  /\ d \in [kept: Nat, limit: 0 .. NoMark, queue: Seq(1 .. taken), settled: BOOLEAN,
                   detached: BOOLEAN, closed: BOOLEAN, abandoned: BOOLEAN]
         /\ d.kept <= drain.kept
         /\ d # Detached(drain, m) => d.kept = drain.kept /\ (d.detached <=> drain.detached)
         /\ d.kept >= m \/ d.kept = drain.kept
<1> DEFINE lim == IF drain.limit <= m THEN drain.limit ELSE m
           cut == IF drain.kept <= m THEN drain.kept ELSE m
<1>1. drain.kept \in Nat /\ drain.kept \in 0 .. NoMark /\ drain.limit \in 0 .. NoMark /\ NoMark \in 0 .. NoMark
  <2>1. drain.kept \in Nat /\ drain.kept <= taken /\ taken <= Len(written) /\ Len(written) <= MaxWrites
    BY DEF Typed, DrainOK, PipeOK
  <2>2. taken \in Nat /\ Len(written) \in Nat /\ MaxWrites \in Nat
    BY ExecutionConstantsOK DEF Typed, PipeOK
  <2> QED
    BY <2>1, <2>2 DEF Typed, DrainOK, NoMark
<1>2. lim \in 0 .. NoMark
  BY <1>1
<1>3. cut \in Nat /\ cut <= drain.kept /\ (cut >= m \/ cut = drain.kept)
  BY <1>1
<1>4. Detached(drain, m) = [drain EXCEPT !.detached = TRUE, !.limit = lim, !.kept = cut, !.settled = TRUE]
  BY DEF Detached
<1> HIDE DEF lim, cut
<1>5. CASE d = Marked(drain)
  <2>1. d = [drain EXCEPT !.limit = drain.kept, !.settled = FALSE]
    BY <1>5 DEF Marked
  <2>2. d.kept = drain.kept /\ (d.detached <=> drain.detached)
    BY <2>1 DEF Typed, DrainOK
  <2>3. d \in [kept: Nat, limit: 0 .. NoMark, queue: Seq(1 .. taken), settled: BOOLEAN,
              detached: BOOLEAN, closed: BOOLEAN, abandoned: BOOLEAN]
    BY <1>1, <2>1 DEF Typed, DrainOK
  <2> QED
    BY <1>1, <2>2, <2>3
<1>6. CASE d = Kept(drain)
  <2>1. d = [drain EXCEPT !.limit = NoMark, !.settled = TRUE]
    BY <1>6 DEF Kept
  <2>2. d.kept = drain.kept /\ (d.detached <=> drain.detached)
    BY <2>1 DEF Typed, DrainOK
  <2>3. d \in [kept: Nat, limit: 0 .. NoMark, queue: Seq(1 .. taken), settled: BOOLEAN,
              detached: BOOLEAN, closed: BOOLEAN, abandoned: BOOLEAN]
    BY <1>1, <2>1 DEF Typed, DrainOK
  <2> QED
    BY <1>1, <2>2, <2>3
<1>7. CASE d = Detached(drain, m)
  BY <1>2, <1>3, <1>4, <1>7 DEF Typed, DrainOK
<1> QED
  BY <1>5, <1>6, <1>7

\* The steps of the main thread, with those that change nothing it knows of the pipe first.
LEMMA MainTyped == ASSUME Typed, Main PROVE Typed'
<1> USE ExecutionConstantsOK
<1>1. UNCHANGED <<written, taken>>
  BY DEF Main, StartSpawn, Popen, PopenFails, Register, Poll, SeeExit, Deadline, Terminate, Settle, Join,
         EndLeftovers, Rejoin, Finish, Result, GroupEnds, WaitEnds, StopNow, world, threads, Reap, Terminated
<1>2. PipeOK'
  BY <1>1 DEF Typed, PipeOK
<1>3. UNCHANGED <<reader, handler, seen>> /\ ThreadsOK'
  <2>1. UNCHANGED <<reader, handler, seen>>
    BY DEF Main, StartSpawn, Popen, PopenFails, Register, Poll, SeeExit, Deadline, Terminate, Settle, Join,
           EndLeftovers, Rejoin, Finish, Result, GroupEnds, WaitEnds, StopNow, threads
  <2> QED
    BY <2>1, <1>1 DEF Typed, ThreadsOK
<1>4. MainOK'
  <2>1. \A p \in DOMAIN Wait : /\ Wait[p] \in {"kill", "leftKill", "stopKill", "join", "finish", "exited"}
                               /\ AfterGone[p] \in {"join", "rejoin", "exited"}
    BY WaitDomain DEF Wait, AfterGone
  <2> QED
    BY <2>1 DEF Typed, MainOK, Main, StartSpawn, Popen, PopenFails, Register, Poll, SeeExit, Deadline, Terminate,
           Settle, Join, EndLeftovers, Rejoin, Finish, Result, GroupEnds, WaitEnds, StopNow, To
<1>5. LeaderOK'
  BY DEF Typed, LeaderOK, Main, StartSpawn, Popen, PopenFails, Register, Poll, SeeExit, Deadline, Terminate,
         Settle, Join, EndLeftovers, Rejoin, Finish, Result, GroupEnds, WaitEnds, StopNow, world, Reap, Terminated
<1>6. KinOK'
  <2>1. kin' \in {kin, KinStruck("TERM"), KinStruck("KILL")}
    BY DEF Main, StartSpawn, Popen, PopenFails, Register, Poll, SeeExit, Deadline, Terminate, Settle, Join,
           EndLeftovers, Rejoin, Finish, Result, GroupEnds, WaitEnds, StopNow, world, Reap, Terminated
  <2> QED
    BY <2>1, StruckOK DEF Typed, KinOK
<1>7. DrainOK'
  <2>1. run.mark \in Nat
    BY DEF Typed, RunOK
  <2>2. \/ UNCHANGED drain
        \/ drain' \in {Marked(drain), Kept(drain), Detached(drain, run.mark)}
        \/ drain' = [drain EXCEPT !.closed = TRUE, !.abandoned = TRUE]
    BY DEF Main, StartSpawn, Popen, PopenFails, Register, Poll, SeeExit, Deadline, Terminate, Settle, Join,
           EndLeftovers, Rejoin, Finish, Result, GroupEnds, WaitEnds, StopNow, threads
  <2>3. CASE UNCHANGED drain
    BY <2>3, <1>1 DEF Typed, DrainOK, NoMark
  <2>4. CASE drain' \in {Marked(drain), Kept(drain), Detached(drain, run.mark)}
    <3>1. /\ drain' \in [kept: Nat, limit: 0 .. NoMark, queue: Seq(1 .. taken), settled: BOOLEAN,
                         detached: BOOLEAN, closed: BOOLEAN, abandoned: BOOLEAN]
          /\ drain'.kept <= drain.kept
      BY <2>1, <2>4, MarkedOK
    <3>2. drain'.kept <= taken
      BY <3>1 DEF Typed, DrainOK, PipeOK
    <3> QED
      BY <3>1, <3>2, <1>1 DEF DrainOK, NoMark
  <2>5. CASE drain' = [drain EXCEPT !.closed = TRUE, !.abandoned = TRUE]
    BY <2>5, <1>1 DEF Typed, DrainOK, NoMark
  <2> QED
    BY <2>2, <2>3, <2>4, <2>5
<1>8. StopOK'
  BY DEF Typed, StopOK, MainOK, Main, StartSpawn, Popen, PopenFails, Register, Poll, SeeExit, Deadline, Terminate,
         Settle, Join, EndLeftovers, Rejoin, Finish, Result, GroupEnds, WaitEnds, StopNow
<1>9. RunOK'
  <2>1. CASE UNCHANGED run
    BY <2>1, <1>1 DEF Typed, RunOK
  <2>2. CASE PopenFails \/ Deadline \/ Settle \/ Result
    BY <2>2, <1>1 DEF Typed, RunOK, DrainOK, PipeOK, PopenFails, Deadline, Settle, Result
  <2>3. CASE Join \/ Rejoin \/ WaitEnds
    <3> DEFINE joined == run.orphans \/ Lingering
               waited == run.orphans \/ pc = "kill"
               over == reader # "over"
    <3>1. joined \in BOOLEAN /\ waited \in BOOLEAN /\ over \in BOOLEAN /\ Lingering \in BOOLEAN
      BY DEF Lingering
    <3>2. \/ run' = [run EXCEPT !.lingering = Lingering, !.orphans = joined]
          \/ run' = [run EXCEPT !.orphans = waited]
          \/ run' = [run EXCEPT !.orphans = over]
      BY <2>3 DEF Join, Rejoin, WaitEnds
    <3> HIDE DEF joined, waited, over
    <3> QED
      BY <3>1, <3>2, <1>1 DEF Typed, RunOK
  <2> QED
    BY <2>1, <2>2, <2>3 DEF Main, StartSpawn, Popen, Register, Poll, SeeExit, Terminate, EndLeftovers, Finish,
           GroupEnds, StopNow
<1> QED
  BY <1>2, <1>3, <1>4, <1>5, <1>6, <1>7, <1>8, <1>9 DEF Typed

-----------------------------------------------------------------------------
(* The steps of the processes outside and of the threads. *)

\* The initial state.
LEMMA InitHolds == Init => EInv
<1> SUFFICES ASSUME Init PROVE EInv
  OBVIOUS
<1>1. KeptIsRead /\ AtTheEnd
  BY DEF Init, KeptIsRead, InHand, AtTheEnd
<1>2. Spawned /\ Settled /\ Reported /\ Stoppable
  BY DEF Init, Spawned, Settled, Reported, Stoppable, NotSpawned, Watching, Exited, Leaving, Ending, Alive
<1> QED
  BY <1>1, <1>2, InitTyped DEF EInv

\* Whoever may write is holding the pipe.
LEMMA WritersHold ==
  ASSUME EInv, NEW who \in {"cli", "kin"}, written' = Append(written, who),
         who = "cli" => Alive(leader), who = "kin" => kin.holds /\ Alive(kin.state)
  PROVE  /\ PipeHeld /\ reader # "over"
         /\ who = "cli" => leader # "reaped"
         /\ DOMAIN written' = DOMAIN written \cup {Len(written) + 1}
         /\ \A i \in DOMAIN written : written'[i] = written[i]
         /\ written'[Len(written) + 1] = who
BY DEF EInv, AtTheEnd, PipeHeld, Alive, Typed, PipeOK

\* What the CLI and its children do, and when SIGTERM comes.
LEMMA OutsideHolds == ASSUME EInv, Outside PROVE EInv'
<1>1. Typed'
  BY OutsideTyped DEF EInv
<1>2. CASE Write
  <2>1. PICK who \in {"cli", "kin"} : /\ written' = Append(written, who)
                                      /\ who = "cli" => Alive(leader)
                                      /\ who = "kin" => kin.holds /\ Alive(kin.state)
    BY <1>2 DEF Write
  <2>2. UNCHANGED <<pc, leader, kin, taken, drain, reader, handler, seen, stop, run>>
    BY <1>2 DEF Write, threads
  <2>3. KeptIsRead' /\ AtTheEnd' /\ Spawned' /\ Reported' /\ Stoppable'
    BY <2>1, <2>2, WritersHold DEF EInv, KeptIsRead, InHand, AtTheEnd, Spawned, Reported, Stoppable, Alive
  <2>4. Settled'
    BY <2>1, <2>2, WritersHold DEF EInv, Settled, Alive
  <2> QED
    BY <1>1, <2>3, <2>4 DEF EInv
<1>3. CASE Fork
  <2>1. UNCHANGED <<pc, leader, written, taken, drain, reader, handler, seen, stop, run>>
    BY <1>3 DEF Fork, threads
  <2>2. AtTheEnd'
    BY <1>3, <2>1 DEF EInv, Fork, AtTheEnd, PipeHeld, Alive
  <2> QED
    BY <1>1, <2>1, <2>2 DEF EInv, KeptIsRead, InHand, Spawned, Settled, Reported, Stoppable, Alive
<1>4. CASE LeaderExits
  <2>1. UNCHANGED <<pc, kin, written, taken, drain, reader, handler, seen, stop, run>>
    BY <1>4 DEF LeaderExits, threads
  <2>2. leader \in {"running", "doomed"} /\ leader' = "zombie"
    BY <1>4 DEF LeaderExits, Alive
  <2>3. AtTheEnd' /\ Spawned' /\ Settled' /\ Stoppable'
    BY <2>1, <2>2 DEF EInv, AtTheEnd, PipeHeld, Spawned, Settled, Stoppable, Alive
  <2> QED
    BY <1>1, <2>1, <2>3 DEF EInv, KeptIsRead, InHand, Reported
<1>5. CASE KinExits
  <2>1. UNCHANGED <<pc, leader, written, taken, drain, reader, handler, seen, stop, run>>
    BY <1>5 DEF KinExits, threads
  <2>2. AtTheEnd'
    BY <1>5, <2>1 DEF EInv, KinExits, AtTheEnd, PipeHeld, Alive
  <2> QED
    BY <1>1, <2>1, <2>2 DEF EInv, KeptIsRead, InHand, Spawned, Settled, Reported, Stoppable, Alive
<1>6. CASE Sigterm
  <2>1. UNCHANGED <<leader, kin, written, taken, drain, reader, handler, seen, run>>
    BY <1>6 DEF Sigterm, threads, world
  <2>2. pc' = pc \/ (pc' = "stopping" /\ ~stop.spawning)
    BY <1>6 DEF Sigterm
  <2>3. stop'.active = stop.active /\ stop'.spawning = stop.spawning /\ stop'.noted = stop.noted
    BY <1>6 DEF Sigterm, EInv, Typed, StopOK
  <2>4. KeptIsRead' /\ AtTheEnd'
    BY <2>1 DEF EInv, KeptIsRead, InHand, AtTheEnd, PipeHeld
  <2>5. Spawned' /\ Settled' /\ Reported'
    BY <2>1, <2>2, <2>3 DEF EInv, Spawned, Settled, Reported, NotSpawned, Watching, Exited, Leaving, Ending
  <2>6. Stoppable'
    BY <1>6, <2>1, <2>2, <2>3 DEF Sigterm, EInv, Spawned, Stoppable, NotSpawned, Alive, Typed, MainOK
  <2> QED
    BY <1>1, <2>4, <2>5, <2>6 DEF EInv
<1> QED
  BY <1>2, <1>3, <1>4, <1>5, <1>6 DEF Outside

\* What the reader and the thread of on_line do.
LEMMA ThreadsHold == ASSUME EInv, Reader \/ Handler PROVE EInv'
<1>1. Typed'
  BY ThreadsTyped DEF EInv
<1>2. UNCHANGED <<pc, leader, kin, written, stop, run>>
  BY DEF Reader, Handler, Read1, Keep1, Hand1, ReadEnd, Get, CheckMark, AwaitSettled, CallOnLine,
         OnLineReturns, world
<1>3. Spawned' /\ Settled' /\ Reported' /\ Stoppable'
  <2>1. /\ drain'.kept \in Nat /\ drain.kept \in Nat /\ run.mark \in Nat
        /\ drain'.kept >= drain.kept
        /\ drain'.detached <=> drain.detached
    BY DEF EInv, Typed, DrainOK, RunOK, Reader, Handler, Read1, Keep1, Hand1, ReadEnd, Get, CheckMark, AwaitSettled,
           CallOnLine, OnLineReturns
  <2>2. reader = "over" => reader' = "over"
    BY DEF Reader, Handler, Read1, Keep1, Hand1, ReadEnd, Get, CheckMark, AwaitSettled, CallOnLine, OnLineReturns
  <2> QED
    BY <1>2, <2>1, <2>2 DEF EInv, Spawned, Settled, Reported, Stoppable
<1>4. KeptIsRead'
  <2>1. CASE Reader
    <3>1. UNCHANGED handler
      BY <2>1 DEF Reader, Read1, Keep1, Hand1, ReadEnd
    <3>2. CASE Read1
      BY <3>1, <3>2 DEF EInv, Typed, DrainOK, PipeOK, KeptIsRead, InHand, Read1
    <3>3. CASE Keep1
      BY <3>1, <3>3 DEF EInv, Typed, DrainOK, PipeOK, KeptIsRead, InHand, Keep1
    <3>4. CASE Hand1 \/ ReadEnd
      <4>1. drain'.kept = drain.kept /\ (drain'.detached <=> drain.detached) /\ UNCHANGED taken
        BY <3>4 DEF EInv, Typed, DrainOK, Hand1, ReadEnd
      <4> QED
        BY <3>1, <3>4, <4>1 DEF EInv, KeptIsRead, InHand, Hand1, ReadEnd
    <3> QED
      BY <2>1, <3>2, <3>3, <3>4 DEF Reader
  <2>2. CASE Handler
    <3>1. drain'.kept = drain.kept /\ (drain'.detached <=> drain.detached) /\ UNCHANGED <<taken, reader>>
      BY <2>2 DEF EInv, Typed, DrainOK, Handler, Get, CheckMark, AwaitSettled, CallOnLine, OnLineReturns
    <3>2. handler'.at \in {"check", "wait", "recheck", "call"} => handler'.line > 0
      <4>1. CASE Get
        <5>1. drain.queue # <<>> => Head(drain.queue) \in 1 .. taken
          BY QueueEnds DEF EInv, Typed, DrainOK
        <5> QED
          BY <4>1, <5>1 DEF EInv, Typed, PipeOK, ThreadsOK, KeptIsRead, Get, HandlerAt
      <4>2. CASE CheckMark \/ AwaitSettled \/ CallOnLine \/ OnLineReturns
        BY <4>2 DEF EInv, Typed, ThreadsOK, KeptIsRead, CheckMark, AwaitSettled, CallOnLine, OnLineReturns, HandlerAt
      <4> QED
        BY <2>2, <4>1, <4>2 DEF Handler
    <3> QED
      BY <3>1, <3>2 DEF EInv, KeptIsRead, InHand
  <2> QED
    BY <2>1, <2>2
<1>5. AtTheEnd'
  BY <1>2 DEF EInv, AtTheEnd, PipeHeld, Started, Reader, Handler, Read1, Keep1, Hand1, ReadEnd, Get, CheckMark,
              AwaitSettled, CallOnLine, OnLineReturns
<1> QED
  BY <1>1, <1>3, <1>4, <1>5 DEF EInv

-----------------------------------------------------------------------------
(* The steps of the main thread. *)

\* The reader's end of the pipe stays: the main thread writes nothing and revives nobody.
LEMMA MainEnds == ASSUME EInv, Main PROVE AtTheEnd'
<1>1. UNCHANGED <<written, taken, reader>>
  BY DEF Main, StartSpawn, Popen, PopenFails, Register, Poll, SeeExit, Deadline, Terminate, Settle, Join,
         EndLeftovers, Rejoin, Finish, Result, GroupEnds, WaitEnds, StopNow, world, threads, Reap, Terminated
<1>2. \/ leader' = leader
      \/ leader = "absent" /\ pc = "spawning" /\ leader' = "running"
      \/ leader' = "reaped"
      \/ leader = "running" /\ leader' = "doomed"
  BY DEF EInv, Spawned, NotSpawned, Main, StartSpawn, Popen, PopenFails, Register, Poll, SeeExit, Deadline, Terminate,
         Settle, Join, EndLeftovers, Rejoin, Finish, Result, GroupEnds, WaitEnds, StopNow, world, Reap, Terminated
<1>3. kin'.holds = kin.holds /\ (Alive(kin'.state) => Alive(kin.state))
  <2>1. kin' \in {kin, KinStruck("TERM"), KinStruck("KILL")}
    BY DEF Main, StartSpawn, Popen, PopenFails, Register, Poll, SeeExit, Deadline, Terminate, Settle, Join,
           EndLeftovers, Rejoin, Finish, Result, GroupEnds, WaitEnds, StopNow, world, Reap, Terminated
  <2> QED
    BY <2>1 DEF KinStruck, Alive, EInv, Typed, KinOK
<1> QED
  BY <1>1, <1>2, <1>3 DEF EInv, AtTheEnd, PipeHeld, Alive

\* The drain keeps what it was given.
LEMMA MainKeeps == ASSUME EInv, Main PROVE KeptIsRead'
<1>1. UNCHANGED <<taken, reader, handler>>
  BY DEF Main, StartSpawn, Popen, PopenFails, Register, Poll, SeeExit, Deadline, Terminate, Settle, Join,
         EndLeftovers, Rejoin, Finish, Result, GroupEnds, WaitEnds, StopNow, threads
<1>2. \/ drain'.kept = drain.kept /\ (drain'.detached <=> drain.detached)
      \/ Join /\ drain' = Detached(drain, run.mark)
  BY DEF EInv, Typed, DrainOK, Main, StartSpawn, Popen, PopenFails, Register, Poll, SeeExit, Deadline, Terminate,
         Settle, Join, EndLeftovers, Rejoin, Finish, Result, GroupEnds, WaitEnds, StopNow, threads, Marked, Kept
<1>3. ASSUME drain' = Detached(drain, run.mark)
      PROVE  drain'.kept <= drain.kept /\ drain'.kept \in Nat /\ drain'.detached
  <2>1. run.mark \in Nat /\ drain.kept \in Nat
    BY DEF EInv, Typed, RunOK, DrainOK
  <2>2. drain'.kept <= drain.kept /\ drain'.kept \in Nat
    BY <1>3, <2>1, MarkedOK DEF EInv
  <2>3. drain'.detached
    BY <1>3 DEF EInv, Typed, DrainOK, Detached
  <2> QED
    BY <2>2, <2>3
<1> QED
  BY <1>1, <1>2, <1>3 DEF EInv, Typed, PipeOK, DrainOK, KeptIsRead, InHand

\* At _settle, what the CLI wrote has been kept.
LEMMA SettleHolds ==
  ASSUME EInv, Settle
  PROVE  /\ run'.mark = drain'.kept
         /\ run.killed = "no" => \A i \in DOMAIN written : written[i] = "cli" => i <= run'.mark
<1>1. run'.mark = drain.kept /\ drain'.kept = drain.kept
  BY DEF EInv, Typed, RunOK, DrainOK, Settle, Marked
<1>2. CASE reader = "over"
  <2>1. drain.kept = Len(written)
    BY <1>2 DEF EInv, AtTheEnd, KeptIsRead, InHand, Spawned, Settle, Typed, DrainOK, PipeOK
  <2> QED
    BY <1>1, <2>1 DEF EInv, Typed, PipeOK
<1> QED
  BY <1>1, <1>2 DEF Settle, OutputIsIn

\* How each step of the main thread leaves the invariant's other parts.
LEMMA MainGoesOn == ASSUME EInv, Main PROVE Spawned' /\ Settled' /\ Reported' /\ Stoppable'
<1>1. UNCHANGED <<written, taken, reader>>
  BY DEF Main, StartSpawn, Popen, PopenFails, Register, Poll, SeeExit, Deadline, Terminate, Settle, Join,
         EndLeftovers, Rejoin, Finish, Result, GroupEnds, WaitEnds, StopNow, world, threads, Reap, Terminated
<1> USE DEF EInv, NotSpawned, Watching, Exited, Leaving, Ending, Alive, To
<1>2. CASE StartSpawn \/ Popen \/ PopenFails \/ Register \/ Poll
  <2>1. UNCHANGED drain
    BY <1>2 DEF StartSpawn, Popen, PopenFails, Register, Poll, threads
  <2>2. Spawned' /\ Stoppable'
    BY <1>2, <2>1 DEF Spawned, Stoppable, StartSpawn, Popen, PopenFails, Register, Poll, world, Typed, StopOK, RunOK
  <2>3. Settled' /\ Reported'
    BY <1>2 DEF Settled, Reported, StartSpawn, Popen, PopenFails, Register, Poll, Typed, RunOK
  <2> QED
    BY <2>2, <2>3
<1>3. CASE SeeExit \/ Deadline
  <2>1. UNCHANGED drain
    BY <1>3 DEF SeeExit, Deadline, threads
  <2>2. Spawned' /\ Stoppable'
    BY <1>3, <2>1 DEF Spawned, Stoppable, SeeExit, Deadline, world, Typed, RunOK, Reap
  <2>3. Settled' /\ Reported'
    BY <1>3 DEF Settled, Reported, SeeExit, Deadline, Typed, RunOK, Reap
  <2> QED
    BY <2>2, <2>3
<1>4. CASE Terminate \/ EndLeftovers \/ StopNow
  <2>1. UNCHANGED <<drain, run, stop>>
    BY <1>4 DEF Terminate, EndLeftovers, StopNow, threads
  <2>2. leader' = leader \/ leader' = "reaped" \/ (leader = "running" /\ leader' = "doomed")
    BY <1>4 DEF Terminate, EndLeftovers, StopNow, world, Reap, Terminated
  <2>3. /\ Terminate => pc = "terminate" /\ pc' \in {"join", "term"}
        /\ EndLeftovers => pc = "leftovers" /\ pc' \in {"leftTerm", "finish"}
        /\ StopNow => /\ pc = "stopping"
                      /\ \/ pc' = "stopTerm" /\ stop.active
                         \/ pc' = "exited" /\ UNCHANGED leader /\ (leader = "reaped" \/ ~stop.active)
    BY DEF Terminate, EndLeftovers, StopNow, world
  <2>4. Spawned' /\ Stoppable'
    BY <1>4, <2>1, <2>2, <2>3 DEF Spawned, Stoppable
  <2>5. Settled' /\ Reported'
    BY <1>1, <1>4, <2>1, <2>2, <2>3 DEF Spawned, Settled, Reported
  <2> QED
    BY <2>4, <2>5
<1>5. CASE Settle
  <2>1. UNCHANGED <<leader, stop>> /\ run'.killed = run.killed /\ (drain'.detached <=> drain.detached)
    BY <1>5 DEF Settle, Marked, world, Typed, RunOK, DrainOK
  <2>2. Settled'
    <3>1. run'.mark = drain'.kept /\ drain'.kept \in Nat
      BY <1>5, SettleHolds, MainTyped DEF Typed, DrainOK
    <3> QED
      BY <1>1, <1>5, <2>1, <3>1, SettleHolds DEF Settle, Settled
  <2> QED
    BY <1>5, <2>1, <2>2 DEF Settle, Spawned, Stoppable, Reported
<1>6. CASE Join
  <2>1. UNCHANGED <<leader, stop>> /\ run'.killed = run.killed /\ run'.mark = run.mark /\ run'.text = run.text
    BY <1>6 DEF Join, world, Typed, RunOK
  <2>2. run.killed = "no" => drain'.kept >= run.mark
    <3>1. drain' \in {Detached(drain, run.mark), Kept(drain), drain}
      BY <1>6 DEF Join
    <3>2. drain.kept \in Nat /\ run.mark \in Nat
      BY DEF Typed, DrainOK, RunOK
    <3>3. drain'.kept >= run.mark \/ drain'.kept = drain.kept
      BY <3>1, <3>2, MarkedOK
    <3>4. run.killed = "no" => run.mark <= drain.kept
      BY <1>6 DEF Join, Settled
    <3> QED
      BY <3>2, <3>3, <3>4
  <2>3. pc = "join" /\ (pc' = "leftovers" \/ pc' = "finish")
    BY <1>6 DEF Join
  <2>4. Settled'
    <3>1. drain'.kept \in Nat /\ run.mark \in Nat
      BY MainTyped DEF Typed, DrainOK, RunOK
    <3> QED
      BY <1>1, <2>1, <2>2, <2>3, <3>1 DEF Settled
  <2>5. Reported'
    <3>1. run.killed = "no" /\ pc' = "leftovers" => run'.orphans
      BY <1>6 DEF Join, Lingering, Typed, RunOK
    <3>2. run.killed = "no" /\ pc' = "finish" => reader = "over"
      BY <1>6 DEF Join, Lingering
    <3> QED
      BY <1>1, <2>1, <2>3, <3>1, <3>2 DEF Reported
  <2> QED
    BY <2>1, <2>3, <2>4, <2>5 DEF Spawned, Stoppable
<1>7. CASE Rejoin \/ Finish \/ Result
  <2>1. UNCHANGED leader /\ drain'.kept = drain.kept
    BY <1>7 DEF Rejoin, Finish, Result, world, threads, Typed, DrainOK
  <2>2. run'.killed = run.killed /\ run'.mark = run.mark
    BY <1>7 DEF Rejoin, Finish, Result, Typed, RunOK
  <2>3. Settled'
    <3>1. Result => run'.text = drain.kept
      BY DEF Result, Typed, RunOK
    <3> QED
      BY <1>1, <1>7, <2>1, <2>2, <3>1 DEF Settled, Rejoin, Finish, Result
  <2>4. Reported'
    <3>1. CASE Rejoin
      BY <1>1, <3>1 DEF Rejoin, Reported, Typed, RunOK
    <3>2. CASE Finish \/ Result
      <4>1. run'.orphans <=> run.orphans
        BY <3>2 DEF Finish, Result, Typed, RunOK
      <4> QED
        BY <1>1, <2>2, <3>2, <4>1 DEF Finish, Result, Reported
    <3> QED
      BY <1>7, <3>1, <3>2
  <2> QED
    BY <1>7, <2>1, <2>2, <2>3, <2>4 DEF Rejoin, Finish, Result, Spawned, Stoppable
<1>8. CASE GroupEnds \/ WaitEnds
  <2>1. UNCHANGED drain /\ run'.killed = run.killed /\ run'.mark = run.mark /\ run'.text = run.text
    BY <1>8 DEF GroupEnds, WaitEnds, threads, Typed, RunOK
  <2>2. /\ stop'.spawning <=> stop.spawning
        /\ stop'.active <=> stop.active
        /\ stop.noted \/ (WaitEnds /\ pc = "stopKill") => stop'.noted
    BY <1>8 DEF GroupEnds, WaitEnds, Typed, StopOK
  <2>3. run.orphans => run'.orphans
    BY <1>8 DEF GroupEnds, WaitEnds, Typed, RunOK
  <2>4. \/ GroupEnds /\ leader' = "reaped"
        \/ WaitEnds /\ (leader' = leader \/ leader' = "reaped" \/ (leader = "running" /\ leader' = "doomed"))
    BY <1>8 DEF GroupEnds, WaitEnds
  <2>5. \/ pc \in {"term", "kill"} /\ pc' \in {"kill", "join"}
        \/ pc \in {"leftTerm", "leftKill"} /\ pc' \in {"leftKill", "finish", "rejoin"}
        \/ pc = "stopTerm" /\ pc' = "stopKill" /\ WaitEnds
        \/ pc = "stopTerm" /\ pc' = "exited" /\ GroupEnds
        \/ pc = "stopKill" /\ pc' = "exited"
    BY <1>8, WaitDomain DEF GroupEnds, WaitEnds, Wait, AfterGone
  <2>6. Spawned'
    BY <2>1, <2>2, <2>4, <2>5 DEF Spawned
  <2>8. Stoppable'
    <3>1. ASSUME pc' = "exited"
          PROVE  leader' = "reaped" \/ stop'.noted
      <4>1. CASE GroupEnds
        BY <4>1 DEF GroupEnds
      <4>2. CASE WaitEnds
        <5>1. pc = "stopKill"
          BY <3>1, <4>2, WaitDomain DEF WaitEnds, Wait
        <5> QED
          BY <4>2, <5>1 DEF WaitEnds, Typed, StopOK
      <4> QED
        BY <1>8, <4>1, <4>2
    <3>2. stop.active /\ stop'.active
      BY <2>2, <2>5 DEF Stoppable
    <3> QED
      BY <2>5, <3>1, <3>2 DEF Stoppable
  <2>7. Settled' /\ Reported'
    BY <1>1, <2>1, <2>3, <2>4, <2>5 DEF Spawned, Settled, Reported
  <2> QED
    BY <2>6, <2>7, <2>8
<1> QED
  BY <1>2, <1>3, <1>4, <1>5, <1>6, <1>7, <1>8 DEF Main

\* Every step preserves the invariant.
LEMMA NextHolds == EInv /\ [Next]_vars => EInv'
<1> SUFFICES ASSUME EInv, [Next]_vars PROVE EInv'
  OBVIOUS
<1>1. CASE Outside
  BY <1>1, OutsideHolds
<1>2. CASE Reader \/ Handler
  BY <1>2, ThreadsHold
<1>3. CASE Main
  <2>1. Typed'
    BY <1>3, MainTyped DEF EInv
  <2> QED
    BY <1>3, <2>1, MainEnds, MainKeeps, MainGoesOn DEF EInv
<1>4. CASE UNCHANGED vars
  <2>1. UNCHANGED <<pc, leader, kin, written, taken, drain, reader, handler, seen, stop, run>>
    BY <1>4 DEF vars
  <2>2. Typed'
    BY <2>1 DEF EInv, Typed, MainOK, LeaderOK, KinOK, PipeOK, DrainOK, ThreadsOK, StopOK, RunOK, NoMark
  <2> QED
    BY <2>1, <2>2 DEF EInv, KeptIsRead, InHand, AtTheEnd, PipeHeld, Spawned, Settled, Reported, Stoppable
<1> QED
  BY <1>1, <1>2, <1>3, <1>4 DEF Next

\* The inductive invariant holds.
LEMMA ExecutionInvariant == Spec => []EInv
<1> QED
  BY InitHolds, NextHolds, PTL DEF Spec

-----------------------------------------------------------------------------

\* What execute, its threads and the CLI keep has its type.
THEOREM ExecutionTypeCorrect == Spec => []TypeOK
<1>1. EInv => TypeOK
  BY TypeParts DEF EInv
<1> QED
  BY <1>1, ExecutionInvariant, PTL

\* A run that was not killed returns everything its CLI wrote, also when the reader is abandoned
\* because a process the CLI left behind keeps the pipe open.
THEOREM OutputIsReturned == Spec => []OwnOutputKept
<1>1. EInv => OwnOutputKept
  BY DEF EInv, OwnOutputKept, Settled, Exited, Ending, Typed, PipeOK, RunOK
<1> QED
  BY <1>1, ExecutionInvariant, PTL

\* Whatever still holds the output of a run that was not killed is in its outcome.
THEOREM HoldersAreReported == Spec => []HolderIsReported
<1>1. EInv => HolderIsReported
  BY DEF EInv, HolderIsReported, Reported, Ending, AtTheEnd, PipeHeld
<1> QED
  BY <1>1, ExecutionInvariant, PTL

\* A worker stopped by a SIGTERM leaves no CLI running that it has not named, at whatever moment of
\* the run the signal came.
THEOREM StoppedWorkerEndsCli == Spec => []StopEndsCli
<1>1. EInv => StopEndsCli
  BY DEF EInv, StopEndsCli, Stoppable
<1> QED
  BY <1>1, ExecutionInvariant, PTL

-----------------------------------------------------------------------------
(* What goes to implementation: the invariant of Approval. *)

\* No round is behind the frozen plan, and a report is of a round that has begun.
RoundsMatch ==
  /\ target.of \in {latest.round, latest.round + 1}
  /\ review.at \in {"decisions", "round"} => target.of = latest.round + 1 /\ latest.round < MaxDesign
  /\ review.at = "reviewing" => target.of = latest.round /\ latest.round > 0

\* What an earlier round declared stays declared.
DeclaredStays ==
  /\ declared <= latest.round /\ (declared # 0 => latest.declared)
  /\ review.at \in {"decisions", "round"} => review.before = latest.declared

\* What was read of a report, or approved over one: of the latest round, it shows what that found.
Shows(rep) ==
  /\ rep.round <= latest.round /\ rep.unreviewed <= latest.round
  /\ latest.round \in {rep.round, rep.unreviewed} => rep.found = found /\ review.at # "reviewing"
SeenAs(a) ==
  /\ a.round <= latest.round
  /\ a.round = latest.round => a.shown = found /\ review.at # "reviewing"

ShownAsFound ==
  /\ Shows(report)
  /\ approve.at = "round" => Shows(approve)
  /\ approve.at \in {"state", "record", "record unasked"} => SeenAs(approve)
  /\ approval # None => SeenAs(approval)
  /\ gate.at # "idle" => (gate.approval # None => SeenAs(gate.approval))

\* A report of the round the frozen plan is of is of that plan.
OfFrozen(rep) ==
  /\ rep.round <= latest.round
  /\ rep.round = target.of => rep.plan = target.plan /\ rep.decisions = target.decisions

\* A gate on its way to a waiver, or there, having read that far.
Past(steps) == gate.at \in steps \/ (gate.at = "verdict" /\ ~gate.ask /\ gate.why \in {"skipped", "reviewed"})
PlanRead == Past({"declared", "report", "latest", "frozen"})
DeclaredRead == Past({"report", "latest", "frozen"})
ReportRead == Past({"latest", "frozen"})

GateReads ==
  /\ gate.at \in {"state", "plan"} => gate.c \in Setting /\ ~gate.ask
  /\ PlanRead => gate.c \in Setting /\ gate.plan # None /\ ~Touches(gate.c, gate.plan) /\ ~gate.ask
  /\ DeclaredRead => gate.first <= latest.round /\ (declared = 0 \/ gate.first < declared)
  /\ ReportRead => gate.rep \in Report /\ OfFrozen(gate.rep)
  /\ gate.at = "frozen" => gate.round = gate.rep.round /\ ~gate.rep.short
  /\ gate.at = "verdict" /\ ~gate.ask /\ gate.why = "reviewed" /\ ~gate.torn =>
       ~gate.rep.short /\ gate.rep.plan = gate.plan /\ gate.rep.decisions = gate.qs

ApprovalInv == ApprovalTypeOK /\ RoundsMatch /\ DeclaredStays /\ ShownAsFound /\ OfFrozen(report) /\ GateReads

-----------------------------------------------------------------------------
(* Types. *)

\* The answers standing of questions are answers, or none.
LEMMA DigestType ==
  ASSUME NEW qs \in Decisions
  PROVE  DecisionsDigest(qs) \in Seq(Answer \cup {"left", None})
<1>1. DOMAIN qs = 1 .. Len(qs) /\ Len(qs) \in Nat
  BY DEF Decisions
<1>2. ASSUME NEW i \in 1 .. Len(qs) PROVE AnswerGiven(qs[i]) \in Answer \cup {"left", None}
  <2>1. qs[i] \in Seq(Answer \cup {"left"})
    BY ElementOfSeq DEF Decisions
  <2>2. CASE qs[i] = <<>>
    BY <2>2 DEF AnswerGiven
  <2>3. CASE qs[i] # <<>>
    <3>1. Len(qs[i]) \in 1 .. Len(qs[i]) /\ Last(qs[i]) = qs[i][Len(qs[i])]
      BY <2>1, <2>3, EmptySeq, LenProperties DEF Last
    <3>2. qs[i][Len(qs[i])] \in Answer \cup {"left"}
      BY <2>1, <3>1, ElementOfSeq
    <3> QED
      BY <2>3, <3>1, <3>2 DEF AnswerGiven
  <2> QED
    BY <2>2, <2>3
<1> DEFINE e(i) == AnswerGiven(qs[i])
<1>3. [i \in 1 .. Len(qs) |-> e(i)] \in Seq(Answer \cup {"left", None})
  <2>1. \A i \in 1 .. Len(qs) : e(i) \in Answer \cup {"left", None}
    BY <1>2
  <2> HIDE DEF e
  <2> QED
    BY <1>1, <2>1, IsASeq
<1> QED
  BY <1>1, <1>3 DEF DecisionsDigest

\* The questions left to the architect are questions with answers.
LEMMA LeftType ==
  ASSUME NEW qs \in Decisions
  PROVE  LeftToArchitect(qs) \in Decisions
<1>1. DOMAIN qs = 1 .. Len(qs) /\ Len(qs) \in Nat
  BY DEF Decisions
<1> DEFINE e(i) == IF qs[i] = <<>> THEN <<"left">> ELSE qs[i]
<1>2. ASSUME NEW i \in 1 .. Len(qs) PROVE e(i) \in Seq(Answer \cup {"left"})
  <2>1. qs[i] \in Seq(Answer \cup {"left"})
    BY ElementOfSeq DEF Decisions
  <2>2. <<"left">> \in Seq(Answer \cup {"left"})
    OBVIOUS
  <2> QED
    BY <2>1, <2>2
<1>3. LeftToArchitect(qs) = [i \in 1 .. Len(qs) |-> e(i)]
  BY <1>1 DEF LeftToArchitect
<1> HIDE DEF e
<1>4. [i \in 1 .. Len(qs) |-> e(i)] \in Seq(Seq(Answer \cup {"left"}))
  BY <1>1, <1>2, IsASeq
<1> QED
  BY <1>3, <1>4 DEF Decisions

\* A question asked, or answered.
LEMMA QuestionsType ==
  ASSUME ApprovalTypeOK, RecordQuestions \/ AnswerQuestion
  PROVE  questions' \in Decisions
<1>1. CASE RecordQuestions
  <2>1. <<>> \in Seq(Answer \cup {"left"})
    BY EmptySeq
  <2> QED
    BY <1>1, <2>1, AppendProperties DEF RecordQuestions, ApprovalTypeOK, Decisions
<1>2. CASE AnswerQuestion
  <2>1. PICK i \in DOMAIN questions, a \in Answer : questions' = [questions EXCEPT ![i] = Append(@, a)]
    BY <1>2 DEF AnswerQuestion
  <2>2. questions \in Seq(Seq(Answer \cup {"left"})) /\ i \in 1 .. Len(questions)
    BY <2>1 DEF ApprovalTypeOK, Decisions
  <2>3. questions[i] \in Seq(Answer \cup {"left"}) /\ a \in Answer \cup {"left"}
    BY <2>1, <2>2, ElementOfSeq
  <2>4. Append(questions[i], a) \in Seq(Answer \cup {"left"})
    BY <2>3, AppendProperties
  <2> QED
    BY <2>1, <2>2, <2>4, ExceptSeq DEF Decisions
<1> QED
  BY <1>1, <1>2

-----------------------------------------------------------------------------
(* What each of them writes. *)

\* The user and the architect.
LEMMA UserKeepsTypes == ASSUME ApprovalTypeOK, User \/ Architect PROVE ApprovalTypeOK'
<1> USE DEF state, disk, history, Edit
<1>1. CASE RecordQuestions \/ AnswerQuestion
  <2>1. questions' \in Decisions
    BY <1>1, QuestionsType
  <2>2. UNCHANGED <<plan, approval, disk, architect, review, approve, gate, declared, found>> /\ edits' \in 0 .. MaxEdits
    BY <1>1, ApprovalConstantsOK DEF RecordQuestions, AnswerQuestion, ApprovalTypeOK
  <2> QED
    BY <2>1, <2>2 DEF ApprovalTypeOK
<1>2. CASE WritePlan
  BY <1>2, ApprovalConstantsOK DEF WritePlan, ApprovalTypeOK
<1>3. CASE Triage
  <2>1. report' \in Report
    BY <1>3 DEF Triage, ApprovalTypeOK, Report
  <2>2. edits' \in 0 .. MaxEdits
    BY <1>3, ApprovalConstantsOK DEF Triage, ApprovalTypeOK
  <2> QED
    BY <1>3, <2>1, <2>2 DEF Triage, ApprovalTypeOK
<1>4. CASE StartArchitect
  BY <1>4 DEF StartArchitect, ApprovalTypeOK
<1>5. CASE LeaveToArchitect
  BY <1>5, LeftType DEF LeaveToArchitect, ApprovalTypeOK
<1> QED
  BY <1>1, <1>2, <1>3, <1>4, <1>5 DEF User, Architect

\* review run --design.
LEMMA ReviewKeepsTypes == ASSUME ApprovalTypeOK, RoundsMatch, Review PROVE ApprovalTypeOK'
<1> USE DEF state, disk, history
<1> USE ApprovalConstantsOK
<1>1. CASE StartReview
  <2>1. PICK high \in BOOLEAN :
          review' = [at |-> "decisions", decisions |-> questions, high |-> high, before |-> latest.declared]
    BY <1>1 DEF StartReview, DecisionsText
  <2>2. review' \in Reviewing
    BY <2>1 DEF ApprovalTypeOK, Reviewing
  <2>3. latest.round + 1 \in 0 .. MaxDesign + 1
    BY DEF ApprovalTypeOK, DesignRound
  <2>4. target' = [target EXCEPT !.plan = plan, !.of = latest.round + 1]
    BY <1>1 DEF StartReview
  <2>5. target' \in [plan: Plan \cup {None}, decisions: Decisions, of: 0 .. MaxDesign + 1]
    BY <2>3, <2>4 DEF ApprovalTypeOK
  <2> QED
    BY <1>1, <2>2, <2>5 DEF StartReview, ApprovalTypeOK
<1>2. CASE FreezeDecisions
  <2>1. review \in Reviewing /\ review.at = "decisions"
    BY <1>2 DEF FreezeDecisions, ApprovalTypeOK, Idle
  <2>2. review \in [at: {"decisions", "round"}, decisions: Decisions, high: BOOLEAN, before: BOOLEAN]
    BY <2>1 DEF Reviewing
  <2>3. <<>> \in Decisions
    BY EmptySeq DEF Decisions
  <2>4. review' \in Reviewing
    BY <1>2, <2>2, <2>3 DEF FreezeDecisions, Reviewing
  <2>5. target' \in [plan: Plan \cup {None}, decisions: Decisions, of: 0 .. MaxDesign + 1]
    BY <1>2, <2>2 DEF FreezeDecisions, ApprovalTypeOK
  <2> QED
    BY <1>2, <2>4, <2>5 DEF FreezeDecisions, ApprovalTypeOK
<1>3. CASE FreezeRound
  <2>1. review \in [at: {"decisions", "round"}, decisions: Decisions, high: BOOLEAN, before: BOOLEAN]
    BY <1>3 DEF FreezeRound, ApprovalTypeOK, Idle, Reviewing
  <2>2. latest.round + 1 \in DesignRound
    BY <1>3 DEF FreezeRound, ApprovalTypeOK, RoundsMatch, DesignRound
  <2>3. latest' \in [round : DesignRound, declared : BOOLEAN] /\ declared' \in DesignRound
    BY <1>3, <2>1, <2>2 DEF FreezeRound, KeptDeclared, ApprovalTypeOK
  <2>4. review' \in Reviewing
    BY <1>3 DEF FreezeRound, Reviewing
  <2> QED
    BY <1>3, <2>3, <2>4 DEF FreezeRound, ApprovalTypeOK
<1>4. CASE EndReview
  <2>1. PICK came \in Reports :
          /\ report' = [round |-> latest.round, unreviewed |-> 0, plan |-> target.plan,
                        decisions |-> target.decisions, found |-> came.found, open |-> came.found,
                        short |-> came.short, again |-> came.found]
          /\ found' = came.found
    BY <1>4 DEF EndReview
  <2>2. came.found \in SUBSET Finding /\ came.short \in BOOLEAN
    OBVIOUS
  <2>3. report' \in Report
    BY <2>1, <2>2 DEF Report, ApprovalTypeOK, DesignRound
  <2> QED
    BY <1>4, <2>1, <2>2, <2>3 DEF EndReview, ApprovalTypeOK
<1>5. CASE EndUnreviewed
  <2>1. found' \in SUBSET Finding
    BY <1>5 DEF EndUnreviewed, ApprovalTypeOK, Report
  <2>2. report' \in Report
    BY <1>5, <2>1 DEF EndUnreviewed, ApprovalTypeOK, Report
  <2> QED
    BY <1>5, <2>1, <2>2 DEF EndUnreviewed, ApprovalTypeOK
<1>6. CASE ReviewDies
  BY <1>6 DEF ReviewDies, ApprovalTypeOK
<1> QED
  BY <1>1, <1>2, <1>3, <1>4, <1>5, <1>6 DEF Review

\* What design approve goes by at each of its steps.
LEMMA ApproveIsTyped ==
  ASSUME ApprovalTypeOK
  PROVE  /\ approve.at = "report" => approve \in AtReport
         /\ approve.at = "round" => approve \in AtRound
         /\ approve.at \in {"state", "record", "record unasked"} => approve \in AtState
<1>1. approve = Idle => approve.at = "idle"
  BY DEF Idle
<1>2. approve \in AtReport => approve.at = "report"
  BY DEF AtReport
<1>3. approve \in AtRound => approve.at = "round"
  BY DEF AtRound
<1>4. approve \in AtState => approve.at \in {"state", "record", "record unasked"}
  BY DEF AtState
<1> QED
  BY <1>1, <1>2, <1>3, <1>4 DEF ApprovalTypeOK

\* design approve.
LEMMA ApproveKeepsTypes == ASSUME ApprovalTypeOK, Approve PROVE ApprovalTypeOK'
<1> USE DEF state, disk, history
<1>1. CASE StartApprove
  <2>1. approve' \in AtReport
    BY <1>1 DEF StartApprove, ApprovalTypeOK, AtReport
  <2> QED
    BY <1>1, <2>1 DEF StartApprove, ApprovalTypeOK
<1>2. CASE ApproveReport
  <2>1. approve \in AtReport
    BY <1>2, ApproveIsTyped DEF ApproveReport
  <2>2. approve' \in AtRound
    BY <1>2, <2>1 DEF ApproveReport, ApprovalTypeOK, AtReport, AtRound, Report
  <2> QED
    BY <1>2, <2>2 DEF ApproveReport, ApprovalTypeOK
<1>3. CASE ApproveRound
  <2>1. approve \in AtRound
    BY <1>3, ApproveIsTyped DEF ApproveRound
  <2>2. approve' \in AtState \cup {Idle}
    BY <1>3, <2>1 DEF ApproveRound, ApprovalRound, ApprovalTypeOK, AtRound, AtState
  <2> QED
    BY <1>3, <2>2 DEF ApproveRound, ApprovalTypeOK
<1>4. CASE ApproveState
  <2>1. approve \in AtState
    BY <1>4, ApproveIsTyped DEF ApproveState
  <2>2. approve' \in {Idle, [approve EXCEPT !.at = "record"], [approve EXCEPT !.at = "record unasked"]}
    BY <1>4 DEF ApproveState
  <2>3. approve' \in AtState \cup {Idle}
    BY <2>1, <2>2 DEF AtState
  <2> QED
    BY <1>4, <2>3 DEF ApproveState, ApprovalTypeOK
<1>5. CASE RecordApproval
  <2>1. approve \in AtState
    BY <1>5, ApproveIsTyped DEF RecordApproval
  <2>2. DecisionsDigest(questions) \in Seq(Answer \cup {"left", None})
    BY DigestType DEF ApprovalTypeOK
  <2>3. approval' \in Recorded \cup {None}
    BY <1>5, <2>1, <2>2 DEF RecordApproval, ApprovalTypeOK, Recorded, AtState
  <2> QED
    BY <1>5, <2>3 DEF RecordApproval, ApprovalTypeOK
<1> QED
  BY <1>1, <1>2, <1>3, <1>4, <1>5 DEF Approve

\* What the gate goes by once it has begun.
LEMMA GateIsTyped ==
  ASSUME ApprovalTypeOK, gate.at # "idle"
  PROVE  gate \in GateType
  BY DEF ApprovalTypeOK, Idle

\* A requirement decided.
LEMMA DecidedType ==
  ASSUME gate \in GateType, Asks \/ \E why \in {"off", "skipped", "reviewed"} : NeedsNot(why)
  PROVE  gate' \in GateType
<1>1. Asking(gate.c) \in BOOLEAN
  BY DEF Asking
<1>2. CASE Asks
  <2>1. gate' = [at |-> "verdict", c |-> None, approval |-> gate.approval, qs |-> gate.qs, plan |-> None,
                 first |-> 0, rep |-> None, round |-> 0, ask |-> TRUE, why |-> "none",
                 asking |-> Asking(gate.c), torn |-> FALSE]
    BY <1>2 DEF Asks, Gating
  <2>2. 0 \in DesignRound
    BY ApprovalConstantsOK DEF DesignRound
  <2> QED
    BY <1>1, <2>1, <2>2 DEF GateType
<1>3. CASE \E why \in {"off", "skipped", "reviewed"} : NeedsNot(why)
  BY <1>1, <1>3 DEF NeedsNot, GateType
<1> QED
  BY <1>2, <1>3

\* run implementer, up to its go.
LEMMA GateKeepsTypes == ASSUME ApprovalTypeOK, Gate PROVE ApprovalTypeOK'
<1> USE DEF state, disk, history
<1>1. UNCHANGED <<plan, state, disk, architect, review, approve, history>>
  BY DEF Gate, StartGate, GateState, GatePlan, GateDeclared, GateReport, GateLatest, GateFrozen, GateVerdict
<1>2. gate' \in GateType \cup {Idle}
  <2>1. CASE StartGate
    <3>1. 0 \in DesignRound /\ <<>> \in Decisions
      BY ApprovalConstantsOK, EmptySeq DEF DesignRound, Decisions
    <3> QED
      BY <2>1, <3>1 DEF StartGate, Gating, GateType
  <2>2. CASE GateState
    <3>1. gate \in GateType
      BY <2>2, GateIsTyped DEF GateState
    <3> QED
      BY <2>2, <3>1 DEF GateState, GateType, ApprovalTypeOK
  <2>3. CASE GatePlan
    <3>1. gate \in GateType
      BY <2>3, GateIsTyped DEF GatePlan
    <3>2. Asks \/ NeedsNot("off") \/ gate' = [gate EXCEPT !.at = "declared", !.plan = plan]
      BY <2>3 DEF GatePlan
    <3>3. CASE gate' = [gate EXCEPT !.at = "declared", !.plan = plan]
      BY <3>1, <3>3 DEF GateType, ApprovalTypeOK
    <3> QED
      BY <3>1, <3>2, <3>3, DecidedType
  <2>4. CASE GateDeclared
    <3>1. gate \in GateType
      BY <2>4, GateIsTyped DEF GateDeclared
    <3>2. Asks \/ gate' = [gate EXCEPT !.at = "report", !.first = latest.round]
      BY <2>4 DEF GateDeclared
    <3>3. CASE gate' = [gate EXCEPT !.at = "report", !.first = latest.round]
      BY <3>1, <3>3 DEF GateType, ApprovalTypeOK
    <3> QED
      BY <3>1, <3>2, <3>3, DecidedType
  <2>5. CASE GateReport
    <3>1. gate \in GateType
      BY <2>5, GateIsTyped DEF GateReport
    <3> QED
      BY <2>5, <3>1 DEF GateReport, GateType, ApprovalTypeOK
  <2>6. CASE GateLatest
    <3>1. gate \in GateType
      BY <2>6, GateIsTyped DEF GateLatest
    <3>2. Asks \/ NeedsNot("skipped") \/ gate' = [gate EXCEPT !.at = "frozen", !.round = latest.round]
      BY <2>6 DEF GateLatest
    <3>3. CASE gate' = [gate EXCEPT !.at = "frozen", !.round = latest.round]
      BY <3>1, <3>3 DEF GateType, ApprovalTypeOK
    <3> QED
      BY <3>1, <3>2, <3>3, DecidedType
  <2>7. CASE GateFrozen
    <3>1. gate \in GateType
      BY <2>7, GateIsTyped DEF GateFrozen
    <3>2. Asks \/ NeedsNot("reviewed")
      BY <2>7 DEF GateFrozen
    <3> QED
      BY <3>1, <3>2, DecidedType
  <2>8. CASE GateVerdict
    BY <2>8 DEF GateVerdict
  <2> QED
    BY <2>1, <2>2, <2>3, <2>4, <2>5, <2>6, <2>7, <2>8 DEF Gate
<1> QED
  BY <1>1, <1>2 DEF ApprovalTypeOK

-----------------------------------------------------------------------------
(* Rounds and what they declare. *)

\* The parts about the rounds only change with review run --design.
LEMMA RoundsStep ==
  ASSUME ApprovalTypeOK, RoundsMatch, DeclaredStays, OfFrozen(report), [ApprovalNext]_approvalVars
  PROVE  RoundsMatch' /\ DeclaredStays' /\ OfFrozen(report)'
<1> USE DEF state, disk, history
<1>1. CASE UNCHANGED <<target, latest, review, declared, report>>
  BY <1>1 DEF RoundsMatch, DeclaredStays, OfFrozen
<1>2. CASE Triage
  <2>1. /\ report'.round = report.round /\ report'.plan = report.plan
        /\ report'.decisions = report.decisions
    BY <1>2 DEF Triage, ApprovalTypeOK, Report
  <2> QED
    BY <1>2, <2>1 DEF Triage, RoundsMatch, DeclaredStays, OfFrozen
<1>3. CASE StartReview
  <2>1. PICK high \in BOOLEAN :
          review' = [at |-> "decisions", decisions |-> questions, high |-> high, before |-> latest.declared]
    BY <1>3 DEF StartReview, DecisionsText
  <2>2. target'.of = latest.round + 1 /\ UNCHANGED <<latest, declared, report>> /\ latest.round < MaxDesign
    BY <1>3 DEF StartReview, ApprovalTypeOK
  <2>3. latest.round \in Nat /\ report.round \in Nat
    BY DEF ApprovalTypeOK, Report, DesignRound
  <2> QED
    BY <2>1, <2>2, <2>3 DEF RoundsMatch, DeclaredStays, OfFrozen
<1>4. CASE FreezeDecisions
  <2>1. review \in [at: {"decisions", "round"}, decisions: Decisions, high: BOOLEAN, before: BOOLEAN]
    BY <1>4 DEF FreezeDecisions, ApprovalTypeOK, Idle, Reviewing
  <2>2. review'.at = "round" /\ review'.before = review.before /\ review.at = "decisions"
    BY <1>4, <2>1 DEF FreezeDecisions
  <2>3. target'.of = target.of /\ UNCHANGED <<latest, declared, report>>
    BY <1>4 DEF FreezeDecisions, ApprovalTypeOK
  <2>4. latest.round \in Nat /\ report.round \in Nat
    BY DEF ApprovalTypeOK, Report, DesignRound
  <2> QED
    BY <2>2, <2>3, <2>4 DEF RoundsMatch, DeclaredStays, OfFrozen
<1>5. CASE FreezeRound
  <2>1. review \in [at: {"decisions", "round"}, decisions: Decisions, high: BOOLEAN, before: BOOLEAN]
    BY <1>5 DEF FreezeRound, ApprovalTypeOK, Idle, Reviewing
  <2>2. /\ review.at = "round" /\ review'.at = "reviewing" /\ UNCHANGED <<target, report>>
        /\ latest'.round = latest.round + 1
        /\ latest'.declared = (review.high \/ review.before)
        /\ declared' = IF review.high /\ declared = 0 THEN latest.round + 1 ELSE declared
    BY <1>5 DEF FreezeRound, KeptDeclared
  <2>3. latest.round \in Nat /\ report.round \in Nat /\ declared \in Nat
    BY DEF ApprovalTypeOK, Report, DesignRound
  <2>4. RoundsMatch'
    BY <2>2, <2>3 DEF RoundsMatch
  <2>5. OfFrozen(report)'
    BY <2>2, <2>3 DEF OfFrozen
  <2>6. declared' # 0 => latest'.declared
    <3>1. review.high => latest'.declared
      BY <2>1, <2>2
    <3>2. review.before => latest'.declared
      BY <2>1, <2>2
    <3> QED
      BY <2>2, <3>1, <3>2 DEF DeclaredStays
  <2>7. declared' <= latest'.round
    BY <2>2, <2>3 DEF DeclaredStays
  <2> QED
    BY <2>2, <2>4, <2>5, <2>6, <2>7 DEF DeclaredStays
<1>6. CASE EndReview
  <2>1. /\ review'.at = "idle" /\ UNCHANGED <<target, latest, declared>>
        /\ report'.round = latest.round /\ report'.plan = target.plan /\ report'.decisions = target.decisions
    BY <1>6 DEF EndReview, Idle
  <2> QED
    BY <2>1 DEF RoundsMatch, DeclaredStays, OfFrozen, ApprovalTypeOK, DesignRound
<1>7. CASE EndUnreviewed
  <2>1. /\ review'.at = "idle" /\ UNCHANGED <<target, latest, declared>>
        /\ report'.round = report.round /\ report'.plan = report.plan /\ report'.decisions = report.decisions
    BY <1>7 DEF EndUnreviewed, Idle, ApprovalTypeOK, Report
  <2> QED
    BY <2>1 DEF RoundsMatch, DeclaredStays, OfFrozen
<1>8. CASE ReviewDies
  BY <1>8 DEF ReviewDies, Idle, RoundsMatch, DeclaredStays, OfFrozen
<1>9. \/ UNCHANGED <<target, latest, review, declared, report>> \/ Triage \/ Review
  <2>1. Gate => UNCHANGED <<target, latest, review, declared, report>>
    BY DEF Gate, StartGate, GateState, GatePlan, GateDeclared, GateReport, GateLatest, GateFrozen, GateVerdict
  <2>2. Approve => UNCHANGED <<target, latest, review, declared, report>>
    BY DEF Approve, StartApprove, ApproveReport, ApproveRound, ApproveState, RecordApproval
  <2>3. User \/ Architect => Triage \/ UNCHANGED <<target, latest, review, declared, report>>
    BY DEF User, Architect, RecordQuestions, AnswerQuestion, WritePlan, StartArchitect, LeaveToArchitect
  <2> QED
    BY <2>1, <2>2, <2>3 DEF ApprovalNext, approvalVars
<1> QED
  BY <1>1, <1>2, <1>3, <1>4, <1>5, <1>6, <1>7, <1>8, <1>9 DEF Review

-----------------------------------------------------------------------------
(* What was shown of a round is what it found. *)

\* A step leaves the rounds and findings, begins a round, or ends the one under review.
LEMMA RoundMoves ==
  ASSUME ApprovalTypeOK, RoundsMatch, [ApprovalNext]_approvalVars
  PROVE  \/ latest' = latest /\ found' = found /\ (review'.at = "reviewing" => review.at = "reviewing")
         \/ latest'.round = latest.round + 1
         \/ latest' = latest /\ review.at = "reviewing" /\ review'.at # "reviewing"
<1> USE DEF state, disk, history
<1>1. Gate \/ Approve \/ User \/ Architect => UNCHANGED <<latest, found, review>>
  BY DEF Gate, StartGate, GateState, GatePlan, GateDeclared, GateReport, GateLatest, GateFrozen, GateVerdict,
     Approve, StartApprove, ApproveReport, ApproveRound, ApproveState, RecordApproval,
     User, Architect, RecordQuestions, AnswerQuestion, WritePlan, Triage, StartArchitect, LeaveToArchitect
<1>2. CASE StartReview
  BY <1>2 DEF StartReview
<1>3. CASE FreezeDecisions
  <2>1. review \in [at: {"decisions", "round"}, decisions: Decisions, high: BOOLEAN, before: BOOLEAN]
    BY <1>3 DEF FreezeDecisions, ApprovalTypeOK, Idle, Reviewing
  <2>2. review'.at = "round"
    BY <1>3, <2>1 DEF FreezeDecisions
  <2> QED
    BY <1>3, <2>2 DEF FreezeDecisions
<1>4. CASE FreezeRound
  BY <1>4 DEF FreezeRound
<1>5. CASE EndReview \/ EndUnreviewed
  BY <1>5 DEF EndReview, EndUnreviewed, Idle
<1>6. CASE ReviewDies
  BY <1>6 DEF ReviewDies, Idle
<1> QED
  BY <1>1, <1>2, <1>3, <1>4, <1>5, <1>6 DEF ApprovalNext, approvalVars, Review

\* What shows a round's findings goes on showing them.
LEMMA ShownStays ==
  ASSUME ApprovalTypeOK, RoundsMatch, [ApprovalNext]_approvalVars,
         NEW round \in DesignRound, NEW other \in DesignRound, NEW shown,
         round <= latest.round, other <= latest.round,
         latest.round \in {round, other} => shown = found /\ review.at # "reviewing"
  PROVE  /\ round <= latest'.round /\ other <= latest'.round
         /\ latest'.round \in {round, other} => shown = found' /\ review'.at # "reviewing"
<1>1. latest.round \in Nat /\ round \in Nat /\ other \in Nat
  BY DEF ApprovalTypeOK, DesignRound
<1> QED
  BY <1>1, RoundMoves

\* The report is of what its round found.
LEMMA ReportShows ==
  ASSUME ApprovalTypeOK, RoundsMatch, ShownAsFound, [ApprovalNext]_approvalVars
  PROVE  Shows(report)'
<1> USE DEF state, disk, history
<1>0. report \in Report /\ latest.round \in DesignRound
  BY DEF ApprovalTypeOK
<1>1. CASE EndReview
  <2>1. /\ report'.round = latest.round /\ report'.unreviewed = 0 /\ report'.found = found'
        /\ latest' = latest /\ review'.at = "idle"
    BY <1>1 DEF EndReview, Idle
  <2> QED
    BY <1>0, <2>1 DEF Shows, DesignRound
<1>2. CASE EndUnreviewed
  <2>1. /\ report'.round = report.round /\ report'.unreviewed = latest.round /\ report'.found = found'
        /\ latest' = latest /\ review'.at = "idle"
    BY <1>0, <1>2 DEF EndUnreviewed, Idle, Report
  <2>2. report.round <= latest.round
    BY DEF ShownAsFound, Shows
  <2>3. latest.round \in Int
    BY <1>0 DEF DesignRound
  <2> QED
    BY <2>1, <2>2, <2>3 DEF Shows
<1>3. CASE report'.round = report.round /\ report'.unreviewed = report.unreviewed /\ report'.found = report.found
  <2>1. Shows(report)
    BY DEF ShownAsFound
  <2>2. report.round \in DesignRound /\ report.unreviewed \in DesignRound
    BY <1>0 DEF Report
  <2>3. /\ report.round <= latest'.round /\ report.unreviewed <= latest'.round
        /\ latest'.round \in {report.round, report.unreviewed} => report.found = found' /\ review'.at # "reviewing"
    BY <2>1, <2>2, ShownStays DEF Shows
  <2> QED
    BY <1>3, <2>3 DEF Shows
<1>4. CASE Triage
  BY <1>0, <1>3, <1>4 DEF Triage, Report
<1>5. Gate \/ Approve \/ User \/ Architect => Triage \/ report' = report
  BY DEF Gate, StartGate, GateState, GatePlan, GateDeclared, GateReport, GateLatest, GateFrozen, GateVerdict,
     Approve, StartApprove, ApproveReport, ApproveRound, ApproveState, RecordApproval,
     User, Architect, RecordQuestions, AnswerQuestion, WritePlan, StartArchitect, LeaveToArchitect
<1>6. Review => EndReview \/ EndUnreviewed \/ report' = report
  BY DEF Review, StartReview, FreezeDecisions, FreezeRound, ReviewDies
<1> QED
  BY <1>1, <1>2, <1>3, <1>4, <1>5, <1>6 DEF ApprovalNext, approvalVars

\* What an approval rests on stays of what its round found.
LEMMA SeenStays ==
  ASSUME ApprovalTypeOK, RoundsMatch, [ApprovalNext]_approvalVars,
         NEW round \in DesignRound, NEW shown,
         round <= latest.round, latest.round = round => shown = found /\ review.at # "reviewing"
  PROVE  round <= latest'.round /\ (latest'.round = round => shown = found' /\ review'.at # "reviewing")
<1>1. latest.round \in {round, round} => shown = found /\ review.at # "reviewing"
  OBVIOUS
<1> QED
  BY <1>1, ShownStays

\* The approval on its way, and the one recorded.
LEMMA ApproveShows ==
  ASSUME ApprovalTypeOK, RoundsMatch, ShownAsFound, [ApprovalNext]_approvalVars
  PROVE  /\ approve'.at = "round" => Shows(approve)'
         /\ approve'.at \in {"state", "record", "record unasked"} => SeenAs(approve)'
         /\ approval' # None => SeenAs(approval)'
<1> USE DEF state, disk, history
<1>1. ASSUME approve' = approve, approve.at = "round" PROVE Shows(approve)'
  <2>1. approve \in AtRound
    BY <1>1, ApproveIsTyped
  <2>2. approve.round \in DesignRound /\ approve.unreviewed \in DesignRound
    BY <2>1 DEF AtRound
  <2>3. Shows(approve)
    BY <1>1 DEF ShownAsFound
  <2>4. /\ approve.round <= latest'.round /\ approve.unreviewed <= latest'.round
        /\ latest'.round \in {approve.round, approve.unreviewed} => approve.found = found' /\ review'.at # "reviewing"
    BY <2>2, <2>3, ShownStays DEF Shows
  <2> QED
    BY <1>1, <2>4 DEF Shows
<1>2. ASSUME approve' = approve, approve.at \in {"state", "record", "record unasked"} PROVE SeenAs(approve)'
  <2>1. approve \in AtState
    BY <1>2, ApproveIsTyped
  <2>2. approve.round \in DesignRound
    BY <2>1 DEF AtState
  <2>3. SeenAs(approve)
    BY <1>2 DEF ShownAsFound
  <2>4. /\ approve.round <= latest'.round
        /\ latest'.round = approve.round => approve.shown = found' /\ review'.at # "reviewing"
    BY <2>2, <2>3, SeenStays DEF SeenAs
  <2> QED
    BY <1>2, <2>4 DEF SeenAs
<1>3. ASSUME approval' = approval, approval # None PROVE SeenAs(approval)'
  <2>1. approval.round \in DesignRound
    BY <1>3 DEF ApprovalTypeOK, Recorded
  <2>2. SeenAs(approval)
    BY <1>3 DEF ShownAsFound
  <2>3. /\ approval.round <= latest'.round
        /\ latest'.round = approval.round => approval.shown = found' /\ review'.at # "reviewing"
    BY <2>1, <2>2, SeenStays DEF SeenAs
  <2> QED
    BY <1>3, <2>3 DEF SeenAs
<1>4. CASE UNCHANGED <<approve, approval>>
  BY <1>1, <1>2, <1>3, <1>4
<1>5. CASE StartApprove
  <2>1. approve'.at = "report" /\ approval' = approval
    BY <1>5 DEF StartApprove
  <2> QED
    BY <1>3, <2>1
<1>6. CASE ApproveReport
  <2>1. /\ approve'.at = "round" /\ approve'.round = report.round /\ approve'.unreviewed = report.unreviewed
        /\ approve'.found = report.found /\ UNCHANGED <<approval, latest, found, review>>
    BY <1>6 DEF ApproveReport
  <2>2. Shows(report)
    BY DEF ShownAsFound
  <2>3. Shows(approve)'
    BY <2>1, <2>2 DEF Shows
  <2> QED
    BY <1>3, <2>1, <2>3
<1>7. CASE ApproveRound
  <2>1. approve.at = "round" /\ UNCHANGED <<approval, latest, found, review>>
    BY <1>7 DEF ApproveRound
  <2>2. Shows(approve)
    BY <2>1 DEF ShownAsFound
  <2>3. CASE ApprovalRound(approve, latest.round).refused
    BY <1>3, <1>7, <2>1, <2>3 DEF ApproveRound, Idle
  <2>4. CASE ~ApprovalRound(approve, latest.round).refused
    <3>1. ApprovalRound(approve, latest.round).round = latest.round /\ latest.round \in {approve.round, approve.unreviewed}
      BY <2>4 DEF ApprovalRound
    <3>2. approve'.at = "state" /\ approve'.round = latest.round /\ approve'.shown = approve.found
      BY <1>7, <2>4, <3>1 DEF ApproveRound
    <3>3. latest'.round <= latest'.round
      BY <2>1 DEF ApprovalTypeOK, DesignRound
    <3>4. SeenAs(approve)'
      BY <2>1, <2>2, <3>1, <3>2, <3>3 DEF SeenAs, Shows
    <3> QED
      BY <1>3, <2>1, <3>2, <3>4
  <2> QED
    BY <2>3, <2>4
<1>8. CASE ApproveState
  <2>1. approve \in AtState /\ approve.at = "state" /\ UNCHANGED <<approval, latest, found, review>>
    BY <1>8, ApproveIsTyped DEF ApproveState
  <2>2. approve' \in {Idle, [approve EXCEPT !.at = "record"], [approve EXCEPT !.at = "record unasked"]}
    BY <1>8 DEF ApproveState
  <2>3. CASE approve' = Idle
    BY <1>3, <2>1, <2>3 DEF Idle
  <2>4. CASE approve' \in {[approve EXCEPT !.at = "record"], [approve EXCEPT !.at = "record unasked"]}
    <3>1. /\ approve'.at \in {"record", "record unasked"}
          /\ approve'.round = approve.round /\ approve'.shown = approve.shown
      BY <2>1, <2>4 DEF AtState
    <3>2. SeenAs(approve)
      BY <2>1 DEF ShownAsFound
    <3>3. SeenAs(approve)'
      BY <2>1, <3>1, <3>2 DEF SeenAs
    <3> QED
      BY <1>3, <2>1, <3>1, <3>3
  <2> QED
    BY <2>2, <2>3, <2>4
<1>9. CASE RecordApproval
  <2>1. /\ approve.at \in {"record", "record unasked"} /\ approve'.at = "idle"
        /\ UNCHANGED <<latest, found, review>>
    BY <1>9 DEF RecordApproval, Idle
  <2>2. SeenAs(approve)
    BY <2>1 DEF ShownAsFound
  <2>3. approval' = approval \/ (approval'.round = approve.round /\ approval'.shown = approve.shown)
    BY <1>9 DEF RecordApproval
  <2>4. approval' # None => SeenAs(approval)'
    BY <1>3, <2>1, <2>2, <2>3 DEF SeenAs
  <2> QED
    BY <2>1, <2>4
<1>10. ApprovalNext => Approve \/ UNCHANGED <<approve, approval>>
  BY DEF ApprovalNext, Gate, StartGate, GateState, GatePlan, GateDeclared, GateReport, GateLatest, GateFrozen,
     GateVerdict, User, Architect, RecordQuestions, AnswerQuestion, WritePlan, Triage, StartArchitect,
     LeaveToArchitect, Review, StartReview, FreezeDecisions, FreezeRound, EndReview, EndUnreviewed, ReviewDies
<1> QED
  BY <1>4, <1>5, <1>6, <1>7, <1>8, <1>9, <1>10 DEF approvalVars, Approve

\* The gate reads an approval, keeps it, or has none.
LEMMA GateApproval ==
  ASSUME ApprovalTypeOK, [ApprovalNext]_approvalVars, gate'.at # "idle"
  PROVE  \/ gate'.approval = None
         \/ gate.at # "idle" /\ gate'.approval = gate.approval
         \/ gate'.approval = approval /\ UNCHANGED <<latest, found, review>>
<1> USE DEF state, disk, history
<1>1. gate.at # "idle" => gate \in GateType
  BY GateIsTyped
<1>2. CASE StartGate
  BY <1>2 DEF StartGate, Gating
<1>3. CASE GateState
  BY <1>1, <1>3 DEF GateState, GateType
<1>4. ASSUME gate.at # "idle", Asks PROVE gate'.approval = gate.approval
  BY <1>4 DEF Asks, Gating
<1>5. ASSUME gate.at # "idle", NEW why, NeedsNot(why) PROVE gate'.approval = gate.approval
  BY <1>1, <1>5 DEF NeedsNot, GateType
<1>6. CASE GatePlan
  BY <1>1, <1>4, <1>5, <1>6 DEF GatePlan, GateType
<1>7. CASE GateDeclared
  BY <1>1, <1>4, <1>5, <1>7 DEF GateDeclared, GateType
<1>8. CASE GateReport
  BY <1>1, <1>8 DEF GateReport, GateType
<1>9. CASE GateLatest
  BY <1>1, <1>4, <1>5, <1>9 DEF GateLatest, GateType
<1>10. CASE GateFrozen
  BY <1>1, <1>4, <1>5, <1>10 DEF GateFrozen, GateType
<1>11. CASE GateVerdict
  BY <1>11 DEF GateVerdict, Idle
<1>12. ApprovalNext => Gate \/ gate' = gate
  BY DEF ApprovalNext, User, Architect, RecordQuestions, AnswerQuestion, WritePlan, Triage, StartArchitect,
     LeaveToArchitect, Review, StartReview, FreezeDecisions, FreezeRound, EndReview, EndUnreviewed, ReviewDies,
     Approve, StartApprove, ApproveReport, ApproveRound, ApproveState, RecordApproval
<1> QED
  BY <1>2, <1>3, <1>6, <1>7, <1>8, <1>9, <1>10, <1>11, <1>12 DEF approvalVars, Gate

\* All that shows a round's findings shows them after a step.
LEMMA ShownStep ==
  ASSUME ApprovalTypeOK, RoundsMatch, ShownAsFound, [ApprovalNext]_approvalVars
  PROVE  ShownAsFound'
<1>1. ASSUME gate'.at # "idle", gate'.approval # None PROVE SeenAs(gate.approval)'
  <2>1. CASE gate.at # "idle" /\ gate'.approval = gate.approval
    <3>1. gate.approval \in Recorded /\ SeenAs(gate.approval)
      BY <1>1, <2>1, GateIsTyped DEF GateType, ShownAsFound
    <3>2. gate.approval.round \in DesignRound
      BY <3>1 DEF Recorded
    <3>3. /\ gate.approval.round <= latest'.round
          /\ latest'.round = gate.approval.round => gate.approval.shown = found' /\ review'.at # "reviewing"
      BY <3>1, <3>2, SeenStays DEF SeenAs
    <3> QED
      BY <2>1, <3>3 DEF SeenAs
  <2>2. CASE gate'.approval = approval /\ UNCHANGED <<latest, found, review>>
    <3>1. SeenAs(approval)
      BY <1>1, <2>2 DEF ShownAsFound
    <3> QED
      BY <2>2, <3>1 DEF SeenAs
  <2> QED
    BY <1>1, <2>1, <2>2, GateApproval
<1> QED
  BY <1>1, ReportShows, ApproveShows DEF ShownAsFound

-----------------------------------------------------------------------------
(* What the gate has read. *)

\* What the others do to what the gate goes by.
LEMMA OthersMove ==
  ASSUME ApprovalTypeOK, RoundsMatch, DeclaredStays, ApprovalNext \/ UNCHANGED approvalVars, ~Gate
  PROVE  /\ gate' = gate
         /\ latest.round <= latest'.round
         /\ declared' = declared \/ declared' = latest.round + 1
         /\ \/ target' = target
            \/ latest' = latest /\ target'.of = latest.round + 1
<1> USE DEF state, disk, history
<1>0. latest.round \in Nat
  BY DEF ApprovalTypeOK, DesignRound
<1>1. User \/ Architect \/ Approve => UNCHANGED <<gate, latest, declared, target>>
  BY DEF User, Architect, RecordQuestions, AnswerQuestion, WritePlan, Triage, StartArchitect, LeaveToArchitect,
     Approve, StartApprove, ApproveReport, ApproveRound, ApproveState, RecordApproval
<1>2. CASE EndReview \/ EndUnreviewed \/ ReviewDies
  BY <1>0, <1>2 DEF EndReview, EndUnreviewed, ReviewDies
<1>3. CASE StartReview
  BY <1>0, <1>3 DEF StartReview, ApprovalTypeOK
<1>4. CASE FreezeDecisions
  BY <1>0, <1>4 DEF FreezeDecisions, ApprovalTypeOK, RoundsMatch
<1>5. CASE FreezeRound
  BY <1>0, <1>5 DEF FreezeRound
<1>6. CASE UNCHANGED <<gate, latest, declared, target>>
  BY <1>0, <1>6
<1> QED
  BY <1>1, <1>2, <1>3, <1>4, <1>5, <1>6 DEF ApprovalNext, approvalVars, Review

\* What it has read stays as it says while the others go on.
LEMMA ReadsStay ==
  ASSUME ApprovalTypeOK, RoundsMatch, DeclaredStays, GateReads, ApprovalNext \/ UNCHANGED approvalVars, ~Gate
  PROVE  GateReads'
<1>1. gate' = gate
  BY OthersMove
<1>2. latest.round \in Nat /\ latest'.round \in Nat /\ declared \in Nat
  <2>1. latest' \in [round: DesignRound, declared: BOOLEAN]
    BY UserKeepsTypes, ReviewKeepsTypes, ApproveKeepsTypes DEF ApprovalTypeOK, ApprovalNext, approvalVars, disk
  <2> QED
    BY <2>1 DEF ApprovalTypeOK, DesignRound
<1>3. PlanRead' <=> PlanRead
  BY <1>1 DEF PlanRead, Past
<1>4. DeclaredRead' <=> DeclaredRead
  BY <1>1 DEF DeclaredRead, Past
<1>5. ReportRead' <=> ReportRead
  BY <1>1 DEF ReportRead, Past
<1>6. ASSUME DeclaredRead PROVE gate'.first <= latest'.round /\ (declared' = 0 \/ gate'.first < declared')
  <2>1. gate.first \in Nat
    <3>1. gate.at # "idle"
      BY <1>6 DEF DeclaredRead, Past
    <3> QED
      BY <3>1, GateIsTyped DEF GateType, DesignRound
  <2>2. gate.first <= latest.round /\ (declared = 0 \/ gate.first < declared)
    BY <1>6 DEF GateReads
  <2> QED
    BY <1>1, <1>2, <2>1, <2>2, OthersMove
<1>7. ASSUME ReportRead PROVE gate'.rep \in Report /\ OfFrozen(gate.rep)'
  <2>1. gate.rep \in Report /\ OfFrozen(gate.rep)
    BY <1>7 DEF GateReads
  <2>2. gate.rep.round \in Nat /\ gate.rep.round <= latest.round
    BY <2>1 DEF Report, DesignRound, OfFrozen
  <2>3. gate.rep.round <= latest'.round
    BY <1>2, <2>2, OthersMove
  <2>4. gate.rep.round = target'.of => target' = target
    BY <1>2, <2>2, OthersMove
  <2> QED
    BY <1>1, <2>1, <2>3, <2>4 DEF OfFrozen
<1>8. PlanRead => ~Touches(gate.c, gate.plan)'
  BY <1>1 DEF GateReads, Touches, TrustedRisky, ProjectAdds
<1> QED
  BY <1>1, <1>3, <1>4, <1>5, <1>6, <1>7, <1>8 DEF GateReads

\* A gate that asks, or waives on the mode alone, relies on nothing it has read.
LEMMA AsksReads ==
  ASSUME ApprovalTypeOK, gate.at # "idle", Asks \/ NeedsNot("off")
  PROVE  GateReads'
<1>1. gate \in GateType
  BY GateIsTyped
<1>2. gate'.at = "verdict" /\ (gate'.ask \/ gate'.why = "off")
  <2>1. CASE Asks
    BY <2>1 DEF Asks, Gating
  <2>2. CASE NeedsNot("off")
    BY <1>1, <2>2 DEF NeedsNot, GateType
  <2> QED
    BY <2>1, <2>2
<1> QED
  BY <1>2 DEF GateReads, PlanRead, DeclaredRead, ReportRead, Past

\* What a gate that has read the plan says of it.
LEMMA PlanStays ==
  ASSUME gate'.c \in Setting, gate'.plan # None, ~Touches(gate'.c, gate'.plan), ~gate'.ask
  PROVE  (gate.c \in Setting /\ gate.plan # None /\ ~Touches(gate.c, gate.plan) /\ ~gate.ask)'
  BY DEF Touches, TrustedRisky, ProjectAdds

\* The gate's own steps.
LEMMA GateStepReads ==
  ASSUME ApprovalTypeOK, RoundsMatch, DeclaredStays, OfFrozen(report), GateReads, Gate
  PROVE  GateReads'
<1> USE DEF state, disk, history
<1>0. /\ UNCHANGED <<plan, latest, target, report, declared>>
      /\ gate.at # "idle" => gate \in GateType
  BY GateIsTyped
  DEF Gate, StartGate, GateState, GatePlan, GateDeclared, GateReport, GateLatest, GateFrozen, GateVerdict
<1>1. CASE StartGate
  <2>1. gate'.at = "state" /\ gate'.c \in Setting /\ ~gate'.ask
    BY <1>1 DEF StartGate, Gating
  <2> QED
    BY <2>1 DEF GateReads, PlanRead, DeclaredRead, ReportRead, Past
<1>2. CASE GateState
  <2>1. gate'.at = "plan" /\ gate'.c = gate.c /\ gate'.ask = gate.ask /\ gate.at = "state"
    BY <1>0, <1>2 DEF GateState, GateType
  <2> QED
    BY <2>1 DEF GateReads, PlanRead, DeclaredRead, ReportRead, Past
<1>3. CASE GatePlan
  <2>1. gate.at = "plan" /\ gate \in GateType
    BY <1>0, <1>3 DEF GatePlan
  <2>2. CASE Asks \/ NeedsNot("off")
    BY <2>1, <2>2, AsksReads
  <2>3. CASE /\ gate' = [gate EXCEPT !.at = "declared", !.plan = plan]
             /\ plan # None /\ ~Touches(gate.c, plan)
    <3>1. /\ gate'.at = "declared" /\ gate'.c = gate.c /\ gate'.plan = plan /\ gate'.ask = gate.ask
      BY <2>1, <2>3 DEF GateType
    <3>2. gate.c \in Setting /\ ~gate.ask
      BY <2>1 DEF GateReads
    <3>3. (gate.c \in Setting /\ gate.plan # None /\ ~Touches(gate.c, gate.plan) /\ ~gate.ask)'
      BY <2>3, <3>1, <3>2, PlanStays
    <3> QED
      BY <3>1, <3>3 DEF GateReads, PlanRead, DeclaredRead, ReportRead, Past
  <2> QED
    BY <1>3, <2>2, <2>3 DEF GatePlan
<1>4. CASE GateDeclared
  <2>1. gate.at = "declared" /\ gate \in GateType
    BY <1>0, <1>4 DEF GateDeclared
  <2>2. CASE Asks
    BY <2>1, <2>2, AsksReads
  <2>3. CASE ~latest.declared /\ gate' = [gate EXCEPT !.at = "report", !.first = latest.round]
    <3>1. /\ gate'.at = "report" /\ gate'.c = gate.c /\ gate'.plan = gate.plan /\ gate'.ask = gate.ask
          /\ gate'.first = latest.round
      BY <2>1, <2>3 DEF GateType
    <3>2. PlanRead
      BY <2>1 DEF PlanRead, Past
    <3>3. (gate.c \in Setting /\ gate.plan # None /\ ~Touches(gate.c, gate.plan) /\ ~gate.ask)'
      BY <3>1, <3>2, PlanStays DEF GateReads
    <3>4. declared = 0 /\ latest.round <= latest.round
      BY <2>3 DEF DeclaredStays, ApprovalTypeOK, DesignRound
    <3> QED
      BY <1>0, <3>1, <3>3, <3>4 DEF GateReads, PlanRead, DeclaredRead, ReportRead, Past
  <2> QED
    BY <1>4, <2>2, <2>3 DEF GateDeclared
<1>5. CASE GateReport
  <2>1. gate.at = "report" /\ gate \in GateType
    BY <1>0, <1>5 DEF GateReport
  <2>2. /\ gate'.at = "latest" /\ gate'.c = gate.c /\ gate'.plan = gate.plan /\ gate'.ask = gate.ask
        /\ gate'.first = gate.first /\ gate'.rep = report
    BY <1>5, <2>1 DEF GateReport, GateType
  <2>3. PlanRead /\ DeclaredRead
    BY <2>1 DEF PlanRead, DeclaredRead, Past
  <2>4. (gate.c \in Setting /\ gate.plan # None /\ ~Touches(gate.c, gate.plan) /\ ~gate.ask)'
    BY <2>2, <2>3, PlanStays DEF GateReads
  <2>5. gate'.first <= latest'.round /\ (declared' = 0 \/ gate'.first < declared')
    BY <1>0, <2>2, <2>3 DEF GateReads
  <2>6. gate'.rep \in Report /\ OfFrozen(gate.rep)'
    BY <1>0, <2>2 DEF OfFrozen, ApprovalTypeOK
  <2> QED
    BY <2>2, <2>4, <2>5, <2>6 DEF GateReads, PlanRead, DeclaredRead, ReportRead, Past
<1>6. ASSUME gate.at \in {"latest", "frozen"},
             /\ gate'.c = gate.c /\ gate'.plan = gate.plan /\ gate'.ask = gate.ask
             /\ gate'.first = gate.first /\ gate'.rep = gate.rep
      PROVE  /\ (gate.c \in Setting /\ gate.plan # None /\ ~Touches(gate.c, gate.plan) /\ ~gate.ask)'
             /\ gate'.first <= latest'.round /\ (declared' = 0 \/ gate'.first < declared')
             /\ gate'.rep \in Report /\ OfFrozen(gate.rep)'
  <2>1. PlanRead /\ DeclaredRead /\ ReportRead
    BY <1>6 DEF PlanRead, DeclaredRead, ReportRead, Past
  <2>2. (gate.c \in Setting /\ gate.plan # None /\ ~Touches(gate.c, gate.plan) /\ ~gate.ask)'
    BY <1>6, <2>1, PlanStays DEF GateReads
  <2>3. gate'.first <= latest'.round /\ (declared' = 0 \/ gate'.first < declared')
    BY <1>0, <1>6, <2>1 DEF GateReads
  <2>4. gate'.rep \in Report /\ OfFrozen(gate.rep)'
    BY <1>0, <1>6, <2>1 DEF GateReads, OfFrozen
  <2> QED
    BY <2>2, <2>3, <2>4
<1>7. CASE GateLatest
  <2>1. gate.at = "latest" /\ gate \in GateType
    BY <1>0, <1>7 DEF GateLatest
  <2>2. CASE Asks
    BY <2>1, <2>2, AsksReads
  <2>3. CASE NeedsNot("skipped")
    <3>1. /\ gate'.c = gate.c /\ gate'.plan = gate.plan /\ gate'.ask = gate.ask
          /\ gate'.first = gate.first /\ gate'.rep = gate.rep /\ gate'.at = "verdict" /\ gate'.why = "skipped"
      BY <2>1, <2>3 DEF NeedsNot, GateType
    <3> QED
      BY <1>6, <2>1, <3>1 DEF GateReads
  <2>4. CASE RoundClears(gate.c, gate.rep, latest.round) /\ gate' = [gate EXCEPT !.at = "frozen", !.round = latest.round]
    <3>1. /\ gate'.c = gate.c /\ gate'.plan = gate.plan /\ gate'.ask = gate.ask
          /\ gate'.first = gate.first /\ gate'.rep = gate.rep /\ gate'.at = "frozen" /\ gate'.round = latest.round
      BY <2>1, <2>4 DEF GateType
    <3>2. latest.round = gate.rep.round /\ ~gate.rep.short
      BY <2>4 DEF RoundClears, ShortCoverage
    <3> QED
      BY <1>6, <2>1, <3>1, <3>2 DEF GateReads
  <2> QED
    BY <1>7, <2>2, <2>3, <2>4 DEF GateLatest
<1>8. CASE GateFrozen
  <2>1. gate.at = "frozen" /\ gate \in GateType
    BY <1>0, <1>8 DEF GateFrozen
  <2>2. CASE Asks
    BY <2>1, <2>2, AsksReads
  <2>3. CASE NeedsNot("reviewed") /\ OfCurrentPlan(gate.plan, DecisionsText(gate.qs))
    <3>1. /\ gate'.c = gate.c /\ gate'.plan = gate.plan /\ gate'.ask = gate.ask /\ gate'.qs = gate.qs
          /\ gate'.first = gate.first /\ gate'.rep = gate.rep /\ gate'.at = "verdict" /\ gate'.why = "reviewed"
      BY <2>1, <2>3 DEF NeedsNot, GateType
    <3>2. gate'.torn = (target.of # gate.round)
      BY <2>1, <2>3 DEF NeedsNot, GateType
    <3>3. gate.round = gate.rep.round /\ ~gate.rep.short
      BY <2>1 DEF GateReads
    <3>4. ReportRead
      BY <2>1 DEF ReportRead, Past
    <3>5. OfFrozen(gate.rep)
      BY <3>4 DEF GateReads
    <3>6. ~gate'.torn => gate.rep.plan = target.plan /\ gate.rep.decisions = target.decisions
      BY <3>2, <3>3, <3>5 DEF OfFrozen
    <3>7. target.plan = gate.plan /\ target.decisions = gate.qs
      BY <2>3 DEF OfCurrentPlan, DecisionsText
    <3> QED
      BY <1>6, <2>1, <3>1, <3>3, <3>6, <3>7 DEF GateReads
  <2> QED
    BY <1>8, <2>2, <2>3 DEF GateFrozen
<1>9. CASE GateVerdict
  <2>1. gate'.at = "idle"
    BY <1>9 DEF GateVerdict, Idle
  <2> QED
    BY <2>1 DEF GateReads, PlanRead, DeclaredRead, ReportRead, Past
<1> QED
  BY <1>1, <1>2, <1>3, <1>4, <1>5, <1>7, <1>8, <1>9 DEF Gate

-----------------------------------------------------------------------------
(* The invariant, and what follows. *)

LEMMA ApprovalInitInv == ApprovalInit => ApprovalInv
<1> SUFFICES ASSUME ApprovalInit PROVE ApprovalInv
  OBVIOUS
<1>1. ApprovalTypeOK
  <2>1. <<>> \in Seq(Answer \cup {"left"}) /\ <<>> \in Decisions
    BY EmptySeq DEF Decisions
  <2>2. << <<>> >> \in Decisions
    BY <2>1 DEF Decisions
  <2>3. 0 \in DesignRound /\ 0 \in 0 .. MaxDesign + 1 /\ 0 \in 0 .. MaxEdits
    BY ApprovalConstantsOK DEF DesignRound
  <2>4. report \in Report
    BY <2>1, <2>3 DEF ApprovalInit, Report
  <2> QED
    BY <2>1, <2>2, <2>3, <2>4, ApprovalConstantsOK DEF ApprovalInit, ApprovalTypeOK
<1>2. review.at = "idle" /\ approve.at = "idle" /\ gate.at = "idle" /\ approval = None
  BY DEF ApprovalInit, Idle
<1>3. target.of = 0 /\ latest.round = 0 /\ declared = 0
  BY DEF ApprovalInit
<1>4. /\ report.round = 0 /\ report.unreviewed = 0 /\ report.found = found
      /\ report.plan = target.plan /\ report.decisions = target.decisions
  BY DEF ApprovalInit
<1>5. RoundsMatch /\ DeclaredStays /\ OfFrozen(report)
  BY <1>2, <1>3, <1>4 DEF RoundsMatch, DeclaredStays, OfFrozen
<1>6. ShownAsFound
  BY <1>2, <1>3, <1>4 DEF ShownAsFound, Shows
<1>7. GateReads
  BY <1>2 DEF GateReads, PlanRead, DeclaredRead, ReportRead, Past
<1> QED
  BY <1>1, <1>5, <1>6, <1>7 DEF ApprovalInv

LEMMA ApprovalStepInv == ApprovalInv /\ [ApprovalNext]_approvalVars => ApprovalInv'
<1> SUFFICES ASSUME ApprovalInv, [ApprovalNext]_approvalVars PROVE ApprovalInv'
  OBVIOUS
<1> USE DEF ApprovalInv
<1>1. ApprovalTypeOK'
  <2>1. CASE UNCHANGED approvalVars
    BY <2>1 DEF ApprovalTypeOK, approvalVars, state, disk, history
  <2>2. CASE ApprovalNext
    BY <2>2, UserKeepsTypes, ReviewKeepsTypes, ApproveKeepsTypes, GateKeepsTypes DEF ApprovalNext
  <2> QED
    BY <2>1, <2>2
<1>2. RoundsMatch' /\ DeclaredStays' /\ OfFrozen(report)'
  BY RoundsStep
<1>3. ShownAsFound'
  BY ShownStep
<1>4. GateReads'
  BY ReadsStay, GateStepReads
<1> QED
  BY <1>1, <1>2, <1>3, <1>4

\* All of it holds throughout.
LEMMA ApprovalInvariant == ApprovalSpec => []ApprovalInv
<1> QED
  BY ApprovalInitInv, ApprovalStepInv, PTL DEF ApprovalSpec

\* Every file holds what its commands write to it, and every command what it has read.
THEOREM ApprovalTypeCorrect == ApprovalSpec => []ApprovalTypeOK
<1>1. ApprovalInv => ApprovalTypeOK
  BY DEF ApprovalInv
<1> QED
  BY <1>1, ApprovalInvariant, PTL

\* An implementer that goes ahead as approved goes ahead on a plan the user said yes to as it is
\* now, shown what the latest round found (approval.record, approval.current).
THEOREM GoesAsSeen == ApprovalSpec => ApprovedAsSeen
<1> DEFINE Seen ==
      GateVerdict /\ Approved =>
        LET y == gate.approval
        IN /\ y.plan = plan /\ y.round = latest.round /\ y.shown = found
           /\ gate.asking => y.answers = DecisionsDigest(gate.qs)
<1>1. ApprovalInv => Seen
  <2> SUFFICES ASSUME ApprovalInv, GateVerdict, Approved
               PROVE  LET y == gate.approval
                      IN /\ y.plan = plan /\ y.round = latest.round /\ y.shown = found
                         /\ gate.asking => y.answers = DecisionsDigest(gate.qs)
    OBVIOUS
  <2>1. /\ gate.approval # None /\ gate.approval.plan = plan /\ gate.approval.round = latest.round
        /\ gate.asking => gate.approval.answers = DecisionsDigest(gate.qs)
    BY DEF Approved, Approves
  <2>2. SeenAs(gate.approval)
    BY <2>1 DEF ApprovalInv, ShownAsFound, GateVerdict
  <2> QED
    BY <2>1, <2>2 DEF SeenAs
<1> QED
  BY <1>1, ApprovalInvariant, PTL DEF ApprovedAsSeen

\* An implementer that goes ahead with nobody asked goes ahead on a plan that touches no high-risk
\* path, and no design round begun by then had --high-risk (approval_auto.requirement).
THEOREM GoesUnrisky == ApprovalSpec => UnattendedUnrisky
<1> DEFINE Unrisky ==
      GateVerdict /\ (Waived("skipped") \/ Waived("reviewed")) =>
        ~Touches(gate.c, plan) /\ (declared = 0 \/ gate.first < declared)
<1>1. ApprovalInv => Unrisky
  <2> SUFFICES ASSUME ApprovalInv, GateVerdict, Waived("skipped") \/ Waived("reviewed")
               PROVE  ~Touches(gate.c, plan) /\ (declared = 0 \/ gate.first < declared)
    OBVIOUS
  <2>1. gate.at = "verdict" /\ ~gate.ask /\ gate.why \in {"skipped", "reviewed"} /\ gate.plan \in {None, plan}
    BY DEF Waived, Unchanged
  <2>2. PlanRead /\ DeclaredRead
    BY <2>1 DEF PlanRead, DeclaredRead, Past
  <2> QED
    BY <2>1, <2>2 DEF ApprovalInv, GateReads
<1> QED
  BY <1>1, ApprovalInvariant, PTL DEF UnattendedUnrisky

\* With nobody asked because the design review left nothing above Low, a design reviewer has read
\* that whole plan, with the decisions as they are (approval_auto.current).
THEOREM GoesReviewed == ApprovalSpec => AutoReviewed
<1> DEFINE Reviewed == GateVerdict /\ Waived("reviewed") /\ ~gate.torn => ReadInFull(gate.rep)
<1>1. ApprovalInv => Reviewed
  <2> SUFFICES ASSUME ApprovalInv, GateVerdict, Waived("reviewed"), ~gate.torn PROVE ReadInFull(gate.rep)
    OBVIOUS
  <2>1. gate.at = "verdict" /\ ~gate.ask /\ gate.why = "reviewed" /\ gate.plan \in {None, plan}
    BY DEF Waived, Unchanged
  <2>2. PlanRead
    BY <2>1 DEF PlanRead, Past
  <2>3. gate.plan = plan
    BY <2>1, <2>2 DEF ApprovalInv, GateReads
  <2>4. ~gate.rep.short /\ gate.rep.plan = gate.plan /\ gate.rep.decisions = gate.qs
    BY <2>1 DEF ApprovalInv, GateReads
  <2> QED
    BY <2>3, <2>4 DEF ReadInFull, DecisionsText
<1> QED
  BY <1>1, ApprovalInvariant, PTL DEF AutoReviewed

\* The settings without the project file.
LEMMA WithoutIsPlain ==
  ASSUME NEW c \in Setting
  PROVE  LET w == WithoutProject(c)
         IN /\ w.approval = c.approval /\ w.unattended = c.unattended /\ w.risky = c.risky
            /\ ~w.projectPanel /\ DesignMode(w) = c.design /\ DesignMode(WithoutProject(w)) = c.design
            /\ TrustedRisky(w) \subseteq TrustedRisky(c)
<1>1. c \in SettingType
  BY ApprovalConstantsOK
<1> DEFINE w == WithoutProject(c)
<1>2. /\ w \in SettingType /\ w.approval = c.approval /\ w.unattended = c.unattended /\ w.risky = c.risky
      /\ w.design = c.design /\ w.projectDesign = None /\ w.projectRisky = None /\ ~w.projectPanel
  BY <1>1 DEF WithoutProject, SettingType
<1>3. WithoutProject(w).design = c.design /\ WithoutProject(w).projectDesign = None
  BY <1>2 DEF WithoutProject, SettingType
<1> HIDE DEF w
<1>4. DesignMode(w) = c.design /\ DesignMode(WithoutProject(w)) = c.design
  BY <1>2, <1>3 DEF DesignMode
<1>5. TrustedRisky(w) \subseteq TrustedRisky(c)
  BY <1>2 DEF TrustedRisky, ProjectAdds
<1>6. /\ w.approval = c.approval /\ w.unattended = c.unattended /\ w.risky = c.risky
      /\ ~w.projectPanel /\ DesignMode(w) = c.design /\ DesignMode(WithoutProject(w)) = c.design
      /\ TrustedRisky(w) \subseteq TrustedRisky(c)
  BY <1>2, <1>4, <1>5
<1> QED
  BY <1>6 DEF w

\* Only severities are blocked on.
LEMMA BlocksFindings == ASSUME NEW c \in Setting PROVE AboveLow(WithoutProject(c)) \subseteq Finding
<1>1. c \in SettingType
  BY ApprovalConstantsOK
<1>2. WithoutProject(c) \in SettingType
  BY <1>1 DEF WithoutProject, SettingType
<1> QED
  BY <1>2 DEF AboveLow, Blocking, Listed, SettingType, Finding

\* A project file makes no plan go without approval that would need it without the file, but for a
\* design review it turns on, and that has read the whole plan, and but for a Low it does not let block
\* (config_trust, approval_auto, review.re_review_severities).
THEOREM ProjectOnlyTightens == ApprovalSpec => []ProjectCannotLoosen
<1>1. ProjectCannotLoosen
  <2> SUFFICES ASSUME plan # None, NEW c \in Setting,
                      Required(WithoutProject(c), plan, DecisionsText(questions)),
                      ~TurnedOnAndRead(c), ~LeavesLowOut(c)
               PROVE  Required(c, plan, DecisionsText(questions))
    BY DEF ProjectCannotLoosen
  <2> DEFINE w == WithoutProject(c)
             text == DecisionsText(questions)
             read(d) == OfCurrentPlan(plan, text) /\ NothingAboveLow(d, report)
  <2>1. /\ w.approval = c.approval /\ w.unattended = c.unattended /\ ~w.projectPanel
        /\ DesignMode(w) = c.design /\ DesignMode(WithoutProject(w)) = c.design
        /\ TrustedRisky(w) \subseteq TrustedRisky(c)
    BY WithoutIsPlain
  <2>6. AboveLow(w) \subseteq {"low", "high"}
    BY BlocksFindings DEF w, Finding
  <2> HIDE DEF w
  <2>2. CASE c.approval = "on"
    BY <2>2 DEF Required
  <2>3. CASE c.approval = "auto" /\ (~c.unattended \/ Touches(w, plan) \/ latest.declared)
    <3>1. Touches(w, plan) => Touches(c, plan)
      BY <2>1 DEF Touches
    <3> QED
      BY <2>3, <3>1 DEF Required
  <2>4. CASE /\ c.approval = "auto" /\ ~SkipClears(w, plan, report, latest.round)
             /\ ~(RoundClears(w, report, latest.round) /\ read(w))
    <3>1. ~SkipClears(c, plan, report, latest.round)
      <4> SUFFICES ASSUME SkipClears(c, plan, report, latest.round)
                   PROVE  SkipClears(w, plan, report, latest.round)
        BY <2>4
      <4>1. c.design = "auto"
        BY <2>1 DEF SkipClears, SkipsWithoutProject, w
      <4>2. plan \in Contained
        BY DEF SkipClears, DesignReviewRuns
      <4> QED
        BY <2>1, <4>1, <4>2 DEF SkipClears, DesignReviewRuns, SkipsWithoutProject
    <3>2. ~(RoundClears(c, report, latest.round) /\ read(c))
      <4> SUFFICES ASSUME RoundClears(c, report, latest.round), read(c)
                   PROVE  RoundClears(w, report, latest.round) /\ read(w)
        BY <2>4
      <4>1. c.design # "off"
        BY DEF TurnedOnAndRead
      <4>2. "low" \in report.open => "low" \notin AboveLow(w)
        BY DEF LeavesLowOut, NothingAboveLow, AboveLow, w
      <4>3. report.open \cap AboveLow(w) = {}
        BY <2>6, <4>2 DEF NothingAboveLow, AboveLow
      <4> QED
        BY <2>1, <4>1, <4>3 DEF RoundClears, PanelFromProject, NothingAboveLow
    <3> QED
      BY <2>4, <3>1, <3>2 DEF Required
  <2>5. Required(w, plan, text)
    BY DEF w
  <2> QED
    BY <2>1, <2>2, <2>3, <2>4, <2>5 DEF Required
<1> QED
  BY <1>1, PTL
=============================================================================
