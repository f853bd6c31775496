---------------------------- MODULE ConfigProofs ----------------------------
(***************************************************************************)
(* Proofs about the configuration.                                         *)
(*                                                                         *)
(* Hooks, for any processes, checkouts and languages, any number of        *)
(* commands and edits, and failures and kills at any step.                 *)
(*                                                                         *)
(* Seats, for any panels a preset may come to, any files to start with and *)
(* any number of commands: a fold of extras keeps its panel, and so the    *)
(* ids of a panel differ and somebody always runs, wherever the lists of   *)
(* the files are written so; and an edit does what it was asked to the     *)
(* seat it was asked for, as the copy it goes through is the part of the   *)
(* panel before the file's own extras, place by place.                     *)
(***************************************************************************)
EXTENDS Hooks, Seats, SequenceTheorems, FiniteSetTheorems, WellFoundedInduction, TLAPS

-----------------------------------------------------------------------------
(* Hooks: the inductive invariant. *)

Files == [relay: BOOLEAN, record: OrUnset(Checkout)]
EditSteps == {"read", "check", "rename"}
InstallSteps == {"relay", "record", "read", "check", "rename", "undo"}

\* What a process at a step runs and knows.
FitsAt(j) ==
  /\ j.at = "idle" => j = Idle
  /\ j.at # "idle" => j.op # "none"
  /\ j.at = "sync" => j.op = "config" /\ j.from \in Checkout /\ j.write \in [layer: Layer, was: OrUnset(Language)]
  /\ j.at = "start" => j.op = "install" /\ j.from \in Checkout
  /\ j.at \in {"relay", "record"} => j.op \in {"install", "refresh"} /\ j.from \in Checkout
  /\ j.at \in EditSteps => j.op \in {"install", "uninstall"}
  /\ j.at \in {"check", "rename"} => j.seen \in Settings
  /\ j.at \in {"undo", "unwrite"} => j.op = "install"
  /\ j.at \in {"unrelay", "unrecord"} => j.op = "uninstall"
  /\ j.op = "install" /\ j.at # "start" => j.before \in Files
JobsFit == \A p \in Proc : FitsAt(job[p])

\* What a process is about to write has the user's text.
TextKept ==
  /\ EditsKept
  /\ \A p \in Proc : job[p].at = "rename" => job[p].seen.text = edits \/ late

Alone == \A p, q \in Editing : p = q
Named == settings.ours \in {"some", "all"}
RelayFits(j) ==
  /\ j.op = "install" /\ j.at \in {"record", "read", "check", "rename"} => relay
  /\ j.op = "install" /\ j.at \in InstallSteps /\ Named => j.before.relay
  /\ j.at = "unrelay" => ~Named

AskedFits(j) ==
  /\ j.op = "install" => wanted
  /\ j.at = "sync" /\ lang[j.write.layer] # Unset /\ j.write.was = Unset => wanted

Trusted == Plugins \cup chosen
ChosenFits(j) ==
  /\ j.at \in {"start", "relay", "record"} => j.from \in Trusted
  /\ j.at = "sync" /\ lang[j.write.layer] # Unset => j.from \in Trusted
  /\ j.op = "install" /\ j.at # "start" => j.before.record \in Trusted \cup {Unset}

\* As long as no command that edits the settings has had another beside it.
Undisturbed ==
  /\ Alone
  /\ (Named => relay) /\ \A p \in Proc : RelayFits(job[p])
  /\ (settings.ours # "none" => wanted) /\ \A p \in Proc : AskedFits(job[p])
  /\ record \in Trusted \cup {Unset} /\ \A p \in Proc : ChosenFits(job[p])

HInv == HooksTypeOK /\ JobsFit /\ TextKept /\ (~beside => Undisturbed)

-----------------------------------------------------------------------------

\* A process that goes on leaves the others where they are.
LEMMA GotoMoves ==
  ASSUME HooksTypeOK, NEW p \in Proc, NEW j \in Job, NEW step \in Steps, Goto(p, j, step)
  PROVE /\ job' \in [Proc -> Job]
        /\ job'[p] = IF step = "idle" THEN Idle ELSE [j EXCEPT !.at = step]
        /\ \A q \in Proc : q # p => job'[q] = job[q]
<1>1. Idle \in Job
  BY DEF Idle, Job, Steps, Ops, OrUnset
<1>2. [j EXCEPT !.at = step] \in Job
  BY DEF Job
<1> QED BY <1>1, <1>2 DEF Goto, HooksTypeOK

\* Merged settings keep the user's text.
LEMMA MergedType ==
  ASSUME NEW s \in Settings, NEW install \in BOOLEAN
  PROVE /\ Merged(s, install) \in Settings /\ Merged(s, install).text = s.text
        /\ Merged(s, install).ours = IF install THEN "all" ELSE "none"
BY DEF Merged, Settings, Entries

\* Where a process that goes on fits, every process does.
LEMMA GotoFits ==
  ASSUME HInv, NEW p \in Proc, NEW j \in Job, NEW step \in Steps, Goto(p, j, step),
         step # "idle" => FitsAt([j EXCEPT !.at = step])
  PROVE /\ job' \in [Proc -> Job] /\ JobsFit'
<1>1. FitsAt(Idle)
  BY DEF FitsAt, Idle, EditSteps
<1>2. \A q \in Proc : FitsAt(job'[q])
  BY <1>1, GotoMoves DEF HInv, JobsFit
<1> QED BY <1>2, GotoMoves DEF HInv, JobsFit

\* The jobs of commands that begin.
LEMMA BeginType ==
  /\ [Idle EXCEPT !.op = "uninstall"] \in Job
  /\ \A from \in Checkout : [Idle EXCEPT !.op = "install", !.from = from] \in Job
  /\ \A from \in Checkout, before \in Files :
       [Idle EXCEPT !.op = "refresh", !.from = from, !.before = before] \in Job
  /\ \A from \in Checkout, write \in [layer: Layer, was: OrUnset(Language)] :
       [Idle EXCEPT !.op = "config", !.from = from, !.write = write] \in Job
BY DEF Idle, Job, Steps, Ops, OrUnset, Files

\* The jobs of a process that learns something on its way.
LEMMA LearnType ==
  ASSUME NEW j \in Job
  PROVE /\ \A before \in Files : [j EXCEPT !.before = before] \in Job
        /\ \A seen \in Settings : [j EXCEPT !.seen = seen] \in Job
        /\ \A op \in Ops : [j EXCEPT !.op = op] \in Job
        /\ [j EXCEPT !.retried = TRUE] \in Job
BY DEF Job, OrUnset, Files

\* Every step keeps the types and what each process has in hand.
LEMMA TypeStep == ASSUME HInv, [HooksNext]_hooksVars PROVE HooksTypeOK' /\ JobsFit'
<1> USE HooksConstantsOK DEF files, history
<1>a. HooksTypeOK /\ JobsFit /\ (\A p \in Proc : job[p] \in Job /\ FitsAt(job[p]))
  BY DEF HInv, HooksTypeOK, JobsFit
<1>b. Found \in Files
  BY <1>a DEF Found, Files, HooksTypeOK
<1>1. ASSUME NEW p \in Proc, NEW from \in Checkout, Install(p, from) PROVE HooksTypeOK' /\ JobsFit'
  <2>1. Goto(p, [Idle EXCEPT !.op = "install", !.from = from], "start")
    BY <1>1 DEF Install, Begin
  <2>2. FitsAt([[Idle EXCEPT !.op = "install", !.from = from] EXCEPT !.at = "start"])
    BY DEF FitsAt, Idle, EditSteps
  <2>3. job' \in [Proc -> Job] /\ JobsFit'
    BY <2>1, <2>2, GotoFits, BeginType DEF Steps
  <2> QED BY <2>3, <1>1, <1>a DEF Install, Begin, HooksTypeOK
<1>2. ASSUME NEW p \in Proc, Uninstall(p) PROVE HooksTypeOK' /\ JobsFit'
  <2>1. Goto(p, [Idle EXCEPT !.op = "uninstall"], "read")
    BY <1>2 DEF Uninstall, Begin
  <2>2. FitsAt([[Idle EXCEPT !.op = "uninstall"] EXCEPT !.at = "read"])
    BY DEF FitsAt, Idle, EditSteps
  <2>3. job' \in [Proc -> Job] /\ JobsFit'
    BY <2>1, <2>2, GotoFits, BeginType DEF Steps
  <2> QED BY <2>3, <1>2, <1>a DEF Uninstall, Begin, HooksTypeOK
<1>3. ASSUME NEW p \in Proc, NEW from \in Checkout, NEW layer \in Layer, NEW tag \in Language \cup {Unset},
             NEW sync \in BOOLEAN, ConfigWrite(p, from, layer, tag, sync)
      PROVE HooksTypeOK' /\ JobsFit'
  <2> DEFINE w == [layer |-> layer, was |-> lang[layer]]
             j == [Idle EXCEPT !.op = "config", !.from = from, !.write = w]
             step == IF sync THEN "sync" ELSE "idle"
  <2>1. Goto(p, j, step)
    BY <1>3 DEF ConfigWrite, Begin
  <2>2. w \in [layer: Layer, was: OrUnset(Language)]
    BY <1>a DEF HooksTypeOK
  <2>3. step # "idle" => FitsAt([j EXCEPT !.at = step])
    BY <2>2 DEF FitsAt, Idle, EditSteps
  <2>4. job' \in [Proc -> Job] /\ JobsFit'
    <3>1. j \in Job
      BY <2>2, BeginType
    <3>2. step \in Steps
      BY DEF Steps
    <3> HIDE DEF j, step
    <3> QED BY <2>1, <2>3, <3>1, <3>2, GotoFits
  <2> QED BY <2>4, <1>3, <1>a DEF ConfigWrite, Begin, HooksTypeOK, OrUnset
<1>4. ASSUME NEW p \in Proc, NEW directory \in BOOLEAN, Sync(p, directory) PROVE HooksTypeOK' /\ JobsFit'
  <2>1. PICK op \in {"install", "uninstall"}, step \in {"start", "read", "idle"} :
          /\ Goto(p, [job[p] EXCEPT !.op = op], step)
          /\ step # "idle" => (op = "install" <=> step = "start")
    <3>1. CASE SyncInstalls(job[p]) /\ directory /\ Goto(p, [job[p] EXCEPT !.op = "install"], "start")
      BY <3>1
    <3>2. CASE SyncRemoves(job[p]) /\ Goto(p, [job[p] EXCEPT !.op = "uninstall"], "read")
      BY <3>2
    <3>3. CASE Goto(p, job[p], "idle")
      BY <3>3 DEF Goto
    <3> QED BY <3>1, <3>2, <3>3, <1>4 DEF Sync
  <2>2. step # "idle" => FitsAt([[job[p] EXCEPT !.op = op] EXCEPT !.at = step])
    BY <2>1, <1>a, <1>4 DEF FitsAt, EditSteps, Sync, Job
  <2>3. [job[p] EXCEPT !.op = op] \in Job /\ step \in Steps
    BY <1>a DEF Job, Ops, Steps
  <2>4. job' \in [Proc -> Job] /\ JobsFit'
    BY <2>1, <2>2, <2>3, GotoFits
  <2> QED BY <2>4, <1>4, <1>a DEF Sync, HooksTypeOK
<1>5. ASSUME NEW p \in Proc, Install_Start(p) PROVE HooksTypeOK' /\ JobsFit'
  <2> DEFINE j == [job[p] EXCEPT !.before = Found]
  <2>1. PICK step \in {"relay", "idle"} : Goto(p, j, step)
    BY <1>5 DEF Install_Start
  <2>2. FitsAt([j EXCEPT !.at = step]) \/ step = "idle"
    BY <1>5, <1>a, <1>b DEF Install_Start, FitsAt, EditSteps, Job
  <2>3. j \in Job
    BY <1>a, <1>b, LearnType
  <2>4. job' \in [Proc -> Job] /\ JobsFit'
    <3> HIDE DEF j
    <3> QED BY <2>1, <2>2, <2>3, GotoFits DEF Steps
  <2> QED BY <2>4, <1>5, <1>a DEF Install_Start, HooksTypeOK
<1>6. ASSUME NEW p \in Proc, NEW from \in Checkout, Refresh(p, from) PROVE HooksTypeOK' /\ JobsFit'
  <2> DEFINE j == [Idle EXCEPT !.op = "refresh", !.from = from, !.before = Found]
  <2>1. Goto(p, j, "relay")
    BY <1>6 DEF Refresh, Begin
  <2>2. FitsAt([j EXCEPT !.at = "relay"])
    BY <1>b DEF FitsAt, Idle, EditSteps
  <2>3. j \in Job
    BY <1>b, BeginType
  <2>4. job' \in [Proc -> Job] /\ JobsFit'
    <3> HIDE DEF j
    <3> QED BY <2>1, <2>2, <2>3, GotoFits DEF Steps
  <2> QED BY <2>4, <1>6, <1>a DEF Refresh, Begin, HooksTypeOK
<1>7. ASSUME NEW p \in Proc, WriteRelay(p) PROVE HooksTypeOK' /\ JobsFit'
  <2>1. PICK step \in {"record"} : Goto(p, job[p], step) /\ (step # "idle" => FitsAt([job[p] EXCEPT !.at = step]))
    BY <1>7, <1>a DEF WriteRelay, FitsAt, EditSteps, Job
  <2>2. job' \in [Proc -> Job] /\ JobsFit'
    BY <2>1, <1>a, GotoFits DEF Steps
  <2> QED BY <2>2, <1>7, <1>a DEF WriteRelay, HooksTypeOK, OrUnset, Files, FitsAt, EditSteps
<1>8. ASSUME NEW p \in Proc, WriteRecord(p) PROVE HooksTypeOK' /\ JobsFit'
  <2>1. PICK step \in {"idle", "read"} : Goto(p, job[p], step) /\ (step # "idle" => FitsAt([job[p] EXCEPT !.at = step]))
    BY <1>8, <1>a DEF WriteRecord, FitsAt, EditSteps, Job
  <2>2. job' \in [Proc -> Job] /\ JobsFit'
    BY <2>1, <1>a, GotoFits DEF Steps
  <2> QED BY <2>2, <1>8, <1>a DEF WriteRecord, HooksTypeOK, OrUnset, Files, FitsAt, EditSteps
<1>9. ASSUME NEW p \in Proc, Read(p) PROVE HooksTypeOK' /\ JobsFit'
  <2> DEFINE j == [job[p] EXCEPT !.seen = settings]
  <2>1. PICK step \in {"undo", "idle", "unrelay", "check"} :
          Goto(p, j, step) /\ (step # "idle" => FitsAt([j EXCEPT !.at = step]))
    BY <1>9, <1>a DEF Read, FitsAt, EditSteps, Job, Failed, Done, HooksTypeOK
  <2>2. j \in Job
    BY <1>a, LearnType DEF HooksTypeOK
  <2>3. job' \in [Proc -> Job] /\ JobsFit'
    <3> HIDE DEF j
    <3> QED BY <2>1, <2>2, GotoFits DEF Steps
  <2> QED BY <2>3, <1>9, <1>a DEF Read, HooksTypeOK
<1>10. ASSUME NEW p \in Proc, Check(p) PROVE HooksTypeOK' /\ JobsFit'
  <2>1. PICK j \in {job[p], [job[p] EXCEPT !.retried = TRUE]}, step \in {"rename", "read", "undo", "idle"} :
          Goto(p, j, step) /\ (step # "idle" => FitsAt([j EXCEPT !.at = step]))
    BY <1>10, <1>a DEF Check, FitsAt, EditSteps, Job, Failed, HooksTypeOK
  <2>2. j \in Job
    BY <1>a, LearnType
  <2>3. step \in Steps
    BY DEF Steps
  <2>4. job' \in [Proc -> Job] /\ JobsFit'
    BY ONLY <2>1, <2>2, <2>3, GotoFits, HInv, p \in Proc
  <2> QED BY <2>4, <1>10, <1>a DEF Check, HooksTypeOK
<1>11. ASSUME NEW p \in Proc, Rename(p) PROVE HooksTypeOK' /\ JobsFit'
  <2>1. PICK step \in {"unrelay", "idle"} : Goto(p, job[p], step) /\ (step # "idle" => FitsAt([job[p] EXCEPT !.at = step]))
    BY <1>11, <1>a DEF Rename, FitsAt, EditSteps, Job, Done
  <2>2. job' \in [Proc -> Job] /\ JobsFit'
    BY <2>1, <1>a, GotoFits DEF Steps
  <2>3. settings' \in Settings
    BY <1>11, <1>a, MergedType DEF Rename, FitsAt, EditSteps
  <2> QED BY <2>2, <2>3, <1>11, <1>a DEF Rename, HooksTypeOK
<1>12. ASSUME NEW p \in Proc, Unrelay(p) PROVE HooksTypeOK' /\ JobsFit'
  <2>1. PICK step \in {"unrecord"} : Goto(p, job[p], step) /\ (step # "idle" => FitsAt([job[p] EXCEPT !.at = step]))
    BY <1>12, <1>a DEF Unrelay, FitsAt, EditSteps, Job
  <2>2. job' \in [Proc -> Job] /\ JobsFit'
    BY <2>1, <1>a, GotoFits DEF Steps
  <2> QED BY <2>2, <1>12, <1>a DEF Unrelay, HooksTypeOK, OrUnset, Files, FitsAt, EditSteps
<1>13. ASSUME NEW p \in Proc, Unrecord(p) PROVE HooksTypeOK' /\ JobsFit'
  <2>1. PICK step \in {"idle"} : Goto(p, job[p], step) /\ (step # "idle" => FitsAt([job[p] EXCEPT !.at = step]))
    BY <1>13, <1>a DEF Unrecord, FitsAt, EditSteps, Job
  <2>2. job' \in [Proc -> Job] /\ JobsFit'
    BY <2>1, <1>a, GotoFits DEF Steps
  <2> QED BY <2>2, <1>13, <1>a DEF Unrecord, HooksTypeOK, OrUnset, Files, FitsAt, EditSteps
<1>14. ASSUME NEW p \in Proc, Undo(p) PROVE HooksTypeOK' /\ JobsFit'
  <2>1. PICK step \in {"unwrite"} : Goto(p, job[p], step) /\ (step # "idle" => FitsAt([job[p] EXCEPT !.at = step]))
    BY <1>14, <1>a DEF Undo, FitsAt, EditSteps, Job
  <2>2. job' \in [Proc -> Job] /\ JobsFit'
    BY <2>1, <1>a, GotoFits DEF Steps
  <2> QED BY <2>2, <1>14, <1>a DEF Undo, HooksTypeOK, OrUnset, Files, FitsAt, EditSteps
<1>15. ASSUME NEW p \in Proc, Unwrite(p) PROVE HooksTypeOK' /\ JobsFit'
  <2>1. PICK step \in {"idle"} : Goto(p, job[p], step) /\ (step # "idle" => FitsAt([job[p] EXCEPT !.at = step]))
    BY <1>15, <1>a DEF Unwrite, FitsAt, EditSteps, Job
  <2>2. job' \in [Proc -> Job] /\ JobsFit'
    BY <2>1, <1>a, GotoFits DEF Steps
  <2> QED BY <2>2, <1>15, <1>a DEF Unwrite, HooksTypeOK, OrUnset, Files, FitsAt, EditSteps
<1>16. ASSUME NEW p \in Proc, Fail(p) PROVE HooksTypeOK' /\ JobsFit'
  <2>1. PICK step \in {"undo", "unwrite", "idle"} : Goto(p, job[p], step) /\ (step # "idle" => FitsAt([job[p] EXCEPT !.at = step]))
    BY <1>16, <1>a DEF Fail, FitsAt, EditSteps, Job, Failed
  <2>2. job' \in [Proc -> Job] /\ JobsFit'
    BY <2>1, <1>a, GotoFits DEF Steps
  <2> QED BY <2>2, <1>16, <1>a DEF Fail, HooksTypeOK, OrUnset, Files, FitsAt, EditSteps
<1>17. ASSUME NEW p \in Proc, Die(p) PROVE HooksTypeOK' /\ JobsFit'
  <2>1. PICK step \in {"idle"} : Goto(p, job[p], step) /\ (step # "idle" => FitsAt([job[p] EXCEPT !.at = step]))
    BY <1>17, <1>a DEF Die, FitsAt, EditSteps, Job
  <2>2. job' \in [Proc -> Job] /\ JobsFit'
    BY <2>1, <1>a, GotoFits DEF Steps
  <2> QED BY <2>2, <1>17, <1>a DEF Die, HooksTypeOK, OrUnset, Files, FitsAt, EditSteps
<1>18. ASSUME NEW ours \in Entries, NEW valid \in BOOLEAN, Edit(ours, valid) PROVE HooksTypeOK' /\ JobsFit'
  BY <1>18, <1>a DEF Edit, HooksTypeOK, Settings, JobsFit, FitsAt
<1>19. ASSUME NEW tag \in Language \cup {Unset}, Pull(tag) PROVE HooksTypeOK' /\ JobsFit'
  BY <1>19, <1>a DEF Pull, HooksTypeOK, JobsFit, FitsAt, OrUnset, Layer
<1>20. ASSUME UNCHANGED hooksVars PROVE HooksTypeOK' /\ JobsFit'
  BY <1>20, <1>a DEF hooksVars, HooksTypeOK, JobsFit, FitsAt
<1> QED BY <1>1, <1>2, <1>3, <1>4, <1>5, <1>6, <1>7, <1>8, <1>9, <1>10, <1>11, <1>12, <1>13, <1>14,
           <1>15, <1>16, <1>17, <1>18, <1>19, <1>20 DEF HooksNext

-----------------------------------------------------------------------------

\* An edit that a process has not seen is one the check finds, or late.
LEMMA TextStep == ASSUME HInv, [HooksNext]_hooksVars PROVE TextKept'
<1> USE DEF files, history
<1>a. HooksTypeOK /\ EditsKept /\ (\A p \in Proc : job[p] \in Job /\ FitsAt(job[p]))
  BY DEF HInv, HooksTypeOK, JobsFit, TextKept
<1>b. \A p \in Proc : job[p].at = "rename" => job[p].seen.text = edits \/ late
  BY DEF HInv, TextKept
\* A process that goes on, with the settings and the edits as they are.
<1>c. ASSUME NEW p \in Proc, NEW j \in Job, NEW step \in Steps, Goto(p, j, step),
             step = "rename" => j.seen.text = edits \/ late, settings'.text = settings.text,
             UNCHANGED <<edits, late>>
      PROVE TextKept'
  <2>1. /\ job'[p] = IF step = "idle" THEN Idle ELSE [j EXCEPT !.at = step]
        /\ \A q \in Proc : q # p => job'[q] = job[q]
    BY <1>a, <1>c, GotoMoves
  <2>2. job'[p].at = "rename" => step = "rename" /\ job'[p].seen = j.seen
    BY <2>1 DEF Idle, Job
  <2>3. \A q \in Proc : job'[q].at = "rename" => job'[q].seen.text = edits \/ late
    BY <2>1, <2>2, <1>b, <1>c
  <2> QED BY <2>3, <1>a, <1>c DEF TextKept, EditsKept
<1>1. ASSUME NEW p \in Proc, Check(p) PROVE TextKept'
  <2>1. CASE settings = job[p].seen /\ Goto(p, job[p], "rename")
    BY <2>1, <1>1, <1>a, <1>c DEF Check, EditsKept, Steps
  <2>2. CASE ~job[p].retried /\ Goto(p, [job[p] EXCEPT !.retried = TRUE], "read")
    <3>1. [job[p] EXCEPT !.retried = TRUE] \in Job
      BY <1>a, LearnType
    <3> QED BY <3>1, <2>2, <1>1, <1>c DEF Check, Steps
  <2>3. CASE Goto(p, job[p], Failed(p))
    BY <2>3, <1>1, <1>a, <1>c DEF Check, Steps, Failed
  <2> QED BY <2>1, <2>2, <2>3, <1>1 DEF Check
<1>2. ASSUME NEW p \in Proc, Rename(p) PROVE TextKept'
  <2>1. settings'.text = job[p].seen.text
    BY <1>2, <1>a, MergedType DEF Rename, FitsAt, EditSteps
  <2>2. PICK done \in {"unrelay", "idle"} : Goto(p, job[p], done)
    BY <1>2 DEF Rename, Done
  <2>3. job'[p].at # "rename" /\ \A q \in Proc : q # p => job'[q] = job[q]
    <3>1. /\ job'[p] = IF done = "idle" THEN Idle ELSE [job[p] EXCEPT !.at = done]
          /\ \A q \in Proc : q # p => job'[q] = job[q]
      <4>1. done \in Steps /\ job[p] \in Job
        BY <1>a DEF Steps
      <4> QED BY ONLY <4>1, <2>2, <1>a, GotoMoves, p \in Proc
    <3> QED BY <3>1, <2>2, <1>a DEF Idle, Job
  <2> QED BY <2>1, <2>3, <1>2, <1>b DEF Rename, TextKept, EditsKept
<1>3. ASSUME NEW ours \in Entries, NEW valid \in BOOLEAN, Edit(ours, valid) PROVE TextKept'
  BY <1>3, <1>a, <1>b DEF Edit, TextKept, EditsKept
<1>4. ASSUME NEW tag \in Language \cup {Unset}, Pull(tag) PROVE TextKept'
  BY <1>4, <1>a, <1>b DEF Pull, TextKept, EditsKept
<1>5. ASSUME UNCHANGED hooksVars PROVE TextKept'
  BY <1>5, <1>a, <1>b DEF hooksVars, TextKept, EditsKept
\* No other step leads to the rename.
<1>d. Found \in Files
  BY <1>a DEF Found, Files, HooksTypeOK
<1>6. ASSUME NEW p \in Proc, NEW from \in Checkout, Install(p, from) PROVE TextKept'
  <2>1. PICK step \in {"start"} : Goto(p, [Idle EXCEPT !.op = "install", !.from = from], step)
    BY <1>6 DEF Install, Begin
  <2>2. [Idle EXCEPT !.op = "install", !.from = from] \in Job
    BY <1>a, BeginType
  <2> QED BY <2>1, <2>2, <1>6, <1>c DEF Install, Begin, Steps
<1>7. ASSUME NEW p \in Proc, Uninstall(p) PROVE TextKept'
  <2>1. PICK step \in {"read"} : Goto(p, [Idle EXCEPT !.op = "uninstall"], step)
    BY <1>7 DEF Uninstall, Begin
  <2>2. [Idle EXCEPT !.op = "uninstall"] \in Job
    BY <1>a, BeginType
  <2> QED BY <2>1, <2>2, <1>7, <1>c DEF Uninstall, Begin, Steps
<1>8. ASSUME NEW p \in Proc, NEW from \in Checkout, NEW layer \in Layer, NEW tag \in Language \cup {Unset},
             NEW sync \in BOOLEAN, ConfigWrite(p, from, layer, tag, sync)
      PROVE TextKept'
  <2> DEFINE w == [layer |-> layer, was |-> lang[layer]]
             j == [Idle EXCEPT !.op = "config", !.from = from, !.write = w]
  <2>1. PICK step \in {"sync", "idle"} : Goto(p, j, step)
    BY <1>8 DEF ConfigWrite, Begin
  <2>2. w \in [layer: Layer, was: OrUnset(Language)]
    BY <1>a DEF HooksTypeOK
  <2>3. j \in Job
    BY <2>2, BeginType
  <2> HIDE DEF j
  <2> QED BY <2>1, <2>3, <1>8, <1>c DEF ConfigWrite, Begin, Steps
<1>9. ASSUME NEW p \in Proc, NEW directory \in BOOLEAN, Sync(p, directory) PROVE TextKept'
  <2>1. PICK j \in {job[p], [job[p] EXCEPT !.op = "install"], [job[p] EXCEPT !.op = "uninstall"]},
             step \in {"start", "read", "idle"} : Goto(p, j, step)
    BY <1>9 DEF Sync
  <2>2. j \in Job
    BY <1>a, LearnType DEF Ops
  <2>3. step \in Steps /\ step # "rename"
    BY DEF Steps
  <2> QED BY ONLY <2>1, <2>2, <2>3, <1>c, <1>9, p \in Proc DEF Sync, files, history
<1>10. ASSUME NEW p \in Proc, Install_Start(p) PROVE TextKept'
  <2>1. PICK step \in {"relay", "idle"} : Goto(p, [job[p] EXCEPT !.before = Found], step)
    BY <1>10 DEF Install_Start
  <2>2. [job[p] EXCEPT !.before = Found] \in Job
    BY <1>a, <1>d, LearnType
  <2> QED BY <2>1, <2>2, <1>10, <1>c DEF Install_Start, Steps
<1>11. ASSUME NEW p \in Proc, NEW from \in Checkout, Refresh(p, from) PROVE TextKept'
  <2>1. PICK step \in {"relay"} : Goto(p, [Idle EXCEPT !.op = "refresh", !.from = from, !.before = Found], step)
    BY <1>11 DEF Refresh, Begin
  <2>2. [Idle EXCEPT !.op = "refresh", !.from = from, !.before = Found] \in Job
    BY <1>a, <1>d, BeginType
  <2> QED BY <2>1, <2>2, <1>11, <1>c DEF Refresh, Begin, Steps
<1>12. ASSUME NEW p \in Proc, WriteRelay(p) PROVE TextKept'
  <2>1. PICK step \in {"record"} : Goto(p, job[p], step)
    BY <1>12 DEF WriteRelay
  <2>2. job[p] \in Job
    BY <1>a
  <2> QED BY <2>1, <2>2, <1>12, <1>c DEF WriteRelay, Steps
<1>13. ASSUME NEW p \in Proc, WriteRecord(p) PROVE TextKept'
  <2>1. PICK step \in {"idle", "read"} : Goto(p, job[p], step)
    BY <1>13 DEF WriteRecord
  <2>2. job[p] \in Job
    BY <1>a
  <2> QED BY <2>1, <2>2, <1>13, <1>c DEF WriteRecord, Steps
<1>14. ASSUME NEW p \in Proc, Read(p) PROVE TextKept'
  <2>1. PICK step \in {"undo", "idle", "unrelay", "check"} : Goto(p, [job[p] EXCEPT !.seen = settings], step)
    BY <1>14 DEF Read, Failed, Done
  <2>2. [job[p] EXCEPT !.seen = settings] \in Job
    BY <1>a, LearnType DEF HooksTypeOK
  <2> QED BY <2>1, <2>2, <1>14, <1>c DEF Read, Failed, Done, Steps
<1>15. ASSUME NEW p \in Proc, Unrelay(p) PROVE TextKept'
  <2>1. PICK step \in {"unrecord"} : Goto(p, job[p], step)
    BY <1>15 DEF Unrelay
  <2>2. job[p] \in Job
    BY <1>a
  <2> QED BY <2>1, <2>2, <1>15, <1>c DEF Unrelay, Steps
<1>16. ASSUME NEW p \in Proc, Unrecord(p) PROVE TextKept'
  <2>1. PICK step \in {"idle"} : Goto(p, job[p], step)
    BY <1>16 DEF Unrecord
  <2>2. job[p] \in Job
    BY <1>a
  <2> QED BY <2>1, <2>2, <1>16, <1>c DEF Unrecord, Steps
<1>17. ASSUME NEW p \in Proc, Undo(p) PROVE TextKept'
  <2>1. PICK step \in {"unwrite"} : Goto(p, job[p], step)
    BY <1>17 DEF Undo
  <2>2. job[p] \in Job
    BY <1>a
  <2> QED BY <2>1, <2>2, <1>17, <1>c DEF Undo, Steps
<1>18. ASSUME NEW p \in Proc, Unwrite(p) PROVE TextKept'
  <2>1. PICK step \in {"idle"} : Goto(p, job[p], step)
    BY <1>18 DEF Unwrite
  <2>2. job[p] \in Job
    BY <1>a
  <2> QED BY <2>1, <2>2, <1>18, <1>c DEF Unwrite, Steps
<1>19. ASSUME NEW p \in Proc, Fail(p) PROVE TextKept'
  <2>1. PICK step \in {"undo", "unwrite", "idle"} : Goto(p, job[p], step)
    BY <1>19 DEF Fail, Failed
  <2>2. job[p] \in Job
    BY <1>a
  <2> QED BY <2>1, <2>2, <1>19, <1>c DEF Fail, Failed, Steps
<1>20. ASSUME NEW p \in Proc, Die(p) PROVE TextKept'
  <2>1. PICK step \in {"idle"} : Goto(p, job[p], step)
    BY <1>20 DEF Die
  <2>2. job[p] \in Job
    BY <1>a
  <2> QED BY <2>1, <2>2, <1>20, <1>c DEF Die, Steps
<1> QED BY <1>1, <1>2, <1>3, <1>4, <1>5, <1>6, <1>7, <1>8, <1>9, <1>10, <1>11, <1>12, <1>13, <1>14,
           <1>15, <1>16, <1>17, <1>18, <1>19, <1>20 DEF HooksNext

-----------------------------------------------------------------------------
(* As long as the commands that edit the settings come one at a time. *)

\* What a process that goes on is, field by field.
LEMMA GotoFields ==
  ASSUME HooksTypeOK, NEW p \in Proc, NEW j \in Job, NEW step \in Steps, Goto(p, j, step)
  PROVE /\ \A q \in Proc : q # p => job'[q] = job[q]
        /\ step = "idle" => job'[p] = Idle
        /\ step # "idle" => /\ job'[p].at = step /\ job'[p].op = j.op /\ job'[p].from = j.from
                            /\ job'[p].before = j.before /\ job'[p].write = j.write
<1> DEFINE k == [j EXCEPT !.at = step]
<1>1. k.at = step /\ k.op = j.op /\ k.from = j.from /\ k.before = j.before /\ k.write = j.write
  BY DEF Job
<1>2. job'[p] = IF step = "idle" THEN Idle ELSE k
  BY GotoMoves
<1>3. \A q \in Proc : q # p => job'[q] = job[q]
  BY GotoMoves
<1> HIDE DEF k
<1> QED BY <1>1, <1>2, <1>3

\* Once one came beside another, that stays.
LEMMA BesideStays == ASSUME HInv, [HooksNext]_hooksVars, ~beside' PROVE ~beside /\ Undisturbed
<1> USE DEF files, history
<1>1. SUFFICES beside => beside'
  BY DEF HInv
<1>2. ASSUME NEW p \in Proc, NEW from \in Checkout,
             \/ Install(p, from) \/ Refresh(p, from)
             \/ \E layer \in Layer, tag \in Language \cup {Unset}, sync \in BOOLEAN :
                  ConfigWrite(p, from, layer, tag, sync)
      PROVE  beside => beside'
  BY <1>2 DEF Install, Refresh, ConfigWrite
<1>3. ASSUME NEW p \in Proc,
             \/ Uninstall(p) \/ Install_Start(p) \/ \E directory \in BOOLEAN : Sync(p, directory)
      PROVE  beside => beside'
  BY <1>3 DEF Uninstall, Install_Start, Sync
<1>4. ASSUME NEW p \in Proc, WriteRelay(p) \/ WriteRecord(p) \/ Read(p) \/ Check(p) \/ Rename(p)
      PROVE  beside => beside'
  BY <1>4 DEF WriteRelay, WriteRecord, Read, Check, Rename
<1>5. ASSUME NEW p \in Proc, Unrelay(p) \/ Unrecord(p) \/ Undo(p) \/ Unwrite(p) \/ Fail(p) \/ Die(p)
      PROVE  beside => beside'
  BY <1>5 DEF Unrelay, Unrecord, Undo, Unwrite, Fail, Die
<1>6. ASSUME \/ \E ours \in Entries, valid \in BOOLEAN : Edit(ours, valid)
             \/ \E tag \in Language \cup {Unset} : Pull(tag)
      PROVE  beside => beside'
  BY <1>6 DEF Edit, Pull
<1>7. UNCHANGED hooksVars => (beside => beside')
  BY DEF hooksVars
<1> QED BY <1>2, <1>3, <1>4, <1>5, <1>6, <1>7 DEF HooksNext

Edits(j) == j.op \in {"install", "uninstall", "config"}

\* The job each step goes on with.
Moves(p, j, step) == j \in Job /\ step \in Steps /\ Goto(p, j, step)

\* What each action does to the process that takes it, as a move from its step to another.
LEMMA EveryMove ==
  ASSUME HInv, NEW p \in Proc
  PROVE /\ \A from \in Checkout : Install(p, from) => Moves(p, [Idle EXCEPT !.op = "install", !.from = from], "start")
        /\ Uninstall(p) => Moves(p, [Idle EXCEPT !.op = "uninstall"], "read")
        /\ \A from \in Checkout : Refresh(p, from) =>
             Moves(p, [Idle EXCEPT !.op = "refresh", !.from = from, !.before = Found], "relay")
        /\ Install_Start(p) => \E step \in {"relay", "idle"} : Moves(p, [job[p] EXCEPT !.before = Found], step)
        /\ WriteRelay(p) => Moves(p, job[p], "record")
        /\ WriteRecord(p) => Moves(p, job[p], IF job[p].op = "refresh" THEN "idle" ELSE "read")
        /\ Read(p) => \E step \in {"undo", "idle", "unrelay", "check"} :
             /\ Moves(p, [job[p] EXCEPT !.seen = settings], step)
             /\ step = "undo" => job[p].op = "install"
             /\ step = "unrelay" => job[p].op = "uninstall" /\ settings.ours = "none"
        /\ Check(p) => \E j \in {job[p], [job[p] EXCEPT !.retried = TRUE]}, step \in {"rename", "read", "undo", "idle"} :
             Moves(p, j, step) /\ (step = "undo" => job[p].op = "install")
        /\ Rename(p) => Moves(p, job[p], IF job[p].op = "uninstall" THEN "unrelay" ELSE "idle")
        /\ Unrelay(p) => Moves(p, job[p], "unrecord")
        /\ Unrecord(p) => Moves(p, job[p], "idle")
        /\ Undo(p) => Moves(p, job[p], "unwrite")
        /\ Unwrite(p) => Moves(p, job[p], "idle")
        /\ Fail(p) => \E step \in {"undo", "unwrite", "idle"} :
             /\ Moves(p, job[p], step) /\ (step = "undo" => job[p].op = "install" /\ job[p].at \in InstallSteps)
             /\ step = "unwrite" => job[p].op = "install" /\ job[p].at = "undo"
        /\ Die(p) => Moves(p, job[p], "idle")
<1>a. HooksTypeOK /\ job[p] \in Job /\ FitsAt(job[p]) /\ settings \in Settings
  BY DEF HInv, HooksTypeOK, JobsFit
<1>b. Found \in Files
  BY <1>a DEF Found, Files, HooksTypeOK
<1>1. \A from \in Checkout : Install(p, from) => Moves(p, [Idle EXCEPT !.op = "install", !.from = from], "start")
  BY BeginType DEF Install, Begin, Moves, Steps
<1>2. Uninstall(p) => Moves(p, [Idle EXCEPT !.op = "uninstall"], "read")
  BY BeginType DEF Uninstall, Begin, Moves, Steps
<1>3. \A from \in Checkout : Refresh(p, from) =>
             Moves(p, [Idle EXCEPT !.op = "refresh", !.from = from, !.before = Found], "relay")
  BY <1>b, BeginType DEF Refresh, Begin, Moves, Steps
<1>4. Install_Start(p) => \E step \in {"relay", "idle"} : Moves(p, [job[p] EXCEPT !.before = Found], step)
  BY <1>a, <1>b, LearnType DEF Install_Start, Moves, Steps
<1>5. WriteRelay(p) => Moves(p, job[p], "record")
  BY <1>a DEF WriteRelay, Moves, Steps
<1>6. WriteRecord(p) => Moves(p, job[p], IF job[p].op = "refresh" THEN "idle" ELSE "read")
  BY <1>a DEF WriteRecord, Moves, Steps
<1>7. Read(p) => \E step \in {"undo", "idle", "unrelay", "check"} :
             /\ Moves(p, [job[p] EXCEPT !.seen = settings], step)
             /\ step = "undo" => job[p].op = "install"
             /\ step = "unrelay" => job[p].op = "uninstall" /\ settings.ours = "none"
  <2>1. [job[p] EXCEPT !.seen = settings] \in Job
    BY <1>a, LearnType
  <2>2. Merged(settings, job[p].op = "install") = settings /\ job[p].op = "uninstall" => settings.ours = "none"
    BY <1>a, MergedType
  <2> QED BY <2>1, <2>2 DEF Read, Failed, Done, Moves, Steps
<1>8. Check(p) => \E j \in {job[p], [job[p] EXCEPT !.retried = TRUE]}, step \in {"rename", "read", "undo", "idle"} :
             Moves(p, j, step) /\ (step = "undo" => job[p].op = "install")
  <2>1. [job[p] EXCEPT !.retried = TRUE] \in Job
    BY <1>a, LearnType
  <2> QED BY <1>a, <2>1 DEF Check, Failed, Moves, Steps
<1>9. Rename(p) => Moves(p, job[p], IF job[p].op = "uninstall" THEN "unrelay" ELSE "idle")
  BY <1>a DEF Rename, Done, Moves, Steps
<1>10. Unrelay(p) => Moves(p, job[p], "unrecord")
  BY <1>a DEF Unrelay, Moves, Steps
<1>11. Unrecord(p) => Moves(p, job[p], "idle")
  BY <1>a DEF Unrecord, Moves, Steps
<1>12. Undo(p) => Moves(p, job[p], "unwrite")
  BY <1>a DEF Undo, Moves, Steps
<1>13. Unwrite(p) => Moves(p, job[p], "idle")
  BY <1>a DEF Unwrite, Moves, Steps
<1>14. Fail(p) => \E step \in {"undo", "unwrite", "idle"} :
             /\ Moves(p, job[p], step) /\ (step = "undo" => job[p].op = "install" /\ job[p].at \in InstallSteps)
             /\ step = "unwrite" => job[p].op = "install" /\ job[p].at = "undo"
  BY <1>a DEF Fail, Failed, Moves, Steps, FitsAt, InstallSteps
<1>15. Die(p) => Moves(p, job[p], "idle")
  BY <1>a DEF Die, Moves, Steps
<1> QED BY <1>1, <1>2, <1>3, <1>4, <1>5, <1>6, <1>7, <1>8, <1>9, <1>10, <1>11, <1>12, <1>13, <1>14, <1>15

\* The jobs that edit the settings are one at the most.
LEMMA AloneStep == ASSUME HInv, [HooksNext]_hooksVars, ~beside' PROVE Alone'
<1> USE DEF files, history
<1>a. HooksTypeOK /\ (\A p \in Proc : job[p] \in Job /\ FitsAt(job[p])) /\ ~beside /\ Alone
  BY BesideStays DEF HInv, HooksTypeOK, JobsFit, Undisturbed
<1>b. ~Edits(Idle)
  BY DEF Edits, Idle
\* One that goes on edits the settings only if it did before, or if no other does.
<1>c. ASSUME NEW p \in Proc, NEW j, NEW step, Moves(p, j, step), Edits(j) => Edits(job[p]) \/ Editing = {}
      PROVE Alone'
  <2>1. \A q \in Proc : q # p => job'[q] = job[q]
    BY <1>a, <1>c, GotoFields DEF Moves
  <2>2. Edits(job'[p]) => Edits(j)
    BY <1>a, <1>b, <1>c, GotoFields DEF Moves, Edits
  <2>3. \A q, r \in Proc : Edits(job'[q]) /\ Edits(job'[r]) => q = r
    BY <2>1, <2>2, <1>a, <1>c DEF Alone, Editing, Edits
  <2> QED BY <2>3 DEF Alone, Editing, Edits
<1>1. ASSUME NEW p \in Proc, NEW from \in Checkout, Install(p, from) PROVE Alone'
  BY <1>1, EveryMove, <1>a, <1>c DEF Install
<1>2. ASSUME NEW p \in Proc, Uninstall(p) PROVE Alone'
  BY <1>2, EveryMove, <1>a, <1>c DEF Uninstall
<1>3. ASSUME NEW p \in Proc, NEW from \in Checkout, NEW layer \in Layer, NEW tag \in Language \cup {Unset},
             NEW sync \in BOOLEAN, ConfigWrite(p, from, layer, tag, sync)
      PROVE Alone'
  <2> DEFINE w == [layer |-> layer, was |-> lang[layer]]
             j == [Idle EXCEPT !.op = "config", !.from = from, !.write = w]
  <2>1. w \in [layer: Layer, was: OrUnset(Language)]
    BY <1>a DEF HooksTypeOK
  <2>2. Moves(p, j, IF sync THEN "sync" ELSE "idle")
    BY <2>1, <1>3, BeginType DEF ConfigWrite, Begin, Moves, Steps
  <2> HIDE DEF j
  <2> QED BY <2>2, <1>3, <1>a, <1>c DEF ConfigWrite
<1>4. ASSUME NEW p \in Proc, NEW directory \in BOOLEAN, Sync(p, directory) PROVE Alone'
  <2>1. PICK j \in {job[p], [job[p] EXCEPT !.op = "install"], [job[p] EXCEPT !.op = "uninstall"]},
             step \in {"start", "read", "idle"} : Goto(p, j, step)
    BY <1>4 DEF Sync
  <2>2. j \in Job /\ step \in Steps
    BY <1>a, LearnType DEF Ops, Steps
  <2>3. Edits(job[p])
    BY <1>4, <1>a DEF Sync, FitsAt, Edits
  <2> QED BY ONLY <2>1, <2>2, <2>3, <1>c, p \in Proc DEF Moves
<1>5. ASSUME NEW p \in Proc, Install_Start(p) PROVE Alone'
  <2>1. Edits(job[p])
    BY <1>5, <1>a DEF Install_Start, FitsAt, Edits
  <2> QED BY <2>1, <1>5, EveryMove, <1>c
<1>6. ASSUME NEW p \in Proc, NEW from \in Checkout, Refresh(p, from) PROVE Alone'
  <2>1. ~Edits([Idle EXCEPT !.op = "refresh", !.from = from, !.before = Found])
    BY DEF Edits, Idle
  <2> QED BY <2>1, <1>6, EveryMove, <1>c
<1>7. ASSUME NEW p \in Proc, \/ WriteRelay(p) \/ WriteRecord(p) \/ Rename(p) \/ Unrelay(p) \/ Unrecord(p)
                             \/ Undo(p) \/ Unwrite(p) \/ Fail(p) \/ Die(p)
      PROVE Alone'
  <2>1. PICK step : Moves(p, job[p], step)
    BY <1>7, EveryMove
  <2> QED BY <2>1, <1>c
<1>8. ASSUME NEW p \in Proc, Read(p) \/ Check(p) PROVE Alone'
  <2>1. Edits(job[p])
    BY <1>8, <1>a DEF Read, Check, FitsAt, EditSteps, Edits
  <2> QED BY <2>1, <1>8, EveryMove, <1>c
<1>9. ASSUME UNCHANGED job PROVE Alone'
  BY <1>9, <1>a DEF Alone, Editing
<1> QED BY <1>1, <1>2, <1>3, <1>4, <1>5, <1>6, <1>7, <1>8, <1>9 DEF HooksNext, hooksVars, Edit, Pull

\* The relay is there when entries run it, or are about to.
LEMMA RelayStep ==
  ASSUME HInv, [HooksNext]_hooksVars, ~beside'
  PROVE (Named' => relay') /\ \A q \in Proc : RelayFits(job[q])'
<1> USE DEF files, history
<1> DEFINE Goal == (Named' => relay') /\ \A q \in Proc : RelayFits(job[q])'
<1>a. /\ HooksTypeOK /\ (\A p \in Proc : job[p] \in Job /\ FitsAt(job[p]))
      /\ Alone /\ (Named => relay) /\ \A p \in Proc : RelayFits(job[p])
  BY BesideStays DEF HInv, HooksTypeOK, JobsFit, Undisturbed
<1>b. \A p, q \in Proc : p # q /\ Edits(job[p]) => ~Edits(job[q])
  BY <1>a DEF Alone, Editing, Edits
<1>c. RelayFits(Idle) /\ RelayFits(Idle)'
  BY DEF RelayFits, Idle
\* A process that goes on, with the entries and the relay as they are.
<1>d. ASSUME NEW p \in Proc, NEW j \in Job, NEW step \in Steps, Goto(p, j, step), UNCHANGED <<settings, relay>>,
             j.op = "install" /\ step \in {"record", "read", "check", "rename"} => relay,
             j.op = "install" /\ step \in InstallSteps /\ Named => j.before.relay,
             step = "unrelay" => ~Named
      PROVE Goal
  <2>1. /\ \A q \in Proc : q # p => job'[q] = job[q]
        /\ step = "idle" => job'[p] = Idle
        /\ step # "idle" => job'[p].at = step /\ job'[p].op = j.op /\ job'[p].before = j.before
    BY <1>a, <1>d, GotoFields
  <2>2. RelayFits(job[p])'
    BY <2>1, <1>c, <1>d DEF RelayFits, Named
  <2>3. \A q \in Proc : q # p => RelayFits(job[q])'
    BY <2>1, <1>a, <1>d DEF RelayFits, Named
  <2> QED BY <2>2, <2>3, <1>a, <1>d DEF Named
<1>1. ASSUME NEW p \in Proc, NEW from \in Checkout, Install(p, from) PROVE Goal
  <2> DEFINE j == [Idle EXCEPT !.op = "install", !.from = from]
  <2>1. Moves(p, j, "start")
    BY <1>1, EveryMove
  <2> HIDE DEF j
  <2> QED BY <2>1, <1>1, <1>d DEF Install, Moves, InstallSteps
<1>2. ASSUME NEW p \in Proc, Uninstall(p) PROVE Goal
  <2> DEFINE j == [Idle EXCEPT !.op = "uninstall"]
  <2>1. Moves(p, j, "read") /\ j.op = "uninstall"
    BY <1>2, EveryMove DEF Idle
  <2> HIDE DEF j
  <2> QED BY <2>1, <1>2, <1>d DEF Uninstall, Moves
<1>3. ASSUME NEW p \in Proc, NEW from \in Checkout, NEW layer \in Layer, NEW tag \in Language \cup {Unset},
             NEW sync \in BOOLEAN, ConfigWrite(p, from, layer, tag, sync)
      PROVE Goal
  <2> DEFINE w == [layer |-> layer, was |-> lang[layer]]
             j == [Idle EXCEPT !.op = "config", !.from = from, !.write = w]
             step == IF sync THEN "sync" ELSE "idle"
  <2>1. w \in [layer: Layer, was: OrUnset(Language)]
    BY <1>a DEF HooksTypeOK
  <2>2. j \in Job /\ step \in Steps /\ Goto(p, j, step)
    BY <2>1, <1>3, BeginType DEF ConfigWrite, Begin, Steps
  <2>3. j.op = "config" /\ j.from = from /\ j.write = w
    BY DEF Idle
  <2> HIDE DEF j
  <2>4. step \in {"sync", "idle"}
    OBVIOUS
  <2> HIDE DEF step
  <2> QED BY <2>2, <2>3, <2>4, <1>3, <1>d DEF ConfigWrite
<1>4. ASSUME NEW p \in Proc, NEW directory \in BOOLEAN, Sync(p, directory) PROVE Goal
  <2>1. PICK op \in {"install", "uninstall"}, step \in {"start", "read", "idle"} :
          /\ Goto(p, [job[p] EXCEPT !.op = op], step)
          /\ step # "idle" => (op = "install" <=> step = "start")
          /\ step = "start" => SyncInstalls(job[p])
    <3>1. CASE SyncInstalls(job[p]) /\ directory /\ Goto(p, [job[p] EXCEPT !.op = "install"], "start")
      BY <3>1
    <3>2. CASE SyncRemoves(job[p]) /\ Goto(p, [job[p] EXCEPT !.op = "uninstall"], "read")
      BY <3>2
    <3>3. CASE Goto(p, job[p], "idle")
      BY <3>3 DEF Goto
    <3> QED BY <3>1, <3>2, <3>3, <1>4 DEF Sync
  <2> DEFINE j == [job[p] EXCEPT !.op = op]
  <2>2. j \in Job /\ step \in Steps /\ Goto(p, j, step)
    BY <2>1, <1>a, LearnType DEF Ops, Steps
  <2>3. j.op = op /\ j.from = job[p].from /\ j.write = job[p].write /\ j.before = job[p].before
    BY <1>a DEF Job
  <2> HIDE DEF j
  <2> QED BY <2>1, <2>2, <2>3, <1>4, <1>d DEF Sync, InstallSteps
<1>5. ASSUME NEW p \in Proc, Install_Start(p) PROVE Goal
  <2> DEFINE j == [job[p] EXCEPT !.before = Found]
  <2>1. PICK step \in {"relay", "idle"} : Moves(p, j, step)
    BY <1>5, EveryMove
  <2>2. j.before.relay = relay
    BY <1>a DEF Job, Found
  <2> HIDE DEF j
  <2> QED BY <2>1, <2>2, <1>5, <1>a, <1>d DEF Install_Start, Moves
<1>6. ASSUME NEW p \in Proc, NEW from \in Checkout, Refresh(p, from) PROVE Goal
  <2> DEFINE j == [Idle EXCEPT !.op = "refresh", !.from = from, !.before = Found]
  <2>1. Moves(p, j, "relay") /\ j.op = "refresh"
    BY <1>6, EveryMove DEF Idle
  <2> HIDE DEF j
  <2> QED BY <2>1, <1>6, <1>d DEF Refresh, Moves
<1>7. ASSUME NEW p \in Proc, WriteRelay(p) PROVE Goal
  <2>1. Moves(p, job[p], "record")
    BY <1>7, EveryMove
  <2>2. /\ \A q \in Proc : q # p => job'[q] = job[q]
        /\ job'[p].at = "record" /\ job'[p].op = job[p].op /\ job'[p].before = job[p].before
    BY <2>1, <1>a, GotoFields DEF Moves
  <2>3. relay' /\ job[p].at = "relay" /\ UNCHANGED settings
    BY <1>7 DEF WriteRelay
  <2>4. RelayFits(job[p])'
    BY <2>2, <2>3, <1>a DEF RelayFits, Named, InstallSteps
  <2>5. \A q \in Proc : q # p => RelayFits(job[q])'
    BY <2>2, <2>3, <1>a DEF RelayFits, Named
  <2> QED BY <2>3, <2>4, <2>5
<1>8. ASSUME NEW p \in Proc, WriteRecord(p) PROVE Goal
  <2>1. PICK step \in {"idle", "read"} : Moves(p, job[p], step)
    BY <1>8, EveryMove
  <2> QED BY <2>1, <1>8, <1>a, <1>d DEF WriteRecord, Moves, RelayFits, InstallSteps
<1>9. ASSUME NEW p \in Proc, Read(p) PROVE Goal
  <2> DEFINE j == [job[p] EXCEPT !.seen = settings]
  <2>1. PICK step \in {"undo", "idle", "unrelay", "check"} :
             Moves(p, j, step) /\ (step = "unrelay" => settings.ours = "none")
    BY <1>9, EveryMove
  <2>2. j.op = job[p].op /\ j.before = job[p].before
    BY <1>a DEF Job
  <2> HIDE DEF j
  <2> QED BY <2>1, <2>2, <1>9, <1>a, <1>d DEF Read, Moves, RelayFits, InstallSteps, Named
<1>10. ASSUME NEW p \in Proc, Check(p) PROVE Goal
  <2>1. PICK j \in {job[p], [job[p] EXCEPT !.retried = TRUE]}, step \in {"rename", "read", "undo", "idle"} :
             Moves(p, j, step)
    BY <1>10, EveryMove
  <2>2. j.op = job[p].op /\ j.before = job[p].before
    BY <2>1, <1>a DEF Job
  <2> QED BY <2>1, <2>2, <1>10, <1>a, <1>d DEF Check, Moves, RelayFits, InstallSteps
<1>11. ASSUME NEW p \in Proc, Rename(p) PROVE Goal
  <2>1. Moves(p, job[p], IF job[p].op = "uninstall" THEN "unrelay" ELSE "idle")
    BY <1>11, EveryMove
  <2>2. /\ \A q \in Proc : q # p => job'[q] = job[q]
        /\ job[p].op # "uninstall" => job'[p] = Idle
        /\ job[p].op = "uninstall" => job'[p].at = "unrelay"
    BY <2>1, <1>a, GotoFields DEF Moves
  <2>3. /\ settings'.ours = IF job[p].op = "install" THEN "all" ELSE "none"
        /\ UNCHANGED relay /\ job[p].at = "rename"
    BY <1>11, <1>a, MergedType DEF Rename, FitsAt
  <2>4. Edits(job[p])
    BY <2>3, <1>a DEF FitsAt, EditSteps, Edits
  <2>5. job[p].op = "install" => relay
    BY <2>3, <1>a DEF RelayFits
  <2>6. RelayFits(job[p])'
    BY <2>2, <2>3, <1>c, <1>a DEF RelayFits, Named, InstallSteps
  <2>7. \A q \in Proc : q # p => RelayFits(job[q])'
    <3> SUFFICES ASSUME NEW q \in Proc, q # p PROVE RelayFits(job[q])'
      OBVIOUS
    <3>1. ~Edits(job[q]) /\ job[q].at # "unrelay"
      BY <2>4, <1>a, <1>b DEF FitsAt, Edits
    <3> QED BY <3>1, <2>2 DEF RelayFits, Edits
  <2> QED BY <2>3, <2>5, <2>6, <2>7 DEF Named
<1>12. ASSUME NEW p \in Proc, Unrelay(p) \/ Undo(p) PROVE Goal
  <2>1. PICK step \in {"unrecord", "unwrite"} : Moves(p, job[p], step)
    BY <1>12, EveryMove
  <2>2. (\A q \in Proc : q # p => job'[q] = job[q]) /\ job'[p].at = step
    BY <2>1, <1>a, GotoFields DEF Moves
  <2>3. UNCHANGED settings /\ (Named => relay') /\ Edits(job[p])
    BY <1>12, <1>a DEF Unrelay, Undo, RelayFits, InstallSteps, FitsAt, Edits
  <2>4. RelayFits(job[p])'
    BY <2>1, <2>2 DEF RelayFits, InstallSteps
  <2>5. \A q \in Proc : q # p => RelayFits(job[q])'
    <3> SUFFICES ASSUME NEW q \in Proc, q # p PROVE RelayFits(job[q])'
      OBVIOUS
    <3>1. ~Edits(job[q]) /\ job[q].at # "unrelay"
      BY <2>3, <1>a, <1>b DEF FitsAt, Edits
    <3> QED BY <3>1, <2>2 DEF RelayFits, Edits
  <2> QED BY <2>3, <2>4, <2>5 DEF Named
<1>13. ASSUME NEW p \in Proc, Unrecord(p) \/ Unwrite(p) \/ Die(p) PROVE Goal
  <2>1. Moves(p, job[p], "idle")
    BY <1>13, EveryMove
  <2> QED BY <2>1, <1>13, <1>a, <1>d DEF Unrecord, Unwrite, Die, Moves, InstallSteps
<1>14. ASSUME NEW p \in Proc, Fail(p) PROVE Goal
  <2>1. PICK step \in {"undo", "unwrite", "idle"} :
             Moves(p, job[p], step) /\ (step = "undo" => job[p].op = "install" /\ job[p].at \in InstallSteps)
    BY <1>14, EveryMove
  <2> QED BY <2>1, <1>14, <1>a, <1>d DEF Fail, Moves, RelayFits, InstallSteps
<1>15. ASSUME NEW ours \in Entries, NEW valid \in BOOLEAN, Edit(ours, valid) PROVE Goal
  <2>1. UNCHANGED <<job, relay>> /\ (Named' => Named)
    BY <1>15 DEF Edit, Named, Entries
  <2> QED BY <2>1, <1>a DEF RelayFits
<1>16. ASSUME UNCHANGED <<settings, relay, job>> PROVE Goal
  BY <1>16, <1>a DEF RelayFits, Named
<1> QED BY <1>1, <1>2, <1>3, <1>4, <1>5, <1>6, <1>7, <1>8, <1>9, <1>10, <1>11, <1>12, <1>13, <1>14,
           <1>15, <1>16 DEF HooksNext, hooksVars, Pull

\* The user asked for the entries there are, or that are about to be.
LEMMA AskedStep ==
  ASSUME HInv, [HooksNext]_hooksVars, ~beside'
  PROVE (settings.ours # "none" => wanted)' /\ \A q \in Proc : AskedFits(job[q])'
<1> USE DEF files, history
<1> DEFINE Goal == (settings.ours # "none" => wanted)' /\ \A q \in Proc : AskedFits(job[q])'
<1>a. /\ HooksTypeOK /\ (\A p \in Proc : job[p] \in Job /\ FitsAt(job[p]))
      /\ Alone /\ (settings.ours # "none" => wanted) /\ \A p \in Proc : AskedFits(job[p])
  BY BesideStays DEF HInv, HooksTypeOK, JobsFit, Undisturbed
<1>b. \A p, q \in Proc : p # q /\ Edits(job[p]) => ~Edits(job[q])
  BY <1>a DEF Alone, Editing, Edits
<1>c. AskedFits(Idle) /\ AskedFits(Idle)'
  BY DEF AskedFits, Idle
\* A process that goes on, with the entries and what was asked for as they are.
<1>d. ASSUME NEW p \in Proc, NEW j \in Job, NEW step \in Steps, Goto(p, j, step), UNCHANGED <<lang, wanted>>,
             settings'.ours = settings.ours, j.op = "install" /\ step # "idle" => wanted, step # "sync"
      PROVE Goal
  <2>1. /\ \A q \in Proc : q # p => job'[q] = job[q]
        /\ step = "idle" => job'[p] = Idle
        /\ step # "idle" => job'[p].at = step /\ job'[p].op = j.op
    BY <1>a, <1>d, GotoFields
  <2>2. AskedFits(job[p])'
    BY <2>1, <1>c, <1>d DEF AskedFits
  <2>3. \A q \in Proc : q # p => AskedFits(job[q])'
    BY <2>1, <1>a, <1>d DEF AskedFits
  <2> QED BY <2>2, <2>3, <1>a, <1>d
\* A process that edits the settings is the only one that asks for anything.
<1>e. ASSUME NEW p \in Proc, Edits(job[p]) \/ Editing = {}, NEW q \in Proc, q # p, job'[q] = job[q]
      PROVE AskedFits(job[q])'
  <2>1. ~Edits(job[q]) /\ job[q].at # "sync"
    BY <1>e, <1>a, <1>b DEF FitsAt, Edits, Editing
  <2> QED BY <2>1, <1>e DEF AskedFits, Edits
<1>1. ASSUME NEW p \in Proc, NEW from \in Checkout, Install(p, from) PROVE Goal
  <2> DEFINE j == [Idle EXCEPT !.op = "install", !.from = from]
  <2>1. Moves(p, j, "start")
    BY <1>1, EveryMove
  <2>2. (\A q \in Proc : q # p => job'[q] = job[q]) /\ job'[p].at = "start"
    BY <2>1, <1>a, GotoFields DEF Moves
  <2> QED BY <2>2, <1>1, <1>a, <1>e DEF Install, AskedFits
<1>2. ASSUME NEW p \in Proc, Uninstall(p) PROVE Goal
  <2> DEFINE j == [Idle EXCEPT !.op = "uninstall"]
  <2>1. Moves(p, j, "read") /\ j.op = "uninstall"
    BY <1>2, EveryMove DEF Idle
  <2> HIDE DEF j
  <2> QED BY <2>1, <1>2, <1>d DEF Uninstall, Moves
<1>3. ASSUME NEW p \in Proc, NEW from \in Checkout, NEW layer \in Layer, NEW tag \in Language \cup {Unset},
             NEW sync \in BOOLEAN, ConfigWrite(p, from, layer, tag, sync)
      PROVE Goal
  <2> DEFINE w == [layer |-> layer, was |-> lang[layer]]
             j == [Idle EXCEPT !.op = "config", !.from = from, !.write = w]
             step == IF sync THEN "sync" ELSE "idle"
  <2>1. w \in [layer: Layer, was: OrUnset(Language)]
    BY <1>a DEF HooksTypeOK
  <2>2. j \in Job /\ step \in Steps /\ Goto(p, j, step)
    BY <2>1, <1>3, BeginType DEF ConfigWrite, Begin, Steps
  <2>3. j.op = "config" /\ j.from = from /\ j.write = w
    BY DEF Idle
  <2>4. /\ \A q \in Proc : q # p => job'[q] = job[q]
        /\ step = "idle" => job'[p] = Idle
        /\ step # "idle" => job'[p].at = step /\ job'[p].op = j.op /\ job'[p].write = w
    <3> HIDE DEF j, w, step
    <3> QED BY <2>2, <2>3, <1>a, GotoFields
  <2>5. Editing = {} /\ UNCHANGED settings /\ (wanted => wanted')
    BY <1>3, <1>a DEF ConfigWrite, HooksTypeOK
  <2>6. AskedFits(job[p])'
    <3>1. CASE ~sync
      BY <3>1, <2>4, <1>c
    <3>2. CASE sync
      <4>1. job'[p].at = "sync" /\ job'[p].op = "config" /\ job'[p].write = w
        BY <3>2, <2>3, <2>4
      <4>2. lang'[layer] = tag /\ (lang[layer] = Unset /\ tag # Unset => wanted')
        BY <3>2, <1>3, <1>a DEF ConfigWrite, HooksTypeOK
      <4>3. w.layer = layer /\ w.was = lang[layer]
        OBVIOUS
      <4> QED BY <4>1, <4>2, <4>3 DEF AskedFits
    <3> QED BY <3>1, <3>2
  <2> QED BY <2>4, <2>5, <2>6, <1>a, <1>e
<1>4. ASSUME NEW p \in Proc, NEW directory \in BOOLEAN, Sync(p, directory) PROVE Goal
  <2>1. PICK op \in {"install", "uninstall"}, step \in {"start", "read", "idle"} :
          /\ Goto(p, [job[p] EXCEPT !.op = op], step)
          /\ step # "idle" => (op = "install" <=> step = "start")
          /\ step = "start" => SyncInstalls(job[p])
    <3>1. CASE SyncInstalls(job[p]) /\ directory /\ Goto(p, [job[p] EXCEPT !.op = "install"], "start")
      BY <3>1
    <3>2. CASE SyncRemoves(job[p]) /\ Goto(p, [job[p] EXCEPT !.op = "uninstall"], "read")
      BY <3>2
    <3>3. CASE Goto(p, job[p], "idle")
      BY <3>3 DEF Goto
    <3> QED BY <3>1, <3>2, <3>3, <1>4 DEF Sync
  <2> DEFINE j == [job[p] EXCEPT !.op = op]
  <2>2. j \in Job /\ step \in Steps /\ Goto(p, j, step)
    BY <2>1, <1>a, LearnType DEF Ops, Steps
  <2>3. j.op = op /\ j.from = job[p].from /\ j.write = job[p].write /\ j.before = job[p].before
    BY <1>a DEF Job
  <2>4. step = "start" => wanted
    BY <2>1, <1>4, <1>a DEF Sync, SyncInstalls, Status, AskedFits
  <2> HIDE DEF j
  <2> QED BY <2>1, <2>2, <2>3, <2>4, <1>4, <1>d DEF Sync
<1>5. ASSUME NEW p \in Proc, Install_Start(p) PROVE Goal
  <2> DEFINE j == [job[p] EXCEPT !.before = Found]
  <2>1. PICK step \in {"relay", "idle"} : Moves(p, j, step)
    BY <1>5, EveryMove
  <2>2. j.op = job[p].op
    BY <1>a DEF Job
  <2> HIDE DEF j
  <2> QED BY <2>1, <2>2, <1>5, <1>a, <1>d DEF Install_Start, Moves, AskedFits
<1>6. ASSUME NEW p \in Proc, NEW from \in Checkout, Refresh(p, from) PROVE Goal
  <2> DEFINE j == [Idle EXCEPT !.op = "refresh", !.from = from, !.before = Found]
  <2>1. Moves(p, j, "relay") /\ j.op = "refresh"
    BY <1>6, EveryMove DEF Idle
  <2> HIDE DEF j
  <2> QED BY <2>1, <1>6, <1>d DEF Refresh, Moves
<1>7. ASSUME NEW p \in Proc, \/ WriteRelay(p) \/ WriteRecord(p) \/ Unrelay(p) \/ Unrecord(p)
                             \/ Undo(p) \/ Unwrite(p) \/ Fail(p) \/ Die(p)
      PROVE Goal
  <2>1. PICK step \in {"record", "idle", "read", "unrecord", "unwrite", "undo"} : Moves(p, job[p], step)
    BY <1>7, EveryMove
  <2>2. UNCHANGED <<settings, lang, wanted>>
    BY <1>7 DEF WriteRelay, WriteRecord, Unrelay, Unrecord, Undo, Unwrite, Fail, Die
  <2> QED BY <2>1, <2>2, <1>a, <1>d DEF Moves, AskedFits
<1>8. ASSUME NEW p \in Proc, Read(p) PROVE Goal
  <2> DEFINE j == [job[p] EXCEPT !.seen = settings]
  <2>1. PICK step \in {"undo", "idle", "unrelay", "check"} : Moves(p, j, step)
    BY <1>8, EveryMove
  <2>2. j.op = job[p].op
    BY <1>a DEF Job
  <2>3. /\ \A q \in Proc : q # p => job'[q] = job[q]
        /\ step = "idle" => job'[p] = Idle
        /\ step # "idle" => job'[p].at = step /\ job'[p].op = j.op
    <3> HIDE DEF j
    <3> QED BY <2>1, <1>a, GotoFields DEF Moves
  <2>4. Edits(job[p]) /\ UNCHANGED settings /\ wanted' = (wanted /\ (job[p].op = "uninstall" => settings.ours # "none"))
    BY <1>8, <1>a DEF Read, FitsAt, EditSteps, Edits
  <2>5. AskedFits(job[p])'
    BY <2>2, <2>3, <2>4, <1>a, <1>c DEF AskedFits
  <2> QED BY <2>3, <2>4, <2>5, <1>a, <1>e
<1>9. ASSUME NEW p \in Proc, Check(p) PROVE Goal
  <2>1. PICK j \in {job[p], [job[p] EXCEPT !.retried = TRUE]}, step \in {"rename", "read", "undo", "idle"} :
             Moves(p, j, step)
    BY <1>9, EveryMove
  <2>2. j.op = job[p].op
    BY <2>1, <1>a DEF Job
  <2> QED BY <2>1, <2>2, <1>9, <1>a, <1>d DEF Check, Moves, AskedFits
<1>10. ASSUME NEW p \in Proc, Rename(p) PROVE Goal
  <2>1. Moves(p, job[p], IF job[p].op = "uninstall" THEN "unrelay" ELSE "idle")
    BY <1>10, EveryMove
  <2>2. /\ \A q \in Proc : q # p => job'[q] = job[q]
        /\ job[p].op # "uninstall" => job'[p] = Idle
        /\ job[p].op = "uninstall" => job'[p].at = "unrelay" /\ job'[p].op = "uninstall"
    BY <2>1, <1>a, GotoFields DEF Moves
  <2>3. /\ settings'.ours = IF job[p].op = "install" THEN "all" ELSE "none"
        /\ job[p].at = "rename" /\ wanted' = (wanted /\ job[p].op = "install")
    BY <1>10, <1>a, MergedType DEF Rename, FitsAt
  <2>4. Edits(job[p])
    BY <2>3, <1>a DEF FitsAt, EditSteps, Edits
  <2>5. job[p].op = "install" => wanted'
    BY <2>3, <1>a DEF AskedFits
  <2>6. AskedFits(job[p])'
    BY <2>2, <1>c DEF AskedFits
  <2> QED BY <2>2, <2>3, <2>4, <2>5, <2>6, <1>e
<1>11. ASSUME NEW ours \in Entries, NEW valid \in BOOLEAN, Edit(ours, valid) PROVE Goal
  <2>1. UNCHANGED <<job, lang>> /\ wanted' = (wanted /\ (ours # "none" \/ Editing # {}))
    BY <1>11 DEF Edit
  <2>2. settings'.ours # "none" => wanted'
    BY <2>1, <1>11, <1>a DEF Edit, HooksTypeOK
  <2>3. ASSUME NEW q \in Proc PROVE AskedFits(job[q])'
    <3>1. CASE Edits(job[q])
      BY <3>1, <2>1, <1>a DEF AskedFits, Edits, Editing
    <3>2. CASE ~Edits(job[q])
      BY <3>2, <2>1, <1>a DEF AskedFits, Edits, FitsAt
    <3> QED BY <3>1, <3>2
  <2> QED BY <2>2, <2>3
<1>12. ASSUME NEW tag \in Language \cup {Unset}, Pull(tag) PROVE Goal
  <2>1. UNCHANGED <<job, settings, wanted>> /\ \A p \in Proc : job[p].at # "sync"
    BY <1>12, <1>a DEF Pull, HooksTypeOK
  <2> QED BY <2>1, <1>a DEF AskedFits
<1>13. ASSUME UNCHANGED hooksVars PROVE Goal
  BY <1>13, <1>a DEF hooksVars, AskedFits
<1> QED BY <1>1, <1>2, <1>3, <1>4, <1>5, <1>6, <1>7, <1>8, <1>9, <1>10, <1>11, <1>12, <1>13 DEF HooksNext

\* The record names a checkout to be trusted, and so does every one that is about to be written.
LEMMA ChosenStep ==
  ASSUME HInv, [HooksNext]_hooksVars, ~beside'
  PROVE (record \in Trusted \cup {Unset})' /\ \A q \in Proc : ChosenFits(job[q])'
<1> USE DEF files, history
<1> DEFINE Goal == (record \in Trusted \cup {Unset})' /\ \A q \in Proc : ChosenFits(job[q])'
<1>a. /\ HooksTypeOK /\ (\A p \in Proc : job[p] \in Job /\ FitsAt(job[p]))
      /\ Alone /\ record \in Trusted \cup {Unset} /\ \A p \in Proc : ChosenFits(job[p])
  BY BesideStays DEF HInv, HooksTypeOK, JobsFit, Undisturbed
<1>b. \A p, q \in Proc : p # q /\ Edits(job[p]) => ~Edits(job[q])
  BY <1>a DEF Alone, Editing, Edits
<1>c. ChosenFits(Idle) /\ ChosenFits(Idle)'
  BY DEF ChosenFits, Idle
\* A process that goes on, with what the record names to be trusted.
<1>d. ASSUME NEW p \in Proc, NEW j \in Job, NEW step \in Steps, Goto(p, j, step), UNCHANGED <<lang, chosen>>,
             record' \in Trusted \cup {Unset}, step \in {"start", "relay", "record"} => j.from \in Trusted,
             j.op = "install" /\ step \notin {"idle", "start"} => j.before.record \in Trusted \cup {Unset},
             step # "sync"
      PROVE Goal
  <2>1. /\ \A q \in Proc : q # p => job'[q] = job[q]
        /\ step = "idle" => job'[p] = Idle
        /\ step # "idle" => /\ job'[p].at = step /\ job'[p].op = j.op /\ job'[p].from = j.from
                            /\ job'[p].before = j.before
    BY <1>a, <1>d, GotoFields
  <2>2. Trusted' = Trusted
    BY <1>d DEF Trusted
  <2>3. ChosenFits(job[p])'
    BY <2>1, <2>2, <1>c, <1>d DEF ChosenFits
  <2>4. \A q \in Proc : q # p => ChosenFits(job[q])'
    BY <2>1, <2>2, <1>a, <1>d DEF ChosenFits
  <2> QED BY <2>2, <2>3, <2>4, <1>d
\* What was trusted stays so, for a process that stays where it is.
<1>e. ASSUME NEW q \in Proc, job'[q] = job[q], Trusted \subseteq Trusted', lang' = lang \/ job[q].at # "sync"
      PROVE ChosenFits(job[q])'
  BY <1>a, <1>e DEF ChosenFits
<1>1. ASSUME NEW p \in Proc, NEW from \in Checkout, Install(p, from) PROVE Goal
  <2> DEFINE j == [Idle EXCEPT !.op = "install", !.from = from]
  <2>1. Moves(p, j, "start") /\ j.from = from
    BY <1>1, EveryMove DEF Idle
  <2>2. (\A q \in Proc : q # p => job'[q] = job[q]) /\ job'[p].at = "start" /\ job'[p].from = from
    <3>1. j \in Job /\ "start" \in Steps /\ Goto(p, j, "start")
      BY <2>1 DEF Moves
    <3> HIDE DEF j
    <3> QED BY <2>1, <3>1, <1>a, GotoFields
  <2>3. Trusted \subseteq Trusted' /\ from \in Trusted' /\ UNCHANGED <<lang, record>>
    BY <1>1 DEF Install, Trusted
  <2>4. ChosenFits(job[p])'
    BY <2>2, <2>3 DEF ChosenFits
  <2> QED BY <2>2, <2>3, <2>4, <1>a, <1>e
<1>2. ASSUME NEW p \in Proc, Uninstall(p) PROVE Goal
  <2> DEFINE j == [Idle EXCEPT !.op = "uninstall"]
  <2>1. Moves(p, j, "read") /\ j.op = "uninstall"
    BY <1>2, EveryMove DEF Idle
  <2> HIDE DEF j
  <2> QED BY <2>1, <1>2, <1>a, <1>d DEF Uninstall, Moves
<1>3. ASSUME NEW p \in Proc, NEW from \in Checkout, NEW layer \in Layer, NEW tag \in Language \cup {Unset},
             NEW sync \in BOOLEAN, ConfigWrite(p, from, layer, tag, sync)
      PROVE Goal
  <2> DEFINE w == [layer |-> layer, was |-> lang[layer]]
             j == [Idle EXCEPT !.op = "config", !.from = from, !.write = w]
             step == IF sync THEN "sync" ELSE "idle"
  <2>1. w \in [layer: Layer, was: OrUnset(Language)]
    BY <1>a DEF HooksTypeOK
  <2>2. j \in Job /\ step \in Steps /\ Goto(p, j, step)
    BY <2>1, <1>3, BeginType DEF ConfigWrite, Begin, Steps
  <2>3. j.op = "config" /\ j.from = from /\ j.write = w
    BY DEF Idle
  <2>4. /\ \A q \in Proc : q # p => job'[q] = job[q]
        /\ step = "idle" => job'[p] = Idle
        /\ step # "idle" => /\ job'[p].at = step /\ job'[p].op = j.op /\ job'[p].from = from
                            /\ job'[p].write = w
    <3> HIDE DEF j, w, step
    <3> QED BY <2>2, <2>3, <1>a, GotoFields
  <2>5. Editing = {} /\ UNCHANGED record /\ Trusted \subseteq Trusted'
    BY <1>3, <1>a DEF ConfigWrite, HooksTypeOK, Trusted
  <2>6. ChosenFits(job[p])'
    <3>1. CASE ~sync
      BY <3>1, <2>4, <1>c
    <3>2. CASE sync
      <4>1. job'[p].at = "sync" /\ job'[p].op = "config" /\ job'[p].write = w /\ job'[p].from = from
        BY <3>2, <2>3, <2>4
      <4>2. lang'[layer] = tag /\ (tag # Unset => from \in Trusted')
        BY <3>2, <1>3, <1>a DEF ConfigWrite, HooksTypeOK, Trusted
      <4>3. w.layer = layer
        OBVIOUS
      <4> QED BY <4>1, <4>2, <4>3 DEF ChosenFits
    <3> QED BY <3>1, <3>2
  <2>7. \A q \in Proc : job[q].at # "sync"
    BY <2>5, <1>a DEF FitsAt, Editing
  <2> QED BY <2>4, <2>5, <2>6, <2>7, <1>a, <1>e
<1>4. ASSUME NEW p \in Proc, NEW directory \in BOOLEAN, Sync(p, directory) PROVE Goal
  <2>1. PICK op \in {"install", "uninstall"}, step \in {"start", "read", "idle"} :
          /\ Goto(p, [job[p] EXCEPT !.op = op], step)
          /\ step # "idle" => (op = "install" <=> step = "start")
          /\ step = "start" => SyncInstalls(job[p])
    <3>1. CASE SyncInstalls(job[p]) /\ directory /\ Goto(p, [job[p] EXCEPT !.op = "install"], "start")
      BY <3>1
    <3>2. CASE SyncRemoves(job[p]) /\ Goto(p, [job[p] EXCEPT !.op = "uninstall"], "read")
      BY <3>2
    <3>3. CASE Goto(p, job[p], "idle")
      BY <3>3 DEF Goto
    <3> QED BY <3>1, <3>2, <3>3, <1>4 DEF Sync
  <2> DEFINE j == [job[p] EXCEPT !.op = op]
  <2>2. j \in Job /\ step \in Steps /\ Goto(p, j, step)
    BY <2>1, <1>a, LearnType DEF Ops, Steps
  <2>3. j.op = op /\ j.from = job[p].from /\ j.write = job[p].write /\ j.before = job[p].before
    BY <1>a DEF Job
  <2>4. step = "start" => job[p].from \in Trusted
    BY <2>1, <1>4, <1>a DEF Sync, SyncInstalls, ChosenFits
  <2> HIDE DEF j
  <2> QED BY <2>1, <2>2, <2>3, <2>4, <1>4, <1>a, <1>d DEF Sync
<1>5. ASSUME NEW p \in Proc, Install_Start(p) PROVE Goal
  <2> DEFINE j == [job[p] EXCEPT !.before = Found]
  <2>1. PICK step \in {"relay", "idle"} : Moves(p, j, step)
    BY <1>5, EveryMove
  <2>2. j.from = job[p].from /\ j.before.record = record
    BY <1>a DEF Job, Found
  <2> HIDE DEF j
  <2> QED BY <2>1, <2>2, <1>5, <1>a, <1>d DEF Install_Start, Moves, ChosenFits
<1>6. ASSUME NEW p \in Proc, NEW from \in Checkout, Refresh(p, from) PROVE Goal
  <2> DEFINE j == [Idle EXCEPT !.op = "refresh", !.from = from, !.before = Found]
  <2>1. Moves(p, j, "relay") /\ j.op = "refresh" /\ j.from = from
    BY <1>6, EveryMove DEF Idle
  <2>2. from \in Trusted
    BY <1>6, <1>a, HooksConstantsOK DEF Refresh, Trusted
  <2> HIDE DEF j
  <2> QED BY <2>1, <2>2, <1>6, <1>a, <1>d DEF Refresh, Moves
<1>7. ASSUME NEW p \in Proc, WriteRelay(p) PROVE Goal
  <2>1. Moves(p, job[p], "record")
    BY <1>7, EveryMove
  <2> QED BY <2>1, <1>7, <1>a, <1>d DEF WriteRelay, Moves, ChosenFits
<1>8. ASSUME NEW p \in Proc, WriteRecord(p) PROVE Goal
  <2>1. PICK step \in {"idle", "read"} : Moves(p, job[p], step)
    BY <1>8, EveryMove
  <2> QED BY <2>1, <1>8, <1>a, <1>d DEF WriteRecord, Moves, ChosenFits
<1>9. ASSUME NEW p \in Proc, Read(p) PROVE Goal
  <2> DEFINE j == [job[p] EXCEPT !.seen = settings]
  <2>1. PICK step \in {"undo", "idle", "unrelay", "check"} : Moves(p, j, step)
    BY <1>9, EveryMove
  <2>2. j.op = job[p].op /\ j.before = job[p].before
    BY <1>a DEF Job
  <2> HIDE DEF j
  <2> QED BY <2>1, <2>2, <1>9, <1>a, <1>d DEF Read, Moves, ChosenFits
<1>10. ASSUME NEW p \in Proc, Check(p) PROVE Goal
  <2>1. PICK j \in {job[p], [job[p] EXCEPT !.retried = TRUE]}, step \in {"rename", "read", "undo", "idle"} :
             Moves(p, j, step)
    BY <1>10, EveryMove
  <2>2. j.op = job[p].op /\ j.before = job[p].before
    BY <2>1, <1>a DEF Job
  <2> QED BY <2>1, <2>2, <1>10, <1>a, <1>d DEF Check, Moves, ChosenFits
<1>11. ASSUME NEW p \in Proc, Rename(p) \/ Unrelay(p) \/ Undo(p) PROVE Goal
  <2>1. PICK step \in {"unrelay", "idle", "unrecord", "unwrite"} : Moves(p, job[p], step)
    BY <1>11, EveryMove
  <2>2. UNCHANGED <<record, lang, chosen>> /\ job[p].at # "start"
    BY <1>11 DEF Rename, Unrelay, Undo
  <2>3. job[p].op = "install" /\ step # "idle" => job[p].before.record \in Trusted \cup {Unset}
    BY <2>2, <1>a DEF ChosenFits
  <2> QED BY <2>1, <2>2, <2>3, <1>a, <1>d DEF Moves
<1>12. ASSUME NEW p \in Proc, Unrecord(p) \/ Unwrite(p) \/ Die(p) PROVE Goal
  <2>1. Moves(p, job[p], "idle")
    BY <1>12, EveryMove
  <2>2. record' \in Trusted \cup {Unset}
    BY <1>12, <1>a DEF Unrecord, Unwrite, Die, ChosenFits, FitsAt
  <2> QED BY <2>1, <2>2, <1>12, <1>d DEF Unrecord, Unwrite, Die, Moves
<1>13. ASSUME NEW p \in Proc, Fail(p) PROVE Goal
  <2>1. PICK step \in {"undo", "unwrite", "idle"} : Moves(p, job[p], step)
    BY <1>13, EveryMove
  <2> QED BY <2>1, <1>13, <1>a, <1>d DEF Fail, Moves, ChosenFits
<1>14. ASSUME NEW tag \in Language \cup {Unset}, Pull(tag) PROVE Goal
  <2>1. UNCHANGED <<job, record, chosen>> /\ \A p \in Proc : job[p].at # "sync"
    BY <1>14, <1>a DEF Pull, HooksTypeOK
  <2> QED BY <2>1, <1>a DEF ChosenFits, Trusted
<1>15. ASSUME UNCHANGED <<job, record, chosen, lang>> PROVE Goal
  BY <1>15, <1>a DEF ChosenFits, Trusted
<1> QED BY <1>1, <1>2, <1>3, <1>4, <1>5, <1>6, <1>7, <1>8, <1>9, <1>10, <1>11, <1>12, <1>13, <1>14,
           <1>15 DEF HooksNext, hooksVars, Edit

-----------------------------------------------------------------------------
(* The invariant holds. *)

\* The invariant holds to begin with.
LEMMA HInvInit == ASSUME HooksInit PROVE HInv
<1>1. HooksTypeOK
  <2>1. /\ settings \in Settings
        /\ relay \in BOOLEAN /\ record \in OrUnset(Checkout) /\ chosen \subseteq Checkout
    <3>1. settings \in Settings
      BY DEF HooksInit, Settings, Entries
    <3>2. relay \in BOOLEAN
      BY DEF HooksInit
    <3>3. record \in OrUnset(Checkout)
      BY DEF HooksInit, OrUnset
    <3>4. chosen \subseteq Checkout
      BY <3>3 DEF HooksInit, OrUnset
    <3> QED BY <3>1, <3>2, <3>3, <3>4
  <2>2. job \in [Proc -> Job]
    BY DEF HooksInit, Idle, Job, Steps, Ops, OrUnset
  <2>3. lang \in [Layer -> OrUnset(Language)]
    BY HooksConstantsOK DEF HooksInit, OrUnset
  <2>4. edits \in 0 .. MaxEdits /\ commands \in 0 .. MaxCalls
    BY HooksConstantsOK DEF HooksInit
  <2>5. late \in BOOLEAN /\ beside \in BOOLEAN /\ wanted \in BOOLEAN
    BY DEF HooksInit
  <2> QED BY <2>1, <2>2, <2>3, <2>4, <2>5 DEF HooksTypeOK
<1>2. JobsFit
  BY DEF HooksInit, JobsFit, FitsAt, Idle, EditSteps
<1>3. TextKept
  BY DEF HooksInit, TextKept, EditsKept, Idle
<1>4. Undisturbed
  <2>1. \A p \in Proc : RelayFits(job[p]) /\ AskedFits(job[p]) /\ ChosenFits(job[p])
    BY DEF HooksInit, Idle, RelayFits, AskedFits, ChosenFits, InstallSteps
  <2>2. Editing = {} /\ (Named => relay) /\ (settings.ours # "none" => wanted)
    BY DEF HooksInit, Editing, Idle, Named
  <2>3. record \in Trusted \cup {Unset}
    BY DEF HooksInit, Trusted
  <2> QED BY <2>1, <2>2, <2>3 DEF Undisturbed, Alone
<1> QED BY <1>1, <1>2, <1>3, <1>4 DEF HInv

\* Every step keeps the invariant.
LEMMA HInvStep == ASSUME HInv, [HooksNext]_hooksVars PROVE HInv'
<1>1. HooksTypeOK' /\ JobsFit'
  BY TypeStep
<1>2. TextKept'
  BY TextStep
<1>3. ~beside' => Undisturbed'
  BY AloneStep, RelayStep, AskedStep, ChosenStep DEF Undisturbed
<1> QED BY <1>1, <1>2, <1>3 DEF HInv

\* The invariant holds in every behaviour.
LEMMA HInvInductive == HooksSpec => []HInv
BY HInvInit, HInvStep, PTL DEF HooksSpec

\* Every variable has its type (HooksInit, HooksNext).
THEOREM HooksTypeCorrect == HooksSpec => []HooksTypeOK
<1>1. HInv => HooksTypeOK
  BY DEF HInv
<1> QED BY <1>1, HInvInductive, PTL

\* No entry runs a relay that is not there (claude_hooks.install, uninstall, _put_back, refresh).
THEOREM RelayIsThere == HooksSpec => []RelayThere
<1>1. HInv => RelayThere
  BY DEF HInv, Undisturbed, RelayThere, Named
<1> QED BY <1>1, HInvInductive, PTL

\* The settings stay the user's: the text, whether our entries are there, and whose they are
\* (claude_hooks._edit, sync, refresh).
THEOREM SettingsStayTheUsers == HooksSpec => []SettingsAreTheUsers
<1>1. HInv => SettingsAreTheUsers
  BY DEF HInv, TextKept, Undisturbed, SettingsAreTheUsers, OnlyAskedFor, RunsChosen, Trusted
<1> QED BY <1>1, HInvInductive, PTL

-----------------------------------------------------------------------------
(* Seats: least numbers, and the two functions defined by recursion. *)

\* A set of numbers that is not empty has a least.
LEMMA LeastOf == ASSUME NEW S \in SUBSET Nat, S # {} PROVE \E m \in S : \A k \in S : m <= k
<1> DEFINE less == {p \in Nat \X Nat : p[1] < p[2]}
<1>1. IsWellFoundedOn(less, Nat)
  <2>1. less = OpToRel(<, Nat)
    BY DEF OpToRel
  <2> QED
    BY <2>1, NatLessThanWellFounded
<1>2. PICK m \in S : \A k \in S : <<k, m>> \notin less
  <2> HIDE DEF less
  <2> QED
    BY <1>1, WFMin
<1>3. ASSUME NEW k \in S
      PROVE  m <= k
  <2>1. ~(k < m)
    BY <1>2
  <2> QED
    BY <2>1
<1> QED
  BY <1>3

\* The panels a fold goes through.
IsFold(f, base, extras, m) ==
  f = [n \in 0 .. m |-> IF n = 0 THEN base ELSE Join(f[n - 1], extras[n], IdsIn(extras))]

\* There is such a function.
LEMMA FoldExists ==
  ASSUME NEW base, NEW extras, NEW N \in Nat
  PROVE  \E f : IsFold(f, base, extras, N)
<1> DEFINE Bad == {m \in 0 .. N : ~ \E f : IsFold(f, base, extras, m)}
<1> SUFFICES Bad = {}
  OBVIOUS
<1> SUFFICES ASSUME Bad # {} PROVE FALSE
  OBVIOUS
<1>1. PICK m \in Bad : \A k \in Bad : m <= k
  <2>1. Bad \in SUBSET Nat
    OBVIOUS
  <2> HIDE DEF Bad
  <2> QED
    BY <2>1, LeastOf
<1>2. m # 0
  <2> DEFINE f == [n \in 0 .. 0 |-> base]
  <2>1. IsFold(f, base, extras, 0)
    BY DEF IsFold
  <2> QED
    BY <2>1, <1>1
<1>3. m - 1 \in 0 .. N /\ m - 1 \notin Bad
  BY <1>1, <1>2
<1>4. PICK g : IsFold(g, base, extras, m - 1)
  BY <1>3
<1> DEFINE f == [n \in 0 .. m |-> IF n = m THEN Join(g[m - 1], extras[m], IdsIn(extras)) ELSE g[n]]
<1>5. ASSUME NEW n \in 0 .. m
      PROVE  f[n] = IF n = 0 THEN base ELSE Join(f[n - 1], extras[n], IdsIn(extras))
  <2>1. CASE n = m
    <3>1. f[m - 1] = g[m - 1] /\ f[n] = Join(g[m - 1], extras[m], IdsIn(extras))
      BY <2>1, <1>1, <1>2
    <3> QED
      BY <3>1, <2>1, <1>2
  <2>2. CASE n # m
    <3>1. n \in 0 .. m - 1 /\ f[n] = g[n] /\ (n # 0 => f[n - 1] = g[n - 1])
      BY <2>2, <1>1
    <3>2. g[n] = IF n = 0 THEN base ELSE Join(g[n - 1], extras[n], IdsIn(extras))
      BY <3>1, <1>4 DEF IsFold
    <3> QED
      BY <3>1, <3>2
  <2> QED
    BY <2>1, <2>2
<1>6. IsFold(f, base, extras, m)
  BY <1>5 DEF IsFold
<1> QED
  BY <1>1, <1>6

\* And a fold ends with the last of its panels.
LEMMA FoldIs ==
  ASSUME NEW base, NEW extras, Len(extras) \in Nat
  PROVE  \E f : IsFold(f, base, extras, Len(extras)) /\ Fold(base, extras) = f[Len(extras)]
<1> DEFINE f == CHOOSE f : f = [n \in 0 .. Len(extras) |->
                  IF n = 0 THEN base ELSE Join(f[n - 1], extras[n], IdsIn(extras))]
<1>1. \E g : g = [n \in 0 .. Len(extras) |->
                  IF n = 0 THEN base ELSE Join(g[n - 1], extras[n], IdsIn(extras))]
  <2>1. PICK g : IsFold(g, base, extras, Len(extras))
    BY FoldExists
  <2> QED
    BY <2>1 DEF IsFold
<1>2. f = [n \in 0 .. Len(extras) |->
                  IF n = 0 THEN base ELSE Join(f[n - 1], extras[n], IdsIn(extras))]
  BY <1>1
<1>3. Fold(base, extras) = f[Len(extras)]
  BY DEF Fold
<1> QED
  BY <1>2, <1>3 DEF IsFold


\* The sequence of picked seats, likewise.
IsPick(f, panel, places, m) ==
  f = [n \in 0 .. m |->
        IF n = 0 THEN <<>> ELSE IF n \in places THEN Append(f[n - 1], panel[n]) ELSE f[n - 1]]

LEMMA PickExists ==
  ASSUME NEW panel, NEW places, NEW N \in Nat
  PROVE  \E f : IsPick(f, panel, places, N)
<1> DEFINE Bad == {m \in 0 .. N : ~ \E f : IsPick(f, panel, places, m)}
           Next(s, n) == IF n \in places THEN Append(s, panel[n]) ELSE s
<1> SUFFICES Bad = {}
  OBVIOUS
<1> SUFFICES ASSUME Bad # {} PROVE FALSE
  OBVIOUS
<1>1. PICK m \in Bad : \A k \in Bad : m <= k
  <2>1. Bad \in SUBSET Nat
    OBVIOUS
  <2> HIDE DEF Bad
  <2> QED
    BY <2>1, LeastOf
<1>2. m # 0
  <2> DEFINE f == [n \in 0 .. 0 |-> <<>>]
  <2>1. IsPick(f, panel, places, 0)
    BY DEF IsPick
  <2> QED
    BY <2>1, <1>1
<1>3. m - 1 \in 0 .. N /\ m - 1 \notin Bad
  BY <1>1, <1>2
<1>4. PICK g : IsPick(g, panel, places, m - 1)
  BY <1>3
<1>5. g = [n \in 0 .. m - 1 |-> IF n = 0 THEN <<>> ELSE Next(g[n - 1], n)]
  BY <1>4 DEF IsPick
<1> DEFINE f == [n \in 0 .. m |-> IF n = m THEN Next(g[m - 1], m) ELSE g[n]]
<1>6. f = [n \in 0 .. m |-> IF n = 0 THEN <<>> ELSE Next(f[n - 1], n)]
  <2> HIDE DEF Next
  <2>1. ASSUME NEW n \in 0 .. m
        PROVE  f[n] = IF n = 0 THEN <<>> ELSE Next(f[n - 1], n)
    <3>1. CASE n = m
      <4>1. f[m - 1] = g[m - 1] /\ f[n] = Next(g[m - 1], m)
        BY <3>1, <1>1, <1>2
      <4> QED
        BY <4>1, <3>1, <1>2
    <3>2. CASE n # m
      <4>1. n \in 0 .. m - 1 /\ f[n] = g[n] /\ (n # 0 => f[n - 1] = g[n - 1])
        BY <3>2, <1>1
      <4>2. g[n] = IF n = 0 THEN <<>> ELSE Next(g[n - 1], n)
        BY <4>1, <1>5
      <4> QED
        BY <4>1, <4>2
    <3> QED
      BY <3>1, <3>2
  <2> QED
    BY <2>1
<1>7. IsPick(f, panel, places, m)
  BY <1>6 DEF IsPick
<1> QED
  BY <1>1, <1>7

\* Whatever is picked of a panel is a panel of its seats.
LEMMA PickedType ==
  ASSUME NEW S, NEW panel \in Seq(S), NEW places
  PROVE  Picked(panel, places) \in Seq(S)
<1>0. Len(panel) \in Nat
  OBVIOUS
<1> DEFINE f == CHOOSE f : f = [n \in 0 .. Len(panel) |->
                  IF n = 0 THEN <<>> ELSE IF n \in places THEN Append(f[n - 1], panel[n]) ELSE f[n - 1]]
<1>1. \E g : g = [n \in 0 .. Len(panel) |->
                  IF n = 0 THEN <<>> ELSE IF n \in places THEN Append(g[n - 1], panel[n]) ELSE g[n - 1]]
  <2>1. PICK g : IsPick(g, panel, places, Len(panel))
    <3> HIDE DEF f
    <3> QED
      BY <1>0, PickExists
  <2> QED
    BY <2>1 DEF IsPick
<1>2. f = [n \in 0 .. Len(panel) |->
                  IF n = 0 THEN <<>> ELSE IF n \in places THEN Append(f[n - 1], panel[n]) ELSE f[n - 1]]
  BY <1>1
<1>3. Picked(panel, places) = f[Len(panel)]
  BY DEF Picked
<1>4. Len(panel) \in Nat /\ \A n \in 1 .. Len(panel) : panel[n] \in S
  OBVIOUS
<1> HIDE DEF f
<1> DEFINE Bad == {m \in 0 .. Len(panel) : f[m] \notin Seq(S)}
<1>5. Bad = {}
  <2> SUFFICES ASSUME Bad # {} PROVE FALSE
    OBVIOUS
  <2>1. PICK m \in Bad : \A k \in Bad : m <= k
    <3>1. Bad \in SUBSET Nat
      BY <1>4
    <3> HIDE DEF Bad
    <3> QED
      BY <3>1, LeastOf
  <2>2. m # 0
    BY <2>1, <1>2, <1>4
  <2>3. f[m - 1] \in Seq(S)
    BY <2>1, <2>2, <1>4
  <2>4. f[m] \in {Append(f[m - 1], panel[m]), f[m - 1]}
    BY <2>1, <2>2, <1>2, <1>4
  <2>5. m \in 1 .. Len(panel) /\ f[m] \notin Seq(S)
    BY <2>1, <2>2
  <2>6. Append(f[m - 1], panel[m]) \in Seq(S)
    BY <2>3, <2>5, <1>4
  <2> QED
    BY <2>3, <2>4, <2>5, <2>6
<1> QED
  BY <1>3, <1>4, <1>5

-----------------------------------------------------------------------------
(* A fold keeps its panel and its extras, but for what an extra is called. *)

Origin == {"global", "project", "default"}
PanelKey == {"list", "extra", "dlist", "dextra"}
Entry == [seat: Seat, layer: Origin, key: PanelKey, at: Nat \ {0}]

\* A suggested id is a new one.
LEMMA SuggestNew ==
  ASSUME NEW taken \in SUBSET (Nat \ {0}), IsFiniteSet(taken)
  PROVE  Suggest(taken) \in Nat \ {0} /\ Suggest(taken) \notin taken
<1> DEFINE c == Cardinality(taken)
           free == {n \in 1 .. c + 1 : n \notin taken}
<1>1. c \in Nat
  BY FS_CardinalityType
<1>2. free # {}
  <2> SUFFICES ASSUME 1 .. c + 1 \subseteq taken PROVE FALSE
    OBVIOUS
  <2>1. Cardinality(1 .. c + 1) <= c
    BY FS_Subset
  <2>2. Cardinality(1 .. c + 1) = c + 1
    BY <1>1, FS_Interval
  <2> QED
    BY <1>1, <2>1, <2>2
<1>3. PICK m \in free : \A k \in free : m <= k
  <2>1. free \in SUBSET Nat
    BY <1>1
  <2> HIDE DEF free
  <2> QED
    BY <1>2, <2>1, LeastOf
<1>4. m \in 1 .. c + 1 /\ m \notin taken /\ \A k \in 1 .. m - 1 : k \in taken
  BY <1>1, <1>3
<1>5. Suggest(taken) \in 1 .. c + 1 /\ Suggest(taken) \notin taken
  BY <1>4 DEF Suggest
<1> QED
  BY <1>1, <1>5

\* The ids of a panel.
LEMMA IdsFinite ==
  ASSUME NEW panel \in Seq(Entry)
  PROVE  IsFiniteSet(IdsIn(panel)) /\ IdsIn(panel) \subseteq Nat \ {0}
<1> DEFINE N == Len(panel)
           f == [i \in 1 .. N |-> panel[i].seat.id]
<1>1. N \in Nat /\ DOMAIN panel = 1 .. N /\ \A i \in 1 .. N : panel[i] \in Entry
  OBVIOUS
<1>2. IdsIn(panel) = {f[i] : i \in 1 .. N}
  BY <1>1 DEF IdsIn
<1>3. f \in Surjection(1 .. N, IdsIn(panel))
  BY <1>2 DEF Surjection
<1>4. IsFiniteSet(1 .. N)
  BY <1>1, FS_Interval
<1>5. IsFiniteSet(IdsIn(panel))
  BY <1>3, <1>4, FS_Surjection
<1>6. IdsIn(panel) \subseteq Nat \ {0}
  BY <1>1 DEF IdsIn, Entry, Seat
<1> QED
  BY <1>5, <1>6

\* What is told apart of two entries besides the id.
Renamed(e, x) ==
  /\ e.layer = x.layer /\ e.key = x.key /\ e.at = x.at
  /\ e.seat.who = x.seat.who /\ e.seat.warned = x.seat.warned /\ e.seat.cond = x.seat.cond

\* An extra joins a panel under an id nobody there has.
LEMMA JoinSound ==
  ASSUME NEW panel \in Seq(Entry), NEW extra \in Entry,
         NEW reserved \in SUBSET (Nat \ {0}), IsFiniteSet(reserved)
  PROVE  \E e \in Entry : /\ Join(panel, extra, reserved) = Append(panel, e)
                          /\ Renamed(e, extra) /\ e.seat.id \notin IdsIn(panel)
<1>1. CASE extra.seat.id \notin IdsIn(panel)
  BY <1>1 DEF Join, Renamed
<1>2. CASE extra.seat.id \in IdsIn(panel)
  <2> DEFINE taken == IdsIn(panel) \cup reserved
  <2>1. IsFiniteSet(taken) /\ taken \subseteq Nat \ {0}
    BY IdsFinite, FS_Union
  <2>2. PICK n : n = Suggest(taken)
    OBVIOUS
  <2>3. n \in Nat \ {0} /\ n \notin IdsIn(panel)
    BY <2>1, <2>2, SuggestNew
  <2>4. PICK seat : seat = [extra.seat EXCEPT !.id = n]
    OBVIOUS
  <2>5. extra.seat \in Seat
    BY DEF Entry
  <2>6. seat \in Seat /\ seat.id = n /\ seat.who = extra.seat.who /\ seat.warned = extra.seat.warned
          /\ seat.cond = extra.seat.cond
    BY <2>3, <2>4, <2>5 DEF Seat
  <2>7. PICK e : e = [extra EXCEPT !.seat = seat]
    OBVIOUS
  <2>8. e \in Entry /\ e.seat = seat /\ e.layer = extra.layer /\ e.key = extra.key /\ e.at = extra.at
    BY <2>6, <2>7 DEF Entry
  <2>9. e = [extra EXCEPT !.seat.id = n]
    BY <2>4, <2>7
  <2>10. Join(panel, extra, reserved) = Append(panel, e)
    BY <1>2, <2>2, <2>9 DEF Join
  <2> QED
    BY <2>3, <2>6, <2>8, <2>10 DEF Renamed
<1> QED
  BY <1>1, <1>2

\* No two of a panel run under one id.
PanelOnce(panel) == \A i, j \in DOMAIN panel : panel[i].seat.id = panel[j].seat.id => i = j

\* A panel with the first n extras.
Joined(panel, base, extras, n) ==
  /\ panel \in Seq(Entry) /\ Len(panel) = Len(base) + n
  /\ \A i \in 1 .. Len(base) : panel[i] = base[i]
  /\ \A i \in 1 .. n : Renamed(panel[Len(base) + i], extras[i])
  /\ PanelOnce(base) => PanelOnce(panel)

LEMMA JoinedOn ==
  ASSUME NEW base \in Seq(Entry), NEW extras \in Seq(Entry), NEW panel,
         NEW n \in 0 .. Len(extras) - 1, Joined(panel, base, extras, n)
  PROVE  Joined(Join(panel, extras[n + 1], IdsIn(extras)), base, extras, n + 1)
<1>1. extras[n + 1] \in Entry /\ panel \in Seq(Entry) /\ Len(base) \in Nat /\ n \in Nat
  BY DEF Joined
<1>2. PICK e \in Entry : /\ Join(panel, extras[n + 1], IdsIn(extras)) = Append(panel, e)
                         /\ Renamed(e, extras[n + 1]) /\ e.seat.id \notin IdsIn(panel)
  BY <1>1, IdsFinite, JoinSound
<1>3. PICK next : next = Append(panel, e)
  OBVIOUS
<1>4. /\ next \in Seq(Entry) /\ Len(next) = Len(base) + n + 1
      /\ \A i \in 1 .. Len(base) + n : next[i] = panel[i]
      /\ next[Len(base) + n + 1] = e
  BY <1>1, <1>3, AppendProperties DEF Joined
<1>5. \A i \in 1 .. Len(base) : next[i] = base[i]
  BY <1>1, <1>4 DEF Joined
<1>6. \A i \in 1 .. n + 1 : Renamed(next[Len(base) + i], extras[i])
  <2> SUFFICES ASSUME NEW i \in 1 .. n + 1 PROVE Renamed(next[Len(base) + i], extras[i])
    OBVIOUS
  <2>1. CASE i = n + 1
    BY <2>1, <1>1, <1>2, <1>4
  <2>2. CASE i # n + 1
    <3>1. i \in 1 .. n /\ next[Len(base) + i] = panel[Len(base) + i]
      BY <2>2, <1>1, <1>4
    <3> QED
      BY <3>1 DEF Joined
  <2> QED
    BY <2>1, <2>2
<1>7. ASSUME PanelOnce(base)
      PROVE  PanelOnce(next)
  <2>1. PanelOnce(panel) /\ DOMAIN panel = 1 .. Len(base) + n /\ DOMAIN next = 1 .. Len(base) + n + 1
    BY <1>1, <1>4, <1>7 DEF Joined
  <2>2. \A i \in 1 .. Len(base) + n : next[i].seat.id # e.seat.id
    BY <1>2, <1>4, <2>1 DEF IdsIn
  <2>3. \A i, j \in 1 .. Len(base) + n : next[i].seat.id = next[j].seat.id => i = j
    BY <1>4, <2>1 DEF PanelOnce
  <2>4. PICK top : top = Len(base) + n
    OBVIOUS
  <2>5. \A i \in DOMAIN next : i \in 1 .. top \/ i = top + 1
    BY <1>1, <2>1, <2>4
  <2>6. next[top + 1] = e
    BY <1>4, <2>4
  <2> QED
    BY <2>2, <2>3, <2>4, <2>5, <2>6 DEF PanelOnce
<1>8. Len(next) = Len(base) + (n + 1)
  BY <1>1, <1>4
<1>9. Joined(next, base, extras, n + 1)
  BY <1>4, <1>5, <1>6, <1>7, <1>8 DEF Joined
<1> QED
  BY <1>2, <1>3, <1>9

\* fold_extras: so it is with all of them.
LEMMA FoldSound ==
  ASSUME NEW base \in Seq(Entry), NEW extras \in Seq(Entry)
  PROVE  Joined(Fold(base, extras), base, extras, Len(extras))
<1>0. Len(extras) \in Nat /\ Len(base) \in Nat
  OBVIOUS
<1>1. PICK f : IsFold(f, base, extras, Len(extras)) /\ Fold(base, extras) = f[Len(extras)]
  BY <1>0, FoldIs
<1>2. \A n \in 0 .. Len(extras) :
        f[n] = IF n = 0 THEN base ELSE Join(f[n - 1], extras[n], IdsIn(extras))
  BY <1>1 DEF IsFold
<1> DEFINE Bad == {n \in 0 .. Len(extras) : ~Joined(f[n], base, extras, n)}
<1>3. Bad = {}
  <2> SUFFICES ASSUME Bad # {} PROVE FALSE
    OBVIOUS
  <2>1. PICK m \in Bad : \A k \in Bad : m <= k
    <3>1. Bad \in SUBSET Nat
      BY <1>0
    <3> HIDE DEF Bad
    <3> QED
      BY <3>1, LeastOf
  <2>2. m # 0
    <3>1. f[0] = base
      BY <1>0, <1>2
    <3>2. Joined(base, base, extras, 0)
      BY DEF Joined
    <3> QED
      BY <2>1, <3>1, <3>2
  <2>3. m - 1 \in 0 .. Len(extras) - 1 /\ Joined(f[m - 1], base, extras, m - 1)
    BY <2>1, <2>2, <1>0
  <2>4. f[m] = Join(f[m - 1], extras[(m - 1) + 1], IdsIn(extras)) /\ (m - 1) + 1 = m
    BY <2>1, <2>2, <1>0, <1>2
  <2>5. Joined(f[m], base, extras, m)
    BY <2>3, <2>4, JoinedOn
  <2> QED
    BY <2>1, <2>5
<1> QED
  BY <1>0, <1>1, <1>3

-----------------------------------------------------------------------------
(* The panels that a fit and two files compose to. *)

\* Somebody who always runs.
Has(panel) == \E i \in DOMAIN panel : ~panel[i].seat.cond

\* A fold has somebody where its panel or an extra is one; and is empty where both are.
LEMMA FoldHas ==
  ASSUME NEW base \in Seq(Entry), NEW extras \in Seq(Entry)
  PROVE  /\ Fold(base, extras) \in Seq(Entry)
         /\ Has(Fold(base, extras)) <=> Has(base) \/ Has(extras)
         /\ Fold(base, extras) = <<>> <=> base = <<>> /\ extras = <<>>
         /\ PanelOnce(base) => PanelOnce(Fold(base, extras))
         /\ DOMAIN base \subseteq DOMAIN Fold(base, extras)
         /\ \A i \in DOMAIN base : Fold(base, extras)[i] = base[i]
         /\ \A i \in DOMAIN Fold(base, extras) :
              i \in DOMAIN base \/ \E j \in DOMAIN extras : Renamed(Fold(base, extras)[i], extras[j])
<1>1. PICK panel : panel = Fold(base, extras)
  OBVIOUS
<1>2. PICK b \in Nat : b = Len(base)
  OBVIOUS
<1>3. PICK x \in Nat : x = Len(extras)
  OBVIOUS
<1>4. /\ panel \in Seq(Entry) /\ DOMAIN panel = 1 .. b + x /\ DOMAIN base = 1 .. b /\ DOMAIN extras = 1 .. x
      /\ \A i \in 1 .. b : panel[i] = base[i]
      /\ \A i \in 1 .. x : Renamed(panel[b + i], extras[i])
      /\ PanelOnce(base) => PanelOnce(panel)
  <2>1. Joined(panel, base, extras, x)
    BY <1>1, <1>3, FoldSound
  <2>2. panel \in Seq(Entry) /\ Len(panel) = b + x
    BY <2>1, <1>2 DEF Joined
  <2> QED
    BY <2>1, <2>2, <1>2, <1>3 DEF Joined
<1>5. ASSUME NEW i \in 1 .. b + x, i \notin 1 .. b
      PROVE  \E j \in 1 .. x : i = b + j
  <2>1. i - b \in 1 .. x /\ i = b + (i - b)
    BY <1>5
  <2> QED
    BY <2>1
<1>6. \A i \in 1 .. b : i \in 1 .. b + x
  OBVIOUS
<1>7. \A i \in 1 .. x : b + i \in 1 .. b + x
  OBVIOUS
<1>8. Has(panel) <=> Has(base) \/ Has(extras)
  <2>1. ASSUME NEW i \in 1 .. x
        PROVE  panel[b + i].seat.cond = extras[i].seat.cond
    BY <1>4 DEF Renamed
  <2>2. ASSUME NEW i \in 1 .. b + x, ~panel[i].seat.cond
        PROVE  Has(base) \/ Has(extras)
    BY <2>1, <2>2, <1>4, <1>5 DEF Has
  <2>3. Has(base) => Has(panel)
    BY <1>4, <1>6 DEF Has
  <2>4. Has(extras) => Has(panel)
    BY <2>1, <1>4, <1>7 DEF Has
  <2> QED
    BY <2>2, <2>3, <2>4, <1>4 DEF Has
<1>9. panel = <<>> <=> base = <<>> /\ extras = <<>>
  <2>1. Len(panel) = b + x
    BY <1>4
  <2> QED
    BY <1>2, <1>3, <1>4, <2>1
<1>10. \A i \in DOMAIN panel : i \in DOMAIN base \/ \E j \in DOMAIN extras : Renamed(panel[i], extras[j])
  BY <1>4, <1>5
<1> QED
  BY <1>1, <1>4, <1>8, <1>9, <1>10

\* What a file lists, as entries.
LEMMA WrittenIs ==
  ASSUME NEW seats \in SeatList, NEW layer \in Origin, NEW key \in PanelKey
  PROVE  /\ Written(seats, layer, key) \in Seq(Entry)
         /\ seats = None => Written(seats, layer, key) = <<>>
         /\ seats # None =>
              /\ seats \in Seq(Seat) /\ DOMAIN Written(seats, layer, key) = DOMAIN seats
              /\ \A i \in DOMAIN seats :
                   Written(seats, layer, key)[i] = [seat |-> seats[i], layer |-> layer, key |-> key, at |-> i]
<1>1. CASE seats = None
  BY <1>1 DEF Written
<1>2. CASE seats # None
  <2>1. seats \in Seq(Seat)
    BY <1>2 DEF SeatList
  <2>2. PICK w : w = Written(seats, layer, key)
    OBVIOUS
  <2>3. w = [i \in 1 .. Len(seats) |-> [seat |-> seats[i], layer |-> layer, key |-> key, at |-> i]]
    BY <1>2, <2>1, <2>2 DEF Written
  <2>4. Len(seats) \in Nat /\ \A i \in 1 .. Len(seats) :
          [seat |-> seats[i], layer |-> layer, key |-> key, at |-> i] \in Entry
    BY <2>1 DEF Entry
  <2>5. w \in Seq(Entry)
    BY <2>3, <2>4
  <2> QED
    BY <1>2, <2>1, <2>2, <2>3, <2>5
<1> QED
  BY <1>1, <1>2

\* A list whose ids differ makes a panel whose ids differ, and the other way round.
LEMMA WrittenOnce ==
  ASSUME NEW seats \in SeatList, NEW layer \in Origin, NEW key \in PanelKey
  PROVE  PanelOnce(Written(seats, layer, key)) <=> (seats # None => IdsOnce(seats))
<1>1. CASE seats = None
  BY <1>1, WrittenIs DEF PanelOnce
<1>2. CASE seats # None
  <2>1. PICK w : w = Written(seats, layer, key)
    OBVIOUS
  <2>2. /\ DOMAIN w = DOMAIN seats
        /\ \A i \in DOMAIN seats : w[i] = [seat |-> seats[i], layer |-> layer, key |-> key, at |-> i]
    BY <1>2, <2>1, WrittenIs
  <2>3. \A i \in DOMAIN seats : w[i].seat = seats[i]
    BY <2>2
  <2> QED
    BY <1>2, <2>1, <2>2, <2>3 DEF PanelOnce, IdsOnce
<1> QED
  BY <1>1, <1>2

LEMMA WithoutWhenIs ==
  ASSUME NEW panel \in Seq(Entry)
  PROVE  /\ WithoutWhen(panel) \in Seq(Entry)
         /\ WithoutWhen(panel) = <<>> <=> panel = <<>>
         /\ panel # <<>> => Has(WithoutWhen(panel))
         /\ PanelOnce(panel) => PanelOnce(WithoutWhen(panel))
         /\ DOMAIN WithoutWhen(panel) = DOMAIN panel
         /\ \A i \in DOMAIN panel : WithoutWhen(panel)[i].key = panel[i].key
<1>1. PICK w : w = WithoutWhen(panel)
  OBVIOUS
<1>2. PICK n \in Nat : n = Len(panel)
  OBVIOUS
<1>3. DOMAIN panel = 1 .. n /\ \A i \in 1 .. n : panel[i] \in Entry
  BY <1>2
<1>4. w = [i \in 1 .. n |-> [panel[i] EXCEPT !.seat.cond = FALSE]]
  BY <1>1, <1>3 DEF WithoutWhen
<1>5. ASSUME NEW i \in 1 .. n
      PROVE  w[i] \in Entry /\ ~w[i].seat.cond /\ w[i].seat.id = panel[i].seat.id /\ w[i].key = panel[i].key
  <2>1. PICK seat : seat = [panel[i].seat EXCEPT !.cond = FALSE]
    OBVIOUS
  <2>2. w[i] = [panel[i] EXCEPT !.seat = seat]
    BY <1>4, <2>1
  <2>3. panel[i] \in Entry /\ panel[i].seat \in Seat
    BY <1>3 DEF Entry
  <2>4. seat \in Seat /\ ~seat.cond /\ seat.id = panel[i].seat.id
    BY <2>1, <2>3 DEF Seat
  <2> QED
    BY <2>2, <2>3, <2>4 DEF Entry
<1>6. w \in Seq(Entry) /\ Len(w) = n /\ DOMAIN w = 1 .. n
  BY <1>4, <1>5
<1>7. w = <<>> <=> panel = <<>>
  BY <1>2, <1>6
<1>8. panel # <<>> => 1 \in 1 .. n
  BY <1>2
<1> QED
  BY <1>1, <1>3, <1>5, <1>6, <1>7, <1>8 DEF Has, PanelOnce

\* Somebody in one of two panels is in both of them together.
LEMMA HasConcat ==
  ASSUME NEW a \in Seq(Entry), NEW b \in Seq(Entry)
  PROVE  /\ a \o b \in Seq(Entry)
         /\ Has(a \o b) <=> Has(a) \/ Has(b)
         /\ a \o b = <<>> <=> a = <<>> /\ b = <<>>
         /\ \A i \in DOMAIN (a \o b) :
              \/ i \in DOMAIN a /\ (a \o b)[i] = a[i]
              \/ \E j \in DOMAIN b : (a \o b)[i] = b[j]
<1>1. PICK m \in Nat, n \in Nat : m = Len(a) /\ n = Len(b)
  OBVIOUS
<1>2. PICK c : c = a \o b
  OBVIOUS
<1>3. /\ c \in Seq(Entry) /\ Len(c) = m + n
      /\ DOMAIN a = 1 .. m /\ DOMAIN b = 1 .. n /\ DOMAIN c = 1 .. m + n
  BY <1>1, <1>2
<1>4. /\ \A i \in 1 .. m : i \in 1 .. m + n /\ c[i] = a[i]
      /\ \A i \in 1 .. n : m + i \in 1 .. m + n /\ c[m + i] = b[i]
  <2>1. ASSUME NEW i \in 1 .. m PROVE i \in 1 .. m + n /\ c[i] = a[i]
    BY <1>1, <1>2, ConcatProperties
  <2>2. ASSUME NEW i \in 1 .. n PROVE m + i \in 1 .. m + n /\ c[m + i] = b[i]
    <3>1. c[m + i] = b[m + i - m] /\ m + i - m = i
      BY <1>1, <1>2, ConcatProperties
    <3> QED
      BY <3>1
  <2> QED
    BY <2>1, <2>2
<1>5. \A i \in 1 .. m + n : i \in 1 .. m \/ \E j \in 1 .. n : i = m + j
  <2> SUFFICES ASSUME NEW i \in 1 .. m + n, i \notin 1 .. m PROVE \E j \in 1 .. n : i = m + j
    OBVIOUS
  <2>1. i - m \in 1 .. n /\ i = m + (i - m)
    OBVIOUS
  <2> QED
    BY <2>1
<1>6. Has(c) <=> Has(a) \/ Has(b)
  <2>1. ASSUME NEW i \in 1 .. m + n, ~c[i].seat.cond
        PROVE  Has(a) \/ Has(b)
    <3>1. CASE i \in 1 .. m
      BY <2>1, <3>1, <1>3, <1>4 DEF Has
    <3>2. CASE \E j \in 1 .. n : i = m + j
      BY <2>1, <3>2, <1>3, <1>4 DEF Has
    <3> QED
      BY <3>1, <3>2, <1>5
  <2>2. Has(a) => Has(c)
    BY <1>3, <1>4 DEF Has
  <2>3. Has(b) => Has(c)
    BY <1>3, <1>4 DEF Has
  <2> QED
    BY <2>1, <2>2, <2>3, <1>3 DEF Has
<1>7. c = <<>> <=> a = <<>> /\ b = <<>>
  BY <1>1, <1>3
<1>8. \A i \in DOMAIN c :
              \/ i \in DOMAIN a /\ c[i] = a[i]
              \/ \E j \in DOMAIN b : c[i] = b[j]
  <2> SUFFICES ASSUME NEW i \in 1 .. m + n
               PROVE  (i \in 1 .. m /\ c[i] = a[i]) \/ (\E j \in 1 .. n : c[i] = b[j])
    BY <1>3
  <2>1. CASE i \in 1 .. m
    BY <2>1, <1>4
  <2>2. CASE \E j \in 1 .. n : i = m + j
    BY <2>2, <1>4
  <2> QED
    BY <2>1, <2>2, <1>5
<1> QED
  BY <1>2, <1>3, <1>6, <1>7, <1>8

\* The extras of one file.
Extras(layer, scope, design) == Written(layer[ExtraKey(design)], scope, ExtraKey(design))

LEMMA ExtrasIs ==
  ASSUME NEW layer \in LayerType, NEW scope \in Scope, NEW design \in BOOLEAN
  PROVE  /\ layer[ExtraKey(design)] \in SeatList /\ layer[ListKey(design)] \in SeatList
         /\ ExtraKey(design) \in PanelKey
         /\ Extras(layer, scope, design) \in Seq(Entry)
         /\ \A i \in DOMAIN Extras(layer, scope, design) :
              LET e == Extras(layer, scope, design)[i]
              IN /\ e.layer = scope /\ e.key = ExtraKey(design)
                 /\ layer[ExtraKey(design)] # None /\ e.at \in DOMAIN layer[ExtraKey(design)]
<1>1. layer[ExtraKey(design)] \in SeatList /\ layer[ListKey(design)] \in SeatList /\ ExtraKey(design) \in PanelKey
  BY DEF LayerType, ExtraKey, ListKey, PanelKey
<1>2. PICK x : x = Extras(layer, scope, design)
  OBVIOUS
<1>3. PICK seats : seats = layer[ExtraKey(design)]
  OBVIOUS
<1>4. x = Written(seats, scope, ExtraKey(design)) /\ scope \in Origin
  BY <1>2, <1>3 DEF Extras, Scope, Origin
<1>5. /\ x \in Seq(Entry) /\ (seats = None => x = <<>>)
      /\ seats # None => DOMAIN x = DOMAIN seats /\ \A i \in DOMAIN seats :
                           x[i] = [seat |-> seats[i], layer |-> scope, key |-> ExtraKey(design), at |-> i]
  BY <1>1, <1>3, <1>4, WrittenIs
<1>6. \A i \in DOMAIN x : x[i].layer = scope /\ x[i].key = ExtraKey(design) /\ seats # None /\ x[i].at \in DOMAIN seats
  <2> SUFFICES ASSUME NEW i \in DOMAIN x
               PROVE  x[i].layer = scope /\ x[i].key = ExtraKey(design) /\ seats # None /\ x[i].at \in DOMAIN seats
    OBVIOUS
  <2>1. seats # None
    BY <1>5
  <2>2. i \in DOMAIN seats
    BY <1>5, <2>1
  <2>3. x[i] = [seat |-> seats[i], layer |-> scope, key |-> ExtraKey(design), at |-> i]
    BY <1>5, <2>1, <2>2
  <2> QED
    BY <2>1, <2>2, <2>3
<1> QED
  BY <1>1, <1>2, <1>3, <1>5, <1>6

\* What two files put beside a panel.
LEMMA BesideIs ==
  ASSUME NEW g \in LayerType, NEW p \in LayerType, NEW design \in BOOLEAN
  PROVE  /\ Beside(g, p, design) \in Seq(Entry)
         /\ p[ListKey(design)] = None =>
              Beside(g, p, design) = Extras(g, "global", design) \o Extras(p, "project", design)
         /\ p[ListKey(design)] # None => Beside(g, p, design) = Extras(p, "project", design)
         /\ \A i \in DOMAIN Beside(g, p, design) :
              \/ \E j \in DOMAIN Extras(g, "global", design) :
                   Beside(g, p, design)[i] = Extras(g, "global", design)[j]
              \/ \E j \in DOMAIN Extras(p, "project", design) :
                   Beside(g, p, design)[i] = Extras(p, "project", design)[j]
<1>1. Extras(g, "global", design) \in Seq(Entry) /\ Extras(p, "project", design) \in Seq(Entry)
  BY ExtrasIs DEF Scope
<1>2. CASE p[ListKey(design)] = None
  <2>1. Beside(g, p, design) = Extras(g, "global", design) \o Extras(p, "project", design)
    BY <1>2 DEF Beside, Extras
  <2> QED
    BY <1>1, <1>2, <2>1, HasConcat
<1>3. CASE p[ListKey(design)] # None
  <2>1. Beside(g, p, design) = <<>> \o Extras(p, "project", design)
    BY <1>3 DEF Beside, Extras
  <2>2. Beside(g, p, design) = Extras(p, "project", design)
    BY <1>1, <2>1, ConcatEmptySeq
  <2> QED
    BY <1>1, <1>3, <2>2
<1> QED
  BY <1>2, <1>3

\* Each of them is an extra of the file it says it is of.
LEMMA BesideFrom ==
  ASSUME NEW g \in LayerType, NEW p \in LayerType, NEW design \in BOOLEAN,
         NEW j \in DOMAIN Beside(g, p, design)
  PROVE  LET e == Beside(g, p, design)[j] IN
         /\ e.key = ExtraKey(design)
         /\ \/ /\ e.layer = "global"
               /\ g[ExtraKey(design)] # None /\ e.at \in DOMAIN g[ExtraKey(design)]
            \/ /\ e.layer = "project"
               /\ p[ExtraKey(design)] # None /\ e.at \in DOMAIN p[ExtraKey(design)]
<1>1. PICK e : e = Beside(g, p, design)[j]
  OBVIOUS
<1>2. "global" \in Scope /\ "project" \in Scope
  BY DEF Scope
<1>3. CASE \E k \in DOMAIN Extras(g, "global", design) : e = Extras(g, "global", design)[k]
  <2>1. PICK k \in DOMAIN Extras(g, "global", design) : e = Extras(g, "global", design)[k]
    BY <1>3
  <2>2. /\ e.layer = "global" /\ e.key = ExtraKey(design)
        /\ g[ExtraKey(design)] # None /\ e.at \in DOMAIN g[ExtraKey(design)]
    BY <1>2, <2>1, ExtrasIs
  <2> QED
    BY <1>1, <2>2
<1>4. CASE \E k \in DOMAIN Extras(p, "project", design) : e = Extras(p, "project", design)[k]
  <2>1. PICK k \in DOMAIN Extras(p, "project", design) : e = Extras(p, "project", design)[k]
    BY <1>4
  <2>2. /\ e.layer = "project" /\ e.key = ExtraKey(design)
        /\ p[ExtraKey(design)] # None /\ e.at \in DOMAIN p[ExtraKey(design)]
    BY <1>2, <2>1, ExtrasIs
  <2> QED
    BY <1>1, <2>2
<1> QED
  BY <1>1, <1>3, <1>4, BesideIs

\* What a fit, and a file, have to be for panels to be composed of them.
FitOK(f) == Dealt(f.code) /\ (f.design # None => Dealt(f.design))
OnceIn(layer) == (layer.list # None => IdsOnce(layer.list)) /\ (layer.dlist # None => IdsOnce(layer.dlist))

\* A panel that validate finds no seat missing of.
Solid(panel) == panel = <<>> \/ Has(panel)

\* The panels before the extras.
CodeBase(f, g, p) ==
  IF p.list # None THEN Written(p.list, "project", "list")
  ELSE IF g.list # None THEN Written(g.list, "global", "list")
  ELSE Written(f.code, "default", "list")

DesignBase(f, g, p) ==
  IF p.dlist # None THEN Written(p.dlist, "project", "dlist")
  ELSE IF g.dlist # None THEN Written(g.dlist, "global", "dlist")
  ELSE IF FitDesign(f, g, p) THEN Written(f.design, "default", "dlist")
  ELSE WithoutWhen(CodePanel(f, g, p))

\* A dealt panel has somebody.
LEMMA DealtIs ==
  ASSUME NEW seats, Dealt(seats), NEW key \in PanelKey
  PROVE  /\ seats \in SeatList /\ seats # None
         /\ Written(seats, "default", key) \in Seq(Entry) /\ PanelOnce(Written(seats, "default", key))
         /\ Has(Written(seats, "default", key)) /\ Written(seats, "default", key) # <<>>
         /\ \A i \in DOMAIN Written(seats, "default", key) : Written(seats, "default", key)[i].key = key
<1>1. PICK w : w = Written(seats, "default", key)
  OBVIOUS
<1>2. seats \in SeatList /\ seats # None /\ IdsOnce(seats) /\ "default" \in Origin
  BY SeatsConstantsOK DEF Dealt, SeatList, Origin
<1>3. /\ w \in Seq(Entry) /\ DOMAIN w = DOMAIN seats
      /\ \A i \in DOMAIN seats : w[i] = [seat |-> seats[i], layer |-> "default", key |-> key, at |-> i]
  BY <1>1, <1>2, WrittenIs
<1>4. PanelOnce(w)
  BY <1>1, <1>2, WrittenOnce
<1>5. PICK i \in DOMAIN seats : ~seats[i].cond
  BY DEF Dealt
<1>6. i \in DOMAIN w /\ w[i].seat = seats[i]
  BY <1>3, <1>5
<1>7. Has(w) /\ w # <<>>
  BY <1>5, <1>6 DEF Has
<1>8. \A j \in DOMAIN w : w[j].key = key
  BY <1>3
<1> QED
  BY <1>1, <1>2, <1>3, <1>4, <1>7, <1>8

LEMMA ListIs ==
  ASSUME NEW seats \in Seq(Seat), NEW layer \in Origin, NEW key \in PanelKey
  PROVE  /\ Written(seats, layer, key) \in Seq(Entry)
         /\ PanelOnce(Written(seats, layer, key)) <=> IdsOnce(seats)
         /\ \A i \in DOMAIN Written(seats, layer, key) : Written(seats, layer, key)[i].key = key
<1>1. PICK w : w = Written(seats, layer, key)
  OBVIOUS
<1>2. seats \in SeatList /\ seats # None
  BY SeatsConstantsOK DEF SeatList
<1>3. /\ w \in Seq(Entry) /\ DOMAIN w = DOMAIN seats
      /\ \A i \in DOMAIN seats : w[i] = [seat |-> seats[i], layer |-> layer, key |-> key, at |-> i]
  BY <1>1, <1>2, WrittenIs
<1>4. PanelOnce(w) <=> IdsOnce(seats)
  BY <1>1, <1>2, WrittenOnce
<1>5. \A j \in DOMAIN w : w[j].key = key
  BY <1>3
<1> QED
  BY <1>1, <1>3, <1>4, <1>5

LEMMA LayerIs ==
  ASSUME NEW layer \in LayerType
  PROVE  /\ layer.list # None => layer.list \in Seq(Seat)
         /\ layer.dlist # None => layer.dlist \in Seq(Seat)
  BY DEF LayerType, SeatList

LEMMA CodeBaseIs ==
  ASSUME NEW f, FitOK(f), NEW g \in LayerType, NEW p \in LayerType
  PROVE  /\ CodeBase(f, g, p) \in Seq(Entry)
         /\ OnceIn(g) /\ OnceIn(p) => PanelOnce(CodeBase(f, g, p))
         /\ p.list = None /\ g.list = None => Has(CodeBase(f, g, p)) /\ CodeBase(f, g, p) # <<>>
         /\ \A i \in DOMAIN CodeBase(f, g, p) : CodeBase(f, g, p)[i].key = "list"
<1>1. "list" \in PanelKey /\ "project" \in Origin /\ "global" \in Origin
  BY DEF PanelKey, Origin
<1>2. CASE p.list # None
  BY <1>1, <1>2, LayerIs, ListIs DEF CodeBase, OnceIn
<1>3. CASE p.list = None /\ g.list # None
  BY <1>1, <1>3, LayerIs, ListIs DEF CodeBase, OnceIn
<1>4. CASE p.list = None /\ g.list = None
  BY <1>1, <1>4, DealtIs DEF CodeBase, FitOK
<1> QED
  BY <1>2, <1>3, <1>4

\* The code panel is its base and the extras of the files beside it.
LEMMA CodeIs ==
  ASSUME NEW f, FitOK(f), NEW g \in LayerType, NEW p \in LayerType
  PROVE  /\ CodePanel(f, g, p) \in Seq(Entry)
         /\ Has(CodePanel(f, g, p)) <=> Has(CodeBase(f, g, p)) \/ Has(Beside(g, p, FALSE))
         /\ CodePanel(f, g, p) = <<>> <=> CodeBase(f, g, p) = <<>> /\ Beside(g, p, FALSE) = <<>>
         /\ OnceIn(g) /\ OnceIn(p) => PanelOnce(CodePanel(f, g, p))
         /\ \A i \in DOMAIN CodeBase(f, g, p) : CodePanel(f, g, p)[i] = CodeBase(f, g, p)[i]
         /\ \A i \in DOMAIN CodePanel(f, g, p) :
              \/ CodePanel(f, g, p)[i].key = "list" /\ CodeBase(f, g, p) # <<>>
              \/ \E j \in DOMAIN Beside(g, p, FALSE) : Renamed(CodePanel(f, g, p)[i], Beside(g, p, FALSE)[j])
<1>1. PICK base : base = CodeBase(f, g, p)
  OBVIOUS
<1>2. PICK extras : extras = Beside(g, p, FALSE)
  OBVIOUS
<1>3. base \in Seq(Entry) /\ extras \in Seq(Entry) /\ FALSE \in BOOLEAN
  BY <1>1, <1>2, CodeBaseIs, BesideIs
<1>4. CodePanel(f, g, p) = Fold(base, extras)
  BY <1>1, <1>2 DEF CodePanel, CodeBase
<1>5. PICK panel : panel = Fold(base, extras)
  OBVIOUS
<1>6. \A i \in DOMAIN base : base[i].key = "list"
  BY <1>1, CodeBaseIs
<1>7. ASSUME NEW i \in DOMAIN panel
      PROVE  (panel[i].key = "list" /\ base # <<>>) \/ \E j \in DOMAIN extras : Renamed(panel[i], extras[j])
  <2>1. CASE i \in DOMAIN base
    <3>1. panel[i] = base[i]
      BY <1>3, <1>5, <2>1, FoldHas
    <3>2. base # <<>>
      BY <2>1
    <3> QED
      BY <1>6, <2>1, <3>1, <3>2
  <2>2. CASE \E j \in DOMAIN extras : Renamed(panel[i], extras[j])
    BY <2>2
  <2> QED
    BY <1>3, <1>5, <1>7, <2>1, <2>2, FoldHas
<1>8. OnceIn(g) /\ OnceIn(p) => PanelOnce(panel)
  BY <1>1, <1>3, <1>5, CodeBaseIs, FoldHas
<1>9. /\ panel \in Seq(Entry) /\ (Has(panel) <=> Has(base) \/ Has(extras))
      /\ panel = <<>> <=> base = <<>> /\ extras = <<>>
      /\ \A i \in DOMAIN base : panel[i] = base[i]
  BY <1>3, <1>5, FoldHas
<1> QED
  BY <1>1, <1>2, <1>4, <1>5, <1>7, <1>8, <1>9

LEMMA DesignBaseIs ==
  ASSUME NEW f, FitOK(f), NEW g \in LayerType, NEW p \in LayerType
  PROVE  /\ DesignBase(f, g, p) \in Seq(Entry)
         /\ OnceIn(g) /\ OnceIn(p) => PanelOnce(DesignBase(f, g, p))
         /\ p.dlist = None /\ g.dlist = None =>
              /\ FitDesign(f, g, p) => Has(DesignBase(f, g, p))
              /\ CodePanel(f, g, p) # <<>> => Has(DesignBase(f, g, p))
              /\ CodePanel(f, g, p) = <<>> /\ ~FitDesign(f, g, p) => DesignBase(f, g, p) = <<>>
         /\ \A i \in DOMAIN DesignBase(f, g, p) : DesignBase(f, g, p)[i].key # "dextra"
<1>1. "dlist" \in PanelKey /\ "project" \in Origin /\ "global" \in Origin
  BY DEF PanelKey, Origin
<1>2. CASE p.dlist # None
  BY <1>1, <1>2, LayerIs, ListIs DEF DesignBase, OnceIn
<1>3. CASE p.dlist = None /\ g.dlist # None
  BY <1>1, <1>3, LayerIs, ListIs DEF DesignBase, OnceIn
<1>4. CASE p.dlist = None /\ g.dlist = None /\ FitDesign(f, g, p)
  <2>1. Dealt(f.design)
    BY <1>4 DEF FitDesign, FitOK
  <2>2. DesignBase(f, g, p) = Written(f.design, "default", "dlist")
    BY <1>4 DEF DesignBase
  <2> QED
    BY <1>1, <1>4, <2>1, <2>2, DealtIs
<1>5. CASE p.dlist = None /\ g.dlist = None /\ ~FitDesign(f, g, p)
  <2>1. PICK code : code = CodePanel(f, g, p)
    OBVIOUS
  <2>2. code \in Seq(Entry) /\ (OnceIn(g) /\ OnceIn(p) => PanelOnce(code))
    BY <2>1, CodeIs
  <2>3. DesignBase(f, g, p) = WithoutWhen(code)
    BY <1>5, <2>1 DEF DesignBase
  <2>4. PICK w : w = WithoutWhen(code)
    OBVIOUS
  <2>5. ASSUME NEW i \in DOMAIN code
        PROVE  code[i].key # "dextra"
    <3>1. code[i].key = "list" \/ \E j \in DOMAIN Beside(g, p, FALSE) : Renamed(code[i], Beside(g, p, FALSE)[j])
      BY <2>1, CodeIs
    <3>2. ASSUME NEW j \in DOMAIN Beside(g, p, FALSE)
          PROVE  Beside(g, p, FALSE)[j].key = "extra"
      <4>1. ExtraKey(FALSE) = "extra"
        BY DEF ExtraKey
      <4>2. Beside(g, p, FALSE)[j].key = ExtraKey(FALSE)
        BY BesideFrom
      <4> QED
        BY <4>1, <4>2
    <3> QED
      BY <3>1, <3>2 DEF Renamed
  <2>6. /\ w \in Seq(Entry) /\ (w = <<>> <=> code = <<>>) /\ (code # <<>> => Has(w))
        /\ (PanelOnce(code) => PanelOnce(w)) /\ DOMAIN w = DOMAIN code
        /\ \A i \in DOMAIN code : w[i].key = code[i].key
    BY <2>2, <2>4, WithoutWhenIs
  <2> QED
    BY <1>5, <2>1, <2>2, <2>3, <2>4, <2>5, <2>6
<1> QED
  BY <1>2, <1>3, <1>4, <1>5

LEMMA DesignIs ==
  ASSUME NEW f, FitOK(f), NEW g \in LayerType, NEW p \in LayerType
  PROVE  /\ DesignPanel(f, g, p) \in Seq(Entry)
         /\ Has(DesignPanel(f, g, p)) <=> Has(DesignBase(f, g, p)) \/ Has(Beside(g, p, TRUE))
         /\ DesignPanel(f, g, p) = <<>> <=> DesignBase(f, g, p) = <<>> /\ Beside(g, p, TRUE) = <<>>
         /\ OnceIn(g) /\ OnceIn(p) => PanelOnce(DesignPanel(f, g, p))
         /\ \A i \in DOMAIN DesignBase(f, g, p) : DesignPanel(f, g, p)[i] = DesignBase(f, g, p)[i]
         /\ \A i \in DOMAIN DesignPanel(f, g, p) :
              \/ DesignPanel(f, g, p)[i].key # "dextra" /\ DesignBase(f, g, p) # <<>>
              \/ \E j \in DOMAIN Beside(g, p, TRUE) : Renamed(DesignPanel(f, g, p)[i], Beside(g, p, TRUE)[j])
<1>1. PICK base : base = DesignBase(f, g, p)
  OBVIOUS
<1>2. PICK extras : extras = Beside(g, p, TRUE)
  OBVIOUS
<1>3. base \in Seq(Entry) /\ extras \in Seq(Entry)
  BY <1>1, <1>2, DesignBaseIs, BesideIs
<1>4. DesignPanel(f, g, p) = Fold(base, extras)
  BY <1>1, <1>2 DEF DesignPanel, DesignBase
<1>5. PICK panel : panel = Fold(base, extras)
  OBVIOUS
<1>6. \A i \in DOMAIN base : base[i].key # "dextra"
  BY <1>1, DesignBaseIs
<1>7. ASSUME NEW i \in DOMAIN panel
      PROVE  (panel[i].key # "dextra" /\ base # <<>>) \/ \E j \in DOMAIN extras : Renamed(panel[i], extras[j])
  <2>1. CASE i \in DOMAIN base
    <3>1. panel[i] = base[i]
      BY <1>3, <1>5, <2>1, FoldHas
    <3>2. base # <<>>
      BY <2>1
    <3> QED
      BY <1>6, <2>1, <3>1, <3>2
  <2>2. CASE \E j \in DOMAIN extras : Renamed(panel[i], extras[j])
    BY <2>2
  <2> QED
    BY <1>3, <1>5, <1>7, <2>1, <2>2, FoldHas
<1>8. OnceIn(g) /\ OnceIn(p) => PanelOnce(panel)
  BY <1>1, <1>3, <1>5, DesignBaseIs, FoldHas
<1>9. /\ panel \in Seq(Entry) /\ (Has(panel) <=> Has(base) \/ Has(extras))
      /\ panel = <<>> <=> base = <<>> /\ extras = <<>>
      /\ \A i \in DOMAIN base : panel[i] = base[i]
  BY <1>3, <1>5, FoldHas
<1> QED
  BY <1>1, <1>2, <1>4, <1>5, <1>7, <1>8, <1>9

-----------------------------------------------------------------------------
(* Both panels at once. *)

Base(f, g, p, design) == IF design THEN DesignBase(f, g, p) ELSE CodeBase(f, g, p)

LEMMA ComposedIs ==
  ASSUME NEW f, FitOK(f), NEW g \in LayerType, NEW p \in LayerType, NEW design \in BOOLEAN
  PROVE  /\ Base(f, g, p, design) \in Seq(Entry) /\ Composed(f, g, p, design) \in Seq(Entry)
         /\ Has(Composed(f, g, p, design)) <=> Has(Base(f, g, p, design)) \/ Has(Beside(g, p, design))
         /\ Composed(f, g, p, design) = <<>> <=> Base(f, g, p, design) = <<>> /\ Beside(g, p, design) = <<>>
         /\ OnceIn(g) /\ OnceIn(p) => PanelOnce(Composed(f, g, p, design))
         /\ \A i \in DOMAIN Base(f, g, p, design) : Composed(f, g, p, design)[i] = Base(f, g, p, design)[i]
         /\ \A i \in DOMAIN Composed(f, g, p, design) :
              \/ Composed(f, g, p, design)[i].key # ExtraKey(design) /\ Base(f, g, p, design) # <<>>
              \/ \E j \in DOMAIN Beside(g, p, design) :
                   Renamed(Composed(f, g, p, design)[i], Beside(g, p, design)[j])
<1>1. CASE design
  BY <1>1, DesignBaseIs, DesignIs DEF Base, Composed, ExtraKey
<1>2. CASE ~design
  BY <1>2, CodeBaseIs, CodeIs DEF Base, Composed, ExtraKey
<1> QED
  BY <1>1, <1>2

LEMMA EmptyLayer ==
  /\ Empty \in LayerType /\ OnceIn(Empty)
  /\ \A design \in BOOLEAN : /\ Empty[ListKey(design)] = None
                             /\ Extras(Empty, "project", design) = <<>>
<1>1. Empty \in LayerType /\ OnceIn(Empty)
  BY DEF Empty, LayerType, SeatList, OnceIn
<1>2. ASSUME NEW design \in BOOLEAN
      PROVE  Empty[ListKey(design)] = None /\ Empty[ExtraKey(design)] = None
  BY DEF Empty, ListKey, ExtraKey
<1>3. ASSUME NEW design \in BOOLEAN
      PROVE  Extras(Empty, "project", design) = <<>>
  BY <1>2 DEF Extras, Written
<1> QED
  BY <1>1, <1>2, <1>3

\* The global file on its own.
LEMMA BesideAlone ==
  ASSUME NEW g \in LayerType, NEW design \in BOOLEAN
  PROVE  /\ Extras(g, "global", design) \in Seq(Entry)
         /\ Beside(g, Empty, design) = Extras(g, "global", design)
<1>1. Extras(g, "global", design) \in Seq(Entry)
  BY ExtrasIs DEF Scope
<1>2. Beside(g, Empty, design) = Extras(g, "global", design) \o <<>>
  BY EmptyLayer, BesideIs
<1> QED
  BY <1>1, <1>2, ConcatEmptySeq

\* An extra of the file that is edited is in its place there.
LEMMA OwnIs ==
  ASSUME NEW f, FitOK(f), NEW g \in LayerType, NEW p \in LayerType, NEW design \in BOOLEAN,
         NEW i \in DOMAIN Composed(f, g, p, design), NEW scope \in Scope,
         OwnExtra(Composed(f, g, p, design)[i], scope, design)
  PROVE  LET layer == IF scope = "global" THEN g ELSE p
             at == Composed(f, g, p, design)[i].at
         IN layer[ExtraKey(design)] # None /\ at \in DOMAIN layer[ExtraKey(design)]
<1>1. PICK e : e = Composed(f, g, p, design)[i]
  OBVIOUS
<1>2. e.layer = scope /\ e.key = ExtraKey(design)
  BY <1>1 DEF OwnExtra
<1>3. PICK j \in DOMAIN Beside(g, p, design) : Renamed(e, Beside(g, p, design)[j])
  BY <1>1, <1>2, ComposedIs
<1>4. PICK x : x = Beside(g, p, design)[j]
  OBVIOUS
<1>5. x.layer = scope /\ x.at = e.at
  BY <1>2, <1>3, <1>4 DEF Renamed
<1>6. \/ /\ x.layer = "global"
         /\ g[ExtraKey(design)] # None /\ x.at \in DOMAIN g[ExtraKey(design)]
      \/ /\ x.layer = "project"
         /\ p[ExtraKey(design)] # None /\ x.at \in DOMAIN p[ExtraKey(design)]
  BY <1>4, BesideFrom
<1>7. CASE scope = "global"
  BY <1>1, <1>5, <1>6, <1>7
<1>8. CASE scope = "project"
  BY <1>1, <1>5, <1>6, <1>8
<1> QED
  BY <1>7, <1>8 DEF Scope

\* Any other entry of the project's panel is one of what it inherits.
LEMMA OtherIs ==
  ASSUME NEW f, FitOK(f), NEW g \in LayerType, NEW p \in LayerType, NEW design \in BOOLEAN,
         NEW i \in DOMAIN Composed(f, g, p, design),
         ~OwnExtra(Composed(f, g, p, design)[i], "project", design)
  PROVE  Base(f, g, p, design) # <<>> \/ Extras(g, "global", design) # <<>>
<1>1. PICK e : e = Composed(f, g, p, design)[i]
  OBVIOUS
<1>2. e.layer # "project" \/ e.key # ExtraKey(design)
  BY <1>1 DEF OwnExtra
<1>3. SUFFICES ASSUME Base(f, g, p, design) = <<>>
               PROVE  Extras(g, "global", design) # <<>>
  OBVIOUS
<1>4. PICK j \in DOMAIN Beside(g, p, design) : Renamed(e, Beside(g, p, design)[j])
  BY <1>1, <1>3, ComposedIs
<1>5. PICK x : x = Beside(g, p, design)[j]
  OBVIOUS
<1>6. x.key = e.key /\ x.layer = e.layer /\ x.key = ExtraKey(design)
  BY <1>4, <1>5, BesideFrom DEF Renamed
<1>7. ASSUME NEW k \in DOMAIN Extras(p, "project", design)
      PROVE  x # Extras(p, "project", design)[k]
  BY <1>2, <1>6, ExtrasIs DEF Scope
<1>8. PICK k \in DOMAIN Extras(g, "global", design) : x = Extras(g, "global", design)[k]
  BY <1>5, <1>7, BesideIs
<1> QED
  BY <1>8

\* A file that lists no panel inherits one that somebody always runs.
LEMMA CodeInherits ==
  ASSUME NEW f, FitOK(f), NEW g \in LayerType, NEW p \in LayerType, p.list = None,
         Solid(CodePanel(f, g, Empty)),
         \/ CodePanel(f, g, Empty) # <<>>
         \/ CodeBase(f, g, p) # <<>> \/ Extras(g, "global", FALSE) # <<>>
  PROVE  Has(CodePanel(f, g, p))
<1>1. CodeBase(f, g, p) = CodeBase(f, g, Empty)
  BY DEF CodeBase, Empty
<1>2. Empty \in LayerType /\ FALSE \in BOOLEAN
  BY EmptyLayer
<1>3. PICK x : x = Extras(g, "global", FALSE)
  OBVIOUS
<1>4. PICK y : y = Extras(p, "project", FALSE)
  OBVIOUS
<1>5. PICK base : base = CodeBase(f, g, p)
  OBVIOUS
<1>6. x \in Seq(Entry) /\ y \in Seq(Entry)
  BY <1>3, <1>4, ExtrasIs DEF Scope
<1>7. Beside(g, Empty, FALSE) = x /\ Beside(g, p, FALSE) = x \o y
  <2>1. ListKey(FALSE) = "list"
    BY DEF ListKey
  <2> QED
    BY <1>2, <1>3, <1>4, <2>1, BesideAlone, BesideIs
<1>8. Has(CodePanel(f, g, Empty)) <=> Has(base) \/ Has(x)
  BY <1>1, <1>2, <1>5, <1>7, CodeIs
<1>9. CodePanel(f, g, Empty) = <<>> <=> base = <<>> /\ x = <<>>
  BY <1>1, <1>2, <1>5, <1>7, CodeIs
<1>10. Has(base) \/ Has(x)
  BY <1>3, <1>5, <1>8, <1>9 DEF Solid
<1>11. Has(x \o y) <=> Has(x) \/ Has(y)
  BY <1>6, HasConcat
<1> QED
  BY <1>5, <1>7, <1>10, <1>11, CodeIs

LEMMA DesignInherits ==
  ASSUME NEW f, FitOK(f), NEW g \in LayerType, NEW p \in LayerType, p.dlist = None,
         Solid(DesignPanel(f, g, Empty)), CodePanel(f, g, p) # <<>>,
         \/ DesignPanel(f, g, Empty) # <<>>
         \/ DesignBase(f, g, p) # <<>> \/ Extras(g, "global", TRUE) # <<>>
  PROVE  Has(DesignPanel(f, g, p))
<1>1. CASE g.dlist = None
  <2>1. Has(DesignBase(f, g, p))
    BY <1>1, DesignBaseIs
  <2> QED
    BY <2>1, DesignIs
<1>2. CASE g.dlist # None
  <2>1. DesignBase(f, g, p) = DesignBase(f, g, Empty)
    BY <1>2 DEF DesignBase, Empty
  <2>2. Empty \in LayerType /\ TRUE \in BOOLEAN
    BY EmptyLayer
  <2>3. PICK x : x = Extras(g, "global", TRUE)
    OBVIOUS
  <2>4. PICK y : y = Extras(p, "project", TRUE)
    OBVIOUS
  <2>5. PICK base : base = DesignBase(f, g, p)
    OBVIOUS
  <2>6. x \in Seq(Entry) /\ y \in Seq(Entry)
    BY <2>3, <2>4, ExtrasIs DEF Scope
  <2>7. Beside(g, Empty, TRUE) = x /\ Beside(g, p, TRUE) = x \o y
    <3>1. ListKey(TRUE) = "dlist"
      BY DEF ListKey
    <3> QED
      BY <2>2, <2>3, <2>4, <3>1, BesideAlone, BesideIs
  <2>8. Has(DesignPanel(f, g, Empty)) <=> Has(base) \/ Has(x)
    BY <2>1, <2>2, <2>5, <2>7, DesignIs
  <2>9. DesignPanel(f, g, Empty) = <<>> <=> base = <<>> /\ x = <<>>
    BY <2>1, <2>2, <2>5, <2>7, DesignIs
  <2>10. Has(base) \/ Has(x)
    BY <2>3, <2>5, <2>8, <2>9 DEF Solid
  <2>11. Has(x \o y) <=> Has(x) \/ Has(y)
    BY <2>6, HasConcat
  <2> QED
    BY <2>5, <2>7, <2>10, <2>11, DesignIs
<1> QED
  BY <1>1, <1>2

\* A file that lists a panel leaves nothing to what is below it.
LEMMA ListedAlone ==
  ASSUME NEW f, NEW g, NEW p
  PROVE  /\ p.list # None => \A f2, g2 : CodePanel(f2, g2, p) = CodePanel(f, g, p)
         /\ p.dlist # None => \A f2, g2 : DesignPanel(f2, g2, p) = DesignPanel(f, g, p)
<1>1. ListKey(FALSE) = "list" /\ ListKey(TRUE) = "dlist"
  BY DEF ListKey
<1>2. ASSUME p.list # None, NEW f2, NEW g2
      PROVE  CodePanel(f2, g2, p) = CodePanel(f, g, p)
  BY <1>1, <1>2 DEF CodePanel, Beside
<1>3. ASSUME p.dlist # None, NEW f2, NEW g2
      PROVE  DesignPanel(f2, g2, p) = DesignPanel(f, g, p)
  BY <1>1, <1>3 DEF DesignPanel, Beside
<1> QED
  BY <1>2, <1>3

\* Another fit leaves nobody out of the global file's panels.
LEMMA RefitSolid ==
  ASSUME NEW f, NEW f2, FitOK(f2), NEW g \in LayerType,
         \A d \in BOOLEAN : Solid(Composed(f, g, Empty, d))
  PROVE  \A d \in BOOLEAN : Solid(Composed(f2, g, Empty, d))
<1>1. Empty \in LayerType /\ Empty.list = None /\ Empty.dlist = None
  BY EmptyLayer DEF Empty
<1>2. Solid(CodePanel(f, g, Empty)) /\ Solid(DesignPanel(f, g, Empty))
  BY DEF Composed
<1>3. Solid(CodePanel(f2, g, Empty))
  <2>1. CASE g.list # None
    <3>1. CodePanel(f2, g, Empty) = CodePanel(f, g, Empty)
      BY <1>1, <2>1 DEF CodePanel
    <3> QED
      BY <1>2, <3>1
  <2>2. CASE g.list = None
    BY <1>1, <2>2, CodeBaseIs, CodeIs DEF Solid
  <2> QED
    BY <2>1, <2>2
<1>4. Solid(DesignPanel(f2, g, Empty))
  <2>1. CASE g.dlist # None
    <3>1. DesignPanel(f2, g, Empty) = DesignPanel(f, g, Empty)
      BY <1>1, <2>1 DEF DesignPanel
    <3> QED
      BY <1>2, <3>1
  <2>2. CASE g.dlist = None /\ g.list # None
    <3>1. CodePanel(f2, g, Empty) = CodePanel(f, g, Empty)
      BY <1>1, <2>2 DEF CodePanel
    <3>2. ~FitDesign(f, g, Empty) /\ ~FitDesign(f2, g, Empty)
      BY <2>2 DEF FitDesign
    <3>3. DesignPanel(f2, g, Empty) = DesignPanel(f, g, Empty)
      BY <1>1, <2>2, <3>1, <3>2 DEF DesignPanel
    <3> QED
      BY <1>2, <3>3
  <2>3. CASE g.dlist = None /\ g.list = None
    <3>1. CodePanel(f2, g, Empty) # <<>>
      BY <1>1, <2>3, CodeBaseIs, CodeIs
    <3> QED
      BY <1>1, <2>3, <3>1, DesignBaseIs, DesignIs DEF Solid
  <2> QED
    BY <2>1, <2>2, <2>3
<1> QED
  BY <1>3, <1>4 DEF Composed

-----------------------------------------------------------------------------
(* What validate finds wrong with the panels of a file. *)

LEMMA RepeatedIs ==
  ASSUME NEW panel \in Seq(Entry)
  PROVE  /\ Repeated(panel) \subseteq Nat \ {0}
         /\ Repeated(panel) = {} <=> PanelOnce(panel)
<1>1. PICK n \in Nat : n = Len(panel)
  OBVIOUS
<1>2. DOMAIN panel = 1 .. n /\ \A i \in 1 .. n : panel[i].seat.id \in Nat \ {0}
  <2>1. DOMAIN panel = 1 .. n /\ \A i \in 1 .. n : panel[i] \in Entry
    BY <1>1
  <2>2. \A e \in Entry : e.seat.id \in Nat \ {0}
    BY DEF Entry, Seat
  <2> QED
    BY <2>1, <2>2
<1>3. Repeated(panel) = {panel[i].seat.id : i \in {j \in 1 .. n : \E k \in 1 .. j - 1 :
                                                     panel[k].seat.id = panel[j].seat.id}}
  BY <1>2 DEF Repeated
<1>4. ASSUME PanelOnce(panel), NEW j \in 1 .. n, NEW k \in 1 .. j - 1, panel[k].seat.id = panel[j].seat.id
      PROVE  FALSE
  <2>1. k \in 1 .. n /\ k # j
    OBVIOUS
  <2> QED
    BY <1>2, <1>4, <2>1 DEF PanelOnce
<1>5. ASSUME Repeated(panel) = {}, NEW i \in 1 .. n, NEW j \in 1 .. n, i < j, panel[i].seat.id = panel[j].seat.id
      PROVE  FALSE
  <2>1. i \in 1 .. j - 1
    BY <1>5
  <2>2. panel[j].seat.id \in Repeated(panel)
    BY <1>3, <1>5, <2>1
  <2> QED
    BY <1>5, <2>2
<1>6. ASSUME Repeated(panel) = {}, NEW i \in 1 .. n, NEW j \in 1 .. n, panel[i].seat.id = panel[j].seat.id
      PROVE  i = j
  <2>1. i < j \/ j < i \/ i = j
    OBVIOUS
  <2> QED
    BY <1>5, <1>6, <2>1
<1>7. Repeated(panel) \subseteq Nat \ {0}
  BY <1>2, <1>3
<1> QED
  BY <1>2, <1>3, <1>4, <1>6, <1>7 DEF PanelOnce

LEMMA ConditionalIs ==
  ASSUME NEW panel \in Seq(Entry)
  PROVE  Conditional(panel) <=> ~Solid(panel)
  BY DEF Conditional, Solid, Has

\* The panels a scope runs.
LEMMA InForceIs ==
  ASSUME FitOK(fit), file \in [Scope -> LayerType], NEW scope \in Scope, NEW layer \in LayerType,
         NEW design \in BOOLEAN
  PROVE  /\ Below(scope, layer)[1] \in LayerType /\ Below(scope, layer)[2] \in LayerType
         /\ InForce(scope, layer, design) \in Seq(Entry)
         /\ scope = "global" => InForce(scope, layer, design) = Composed(fit, layer, Empty, design)
         /\ scope = "project" => InForce(scope, layer, design) = Composed(fit, file["global"], layer, design)
<1>1. CASE scope = "global"
  <2>1. Below(scope, layer)[1] = layer /\ Below(scope, layer)[2] = Empty
    BY <1>1 DEF Below
  <2> QED
    BY <1>1, <2>1, EmptyLayer, ComposedIs DEF InForce
<1>2. CASE scope = "project"
  <2>1. Below(scope, layer)[1] = file["global"] /\ Below(scope, layer)[2] = layer
    BY <1>2 DEF Below
  <2>2. file["global"] \in LayerType
    BY DEF Scope
  <2> QED
    BY <1>2, <2>1, <2>2, ComposedIs DEF InForce
<1> QED
  BY <1>1, <1>2 DEF Scope

LEMMA ProblemsAre ==
  ASSUME FitOK(fit), file \in [Scope -> LayerType], NEW scope \in Scope, NEW layer \in LayerType
  PROVE  /\ \A d \in BOOLEAN : <<d, 0>> \in Problems(scope, layer) <=> ~Solid(InForce(scope, layer, d))
         /\ \A d \in BOOLEAN, id \in Nat \ {0} :
              <<d, id>> \in Problems(scope, layer) <=> id \in Repeated(InForce(scope, layer, d))
         /\ \A q \in Problems(scope, layer) : \E d \in BOOLEAN, id \in Nat : q = <<d, id>>
<1>1. PICK conditional : conditional = {<<design, 0>> : design \in {d \in BOOLEAN : Conditional(InForce(scope, layer, d))}}
  OBVIOUS
<1>2. PICK repeated : repeated = UNION {{design} \X Repeated(InForce(scope, layer, design)) : design \in BOOLEAN}
  OBVIOUS
<1>3. Problems(scope, layer) = conditional \cup repeated
  BY <1>1, <1>2 DEF Problems
<1>4. \A d \in BOOLEAN : Repeated(InForce(scope, layer, d)) \subseteq Nat \ {0}
  BY InForceIs, RepeatedIs
<1>5. ASSUME NEW d \in BOOLEAN
      PROVE  <<d, 0>> \in Problems(scope, layer) <=> ~Solid(InForce(scope, layer, d))
  <2>1. <<d, 0>> \in conditional <=> Conditional(InForce(scope, layer, d))
    BY <1>1
  <2>2. <<d, 0>> \notin repeated
    BY <1>2, <1>4
  <2> QED
    BY <1>3, <2>1, <2>2, InForceIs, ConditionalIs
<1>6. ASSUME NEW d \in BOOLEAN, NEW id \in Nat \ {0}
      PROVE  <<d, id>> \in Problems(scope, layer) <=> id \in Repeated(InForce(scope, layer, d))
  <2>1. <<d, id>> \notin conditional
    BY <1>1
  <2>2. <<d, id>> \in repeated <=> id \in Repeated(InForce(scope, layer, d))
    BY <1>2
  <2> QED
    BY <1>3, <2>1, <2>2
<1>7. ASSUME NEW q \in Problems(scope, layer)
      PROVE  \E d \in BOOLEAN, id \in Nat : q = <<d, id>>
  <2>1. CASE q \in conditional
    BY <1>1, <2>1
  <2>2. CASE q \in repeated
    BY <1>2, <1>4, <2>2
  <2> QED
    BY <1>3, <2>1, <2>2
<1> QED
  BY <1>5, <1>6, <1>7

-----------------------------------------------------------------------------
(* Seats: the invariant. *)

\* The ids of a list differ; the global file's panels have somebody; so has a panel that the project
\* lists, unless it was copied for a project with nobody on its code panel.
ListsOnce == \A scope \in Scope : OnceIn(file[scope])
GlobalSolid == \A d \in BOOLEAN : Solid(Composed(fit, file["global"], Empty, d))
ProjectSolid ==
  /\ file["project"].list # None => Solid(CodePanel(fit, file["global"], file["project"]))
  /\ file["project"].dlist # None => bare \/ Solid(DesignPanel(fit, file["global"], file["project"]))
SeatsInv == SeatsTypeOK /\ ListsOnce /\ GlobalSolid /\ ProjectSolid

LEMMA FilesAre ==
  ASSUME SeatsTypeOK
  PROVE  /\ FitOK(fit) /\ file \in [Scope -> LayerType]
         /\ file["global"] \in LayerType /\ file["project"] \in LayerType
         /\ "global" \in Scope /\ "project" \in Scope
<1>1. fit \in Fits /\ file \in [Scope -> LayerType]
  BY DEF SeatsTypeOK
<1>2. FitOK(fit)
  BY <1>1, SeatsConstantsOK DEF FitOK
<1> QED
  BY <1>1, <1>2 DEF Scope

\* The panel a file is written with is the beginning of what then runs.
LEMMA ListedOnce ==
  ASSUME FitOK(fit), file \in [Scope -> LayerType], NEW scope \in Scope, NEW layer \in LayerType,
         \A d \in BOOLEAN : PanelOnce(InForce(scope, layer, d))
  PROVE  OnceIn(layer)
<1>1. PICK g, p : g = Below(scope, layer)[1] /\ p = Below(scope, layer)[2]
  OBVIOUS
<1>2. g \in LayerType /\ p \in LayerType
  BY <1>1, InForceIs
<1>3. \A d \in BOOLEAN : InForce(scope, layer, d) = Composed(fit, g, p, d)
  BY <1>1 DEF InForce
<1>4. ASSUME NEW d \in BOOLEAN
      PROVE  PanelOnce(Base(fit, g, p, d))
  <2>1. PICK base, panel : base = Base(fit, g, p, d) /\ panel = Composed(fit, g, p, d)
    OBVIOUS
  <2>2. base \in Seq(Entry) /\ panel \in Seq(Entry) /\ \A i \in DOMAIN base : panel[i] = base[i]
    BY <1>2, <2>1, ComposedIs
  <2>3. PanelOnce(panel)
    BY <1>3, <2>1
  <2>4. DOMAIN base \subseteq DOMAIN panel
    <3>1. CASE d
      <4>1. panel = Fold(base, Beside(g, p, TRUE)) /\ Beside(g, p, TRUE) \in Seq(Entry)
        BY <1>2, <2>1, <3>1, BesideIs DEF Base, Composed, DesignPanel, DesignBase
      <4> QED
        BY <2>2, <4>1, FoldHas
    <3>2. CASE ~d
      <4>1. panel = Fold(base, Beside(g, p, FALSE)) /\ Beside(g, p, FALSE) \in Seq(Entry)
        BY <1>2, <2>1, <3>2, BesideIs DEF Base, Composed, CodePanel, CodeBase
      <4> QED
        BY <2>2, <4>1, FoldHas
    <3> QED
      BY <3>1, <3>2
  <2> QED
    BY <2>1, <2>2, <2>3, <2>4 DEF PanelOnce
<1>5. PanelOnce(CodeBase(fit, g, p)) /\ PanelOnce(DesignBase(fit, g, p))
  BY <1>4 DEF Base
<1>6. "list" \in PanelKey /\ "dlist" \in PanelKey /\ "global" \in Origin /\ "project" \in Origin
  BY DEF PanelKey, Origin
<1>7. CASE scope = "global"
  <2>1. g = layer /\ p = Empty /\ p.list = None /\ p.dlist = None
    BY <1>1, <1>7 DEF Below, Empty
  <2>2. layer.list # None => CodeBase(fit, g, p) = Written(layer.list, "global", "list")
    BY <2>1 DEF CodeBase
  <2>3. layer.dlist # None => DesignBase(fit, g, p) = Written(layer.dlist, "global", "dlist")
    BY <2>1 DEF DesignBase
  <2> QED
    BY <1>5, <1>6, <2>2, <2>3, LayerIs, ListIs DEF OnceIn
<1>8. CASE scope = "project"
  <2>1. p = layer
    BY <1>1, <1>8 DEF Below
  <2>2. layer.list # None => CodeBase(fit, g, p) = Written(layer.list, "project", "list")
    BY <2>1 DEF CodeBase
  <2>3. layer.dlist # None => DesignBase(fit, g, p) = Written(layer.dlist, "project", "dlist")
    BY <2>1 DEF DesignBase
  <2> QED
    BY <1>5, <1>6, <2>2, <2>3, LayerIs, ListIs DEF OnceIn
<1> QED
  BY <1>7, <1>8 DEF Scope

\* A write brings in nothing that was not wrong before.
LEMMA NoWorse ==
  ASSUME FitOK(fit), file \in [Scope -> LayerType], NEW scope \in Scope, NEW layer \in LayerType,
         Problems(scope, layer) \subseteq Problems(scope, file[scope]), NEW d \in BOOLEAN
  PROVE  /\ Solid(InForce(scope, file[scope], d)) => Solid(InForce(scope, layer, d))
         /\ PanelOnce(InForce(scope, file[scope], d)) => PanelOnce(InForce(scope, layer, d))
<1>1. file[scope] \in LayerType
  OBVIOUS
<1>2. Solid(InForce(scope, file[scope], d)) => Solid(InForce(scope, layer, d))
  BY <1>1, ProblemsAre
<1>3. ASSUME PanelOnce(InForce(scope, file[scope], d))
      PROVE  PanelOnce(InForce(scope, layer, d))
  <2>1. InForce(scope, layer, d) \in Seq(Entry) /\ InForce(scope, file[scope], d) \in Seq(Entry)
    BY <1>1, InForceIs
  <2>2. Repeated(InForce(scope, file[scope], d)) = {} /\ Repeated(InForce(scope, layer, d)) \subseteq Nat \ {0}
    BY <1>3, <2>1, RepeatedIs
  <2>3. \A id \in Nat \ {0} : id \notin Repeated(InForce(scope, layer, d))
    BY <1>1, <2>2, ProblemsAre
  <2> QED
    BY <2>1, <2>2, <2>3, RepeatedIs
<1> QED
  BY <1>2, <1>3

\* The panels of files whose ids differ have ids that differ.
LEMMA InForceOnce ==
  ASSUME SeatsTypeOK, ListsOnce, NEW scope \in Scope, NEW d \in BOOLEAN
  PROVE  PanelOnce(InForce(scope, file[scope], d))
<1>1. OnceIn(file["global"]) /\ OnceIn(file["project"]) /\ OnceIn(Empty) /\ Empty \in LayerType
  BY FilesAre, EmptyLayer DEF ListsOnce
<1>2. FitOK(fit) /\ file \in [Scope -> LayerType] /\ file["global"] \in LayerType /\ file["project"] \in LayerType
  BY FilesAre
<1>3. CASE scope = "global"
  <2>1. InForce(scope, file[scope], d) = Composed(fit, file["global"], Empty, d)
    BY <1>2, <1>3, InForceIs
  <2>2. PanelOnce(Composed(fit, file["global"], Empty, d))
    BY <1>1, <1>2, ComposedIs
  <2> QED
    BY <2>1, <2>2
<1>4. CASE scope = "project"
  <2>1. InForce(scope, file[scope], d) = Composed(fit, file["global"], file["project"], d)
    BY <1>2, <1>4, InForceIs
  <2>2. PanelOnce(Composed(fit, file["global"], file["project"], d))
    BY <1>1, <1>2, ComposedIs
  <2> QED
    BY <2>1, <2>2
<1> QED
  BY <1>3, <1>4 DEF Scope

\* What a write has to be for the invariant to survive it: a panel the project comes to list had
\* somebody before, or, of the design rounds, nobody was on the code panel.
LEMMA WriteKeeps ==
  ASSUME SeatsInv, steps < MaxCommands, NEW scope \in Scope, NEW layer \in LayerType, NEW command,
         Write(scope, layer, command),
         scope = "project" /\ file["project"].list = None /\ layer.list # None =>
           Solid(InForce("project", file["project"], FALSE)),
         scope = "project" /\ file["project"].dlist = None /\ layer.dlist # None =>
           \/ Solid(InForce("project", file["project"], TRUE))
           \/ InForce("project", file["project"], FALSE) = <<>>
  PROVE  SeatsInv'
<1>1. /\ Problems(scope, layer) \subseteq Problems(scope, file[scope])
      /\ file' = [file EXCEPT ![scope] = layer] /\ fit' = fit
      /\ bare' = (bare \/ CopiesBare(scope, layer)) /\ steps' = steps + 1
  BY DEF Write
<1>2. SeatsTypeOK /\ ListsOnce /\ GlobalSolid /\ ProjectSolid
  BY DEF SeatsInv
<1>3. /\ FitOK(fit) /\ file \in [Scope -> LayerType]
      /\ file["global"] \in LayerType /\ file["project"] \in LayerType
      /\ "global" \in Scope /\ "project" \in Scope
  BY <1>2, FilesAre
<1>4. file' \in [Scope -> LayerType] /\ file'[scope] = layer /\ \A s \in Scope : s # scope => file'[s] = file[s]
  BY <1>1, <1>3
<1>5. SeatsTypeOK'
  <2>1. bare' \in BOOLEAN
    BY <1>1, <1>2 DEF SeatsTypeOK, CopiesBare
  <2>2. fit' \in Fits /\ steps' \in 0 .. MaxCommands
    BY <1>1, <1>2, SeatsConstantsOK DEF SeatsTypeOK
  <2> QED
    BY <1>4, <2>1, <2>2 DEF SeatsTypeOK
<1>6. ListsOnce'
  <2>1. \A d \in BOOLEAN : PanelOnce(InForce(scope, layer, d))
    BY <1>1, <1>2, <1>3, InForceOnce, NoWorse
  <2>2. OnceIn(layer)
    BY <1>3, <2>1, ListedOnce
  <2>3. ASSUME NEW s \in Scope PROVE OnceIn(file'[s])
    BY <1>2, <1>4, <2>2 DEF ListsOnce
  <2> QED
    BY <2>3 DEF ListsOnce
<1>7. CASE scope = "global"
  <2>1. file'["global"] = layer /\ file'["project"] = file["project"]
    BY <1>3, <1>4, <1>7
  <2>2. ASSUME NEW d \in BOOLEAN
        PROVE  Solid(Composed(fit, layer, Empty, d))
    <3>1. InForce(scope, file[scope], d) = Composed(fit, file["global"], Empty, d)
      BY <1>3, <1>7, InForceIs
    <3>2. InForce(scope, layer, d) = Composed(fit, layer, Empty, d)
      BY <1>3, <1>7, InForceIs
    <3>3. Solid(InForce(scope, file[scope], d))
      BY <1>2, <3>1 DEF GlobalSolid
    <3> QED
      BY <1>1, <1>3, <3>2, <3>3, NoWorse
  <2>3. GlobalSolid'
    BY <1>1, <2>1, <2>2 DEF GlobalSolid
  <2>4. file["project"].list # None => CodePanel(fit, layer, file["project"]) = CodePanel(fit, file["global"], file["project"])
    BY ListedAlone
  <2>5. file["project"].dlist # None => DesignPanel(fit, layer, file["project"]) = DesignPanel(fit, file["global"], file["project"])
    BY ListedAlone
  <2>6. ProjectSolid'
    BY <1>1, <1>2, <2>1, <2>4, <2>5 DEF ProjectSolid
  <2> QED
    BY <1>5, <1>6, <2>3, <2>6 DEF SeatsInv
<1>8. CASE scope = "project"
  <2>1. file'["project"] = layer /\ file'["global"] = file["global"]
    BY <1>3, <1>4, <1>8
  <2>2. GlobalSolid'
    BY <1>1, <1>2, <2>1 DEF GlobalSolid
  <2>3. /\ InForce("project", file["project"], FALSE) = CodePanel(fit, file["global"], file["project"])
        /\ InForce("project", file["project"], TRUE) = DesignPanel(fit, file["global"], file["project"])
        /\ InForce("project", layer, FALSE) = CodePanel(fit, file["global"], layer)
        /\ InForce("project", layer, TRUE) = DesignPanel(fit, file["global"], layer)
    BY <1>3, InForceIs DEF Composed
  <2>4. /\ Solid(InForce("project", file["project"], FALSE)) => Solid(InForce("project", layer, FALSE))
        /\ Solid(InForce("project", file["project"], TRUE)) => Solid(InForce("project", layer, TRUE))
    BY <1>1, <1>3, <1>8, NoWorse
  <2>5. ASSUME layer.list # None
        PROVE  Solid(CodePanel(fit, file["global"], layer))
    BY <1>2, <1>8, <2>3, <2>4, <2>5 DEF ProjectSolid
  <2>6. ASSUME layer.dlist # None
        PROVE  bare' \/ Solid(DesignPanel(fit, file["global"], layer))
    <3>1. CASE file["project"].dlist # None
      BY <1>1, <1>2, <2>3, <2>4, <3>1 DEF ProjectSolid
    <3>2. CASE file["project"].dlist = None
      BY <1>1, <1>8, <2>3, <2>4, <2>6, <3>2 DEF CopiesBare
    <3> QED
      BY <3>1, <3>2
  <2>7. ProjectSolid'
    BY <1>1, <2>1, <2>5, <2>6 DEF ProjectSolid
  <2> QED
    BY <1>5, <1>6, <2>2, <2>7 DEF SeatsInv
<1> QED
  BY <1>7, <1>8 DEF Scope

LEMMA InitSeats == SeatsInit => SeatsInv
<1> SUFFICES ASSUME SeatsInit PROVE SeatsInv
  OBVIOUS
<1>1. /\ file \in Starts /\ fit \in Fits /\ bare = FALSE /\ steps = 0
      /\ \A scope \in Scope : Problems(scope, file[scope]) = {}
  BY DEF SeatsInit
<1>2. SeatsTypeOK
  <2>1. file \in [Scope -> LayerType]
    BY <1>1, SeatsConstantsOK
  <2>2. steps \in 0 .. MaxCommands
    BY <1>1, SeatsConstantsOK
  <2> QED
    BY <1>1, <2>1, <2>2 DEF SeatsTypeOK
<1>3. /\ FitOK(fit) /\ file \in [Scope -> LayerType]
      /\ file["global"] \in LayerType /\ file["project"] \in LayerType
      /\ "global" \in Scope /\ "project" \in Scope
  BY <1>2, FilesAre
<1>4. ASSUME NEW scope \in Scope, NEW d \in BOOLEAN
      PROVE  Solid(InForce(scope, file[scope], d)) /\ PanelOnce(InForce(scope, file[scope], d))
  <2>1. file[scope] \in LayerType /\ InForce(scope, file[scope], d) \in Seq(Entry)
    BY <1>3, InForceIs
  <2>2. Solid(InForce(scope, file[scope], d))
    BY <1>1, <1>3, <2>1, ProblemsAre
  <2>3. Repeated(InForce(scope, file[scope], d)) \subseteq Nat \ {0}
    BY <2>1, RepeatedIs
  <2>4. \A id \in Nat \ {0} : id \notin Repeated(InForce(scope, file[scope], d))
    BY <1>1, <1>3, <2>1, ProblemsAre
  <2> QED
    BY <2>1, <2>2, <2>3, <2>4, RepeatedIs
<1>5. ListsOnce
  <2>1. ASSUME NEW scope \in Scope PROVE OnceIn(file[scope])
    <3>1. file[scope] \in LayerType /\ \A d \in BOOLEAN : PanelOnce(InForce(scope, file[scope], d))
      BY <1>3, <1>4
    <3> QED
      BY <1>3, <3>1, ListedOnce
  <2> QED
    BY <2>1 DEF ListsOnce
<1>6. GlobalSolid
  <2>1. ASSUME NEW d \in BOOLEAN
        PROVE  Solid(Composed(fit, file["global"], Empty, d))
    <3>1. InForce("global", file["global"], d) = Composed(fit, file["global"], Empty, d)
      BY <1>3, InForceIs
    <3> QED
      BY <1>3, <1>4, <3>1
  <2> QED
    BY <2>1 DEF GlobalSolid
<1>7. ProjectSolid
  <2>1. /\ InForce("project", file["project"], FALSE) = CodePanel(fit, file["global"], file["project"])
        /\ InForce("project", file["project"], TRUE) = DesignPanel(fit, file["global"], file["project"])
    BY <1>3, InForceIs DEF Composed
  <2> QED
    BY <1>3, <1>4, <2>1 DEF ProjectSolid
<1> QED
  BY <1>2, <1>5, <1>6, <1>7 DEF SeatsInv

-----------------------------------------------------------------------------
(* Seats: the commands. *)

\* Global lists that are gone leave the fit.
LEMMA FreshSolid ==
  ASSUME NEW f, FitOK(f), NEW g \in LayerType, g.list = None, g.dlist = None
  PROVE  \A d \in BOOLEAN : Solid(Composed(f, g, Empty, d))
<1>1. Empty \in LayerType /\ Empty.list = None /\ Empty.dlist = None
  BY EmptyLayer DEF Empty
<1>2. Has(CodePanel(f, g, Empty)) /\ CodePanel(f, g, Empty) # <<>>
  BY <1>1, CodeBaseIs, CodeIs
<1>3. Has(DesignPanel(f, g, Empty))
  BY <1>1, <1>2, DesignBaseIs, DesignIs
<1> QED
  BY <1>2, <1>3 DEF Solid, Composed

LEMMA ResetKeeps ==
  ASSUME SeatsInv, steps < MaxCommands, NEW scope \in Scope, Reset(scope)
  PROVE  SeatsInv'
<1>1. /\ file' = [file EXCEPT ![scope] = Empty] /\ fit' \in Fits
      /\ steps' = steps + 1 /\ bare' = (bare /\ scope = "global")
  BY DEF Reset
<1>2. SeatsTypeOK /\ ListsOnce /\ GlobalSolid /\ ProjectSolid
  BY DEF SeatsInv
<1>3. /\ FitOK(fit) /\ file \in [Scope -> LayerType]
      /\ file["global"] \in LayerType /\ file["project"] \in LayerType
      /\ "global" \in Scope /\ "project" \in Scope
  BY <1>2, FilesAre
<1>4. Empty \in LayerType /\ OnceIn(Empty) /\ Empty.list = None /\ Empty.dlist = None
  BY EmptyLayer DEF Empty
<1>5. FitOK(fit')
  BY <1>1, SeatsConstantsOK DEF FitOK
<1>6. file' \in [Scope -> LayerType] /\ file'[scope] = Empty /\ \A s \in Scope : s # scope => file'[s] = file[s]
  BY <1>1, <1>3, <1>4
<1>7. SeatsTypeOK'
  <2>1. steps' \in 0 .. MaxCommands
    BY <1>1, <1>2, SeatsConstantsOK DEF SeatsTypeOK
  <2>2. bare' \in BOOLEAN
    BY <1>1, <1>2 DEF SeatsTypeOK
  <2> QED
    BY <1>1, <1>6, <2>1, <2>2 DEF SeatsTypeOK
<1>8. ListsOnce'
  <2>1. ASSUME NEW s \in Scope PROVE OnceIn(file'[s])
    BY <1>2, <1>4, <1>6 DEF ListsOnce
  <2> QED
    BY <2>1 DEF ListsOnce
<1>9. CASE scope = "global"
  <2>1. file'["global"] = Empty /\ file'["project"] = file["project"]
    BY <1>3, <1>6, <1>9
  <2>2. GlobalSolid'
    BY <1>4, <1>5, <2>1, FreshSolid DEF GlobalSolid
  <2>3. file["project"].list # None => CodePanel(fit', Empty, file["project"]) = CodePanel(fit, file["global"], file["project"])
    BY ListedAlone
  <2>4. file["project"].dlist # None => DesignPanel(fit', Empty, file["project"]) = DesignPanel(fit, file["global"], file["project"])
    BY ListedAlone
  <2>5. ProjectSolid'
    BY <1>1, <1>2, <1>9, <2>1, <2>3, <2>4 DEF ProjectSolid
  <2> QED
    BY <1>7, <1>8, <2>2, <2>5 DEF SeatsInv
<1>10. CASE scope = "project"
  <2>1. file'["project"] = Empty /\ file'["global"] = file["global"]
    BY <1>3, <1>6, <1>10
  <2>2. \A d \in BOOLEAN : Solid(Composed(fit', file["global"], Empty, d))
    BY <1>2, <1>3, <1>5, RefitSolid DEF GlobalSolid
  <2>3. GlobalSolid'
    BY <2>1, <2>2 DEF GlobalSolid
  <2>4. ProjectSolid'
    BY <1>4, <2>1 DEF ProjectSolid
  <2> QED
    BY <1>7, <1>8, <2>3, <2>4 DEF SeatsInv
<1> QED
  BY <1>9, <1>10 DEF Scope

LEMMA RefitKeeps == ASSUME SeatsInv, steps < MaxCommands, Refit PROVE SeatsInv'
<1>1. fit' \in Fits /\ file' = file /\ bare' = bare /\ steps' = steps + 1
  BY DEF Refit
<1>2. SeatsTypeOK /\ ListsOnce /\ GlobalSolid /\ ProjectSolid
  BY DEF SeatsInv
<1>3. FitOK(fit) /\ FitOK(fit') /\ file["global"] \in LayerType
  BY <1>1, <1>2, FilesAre, SeatsConstantsOK DEF FitOK
<1>4. SeatsTypeOK'
  BY <1>1, <1>2, SeatsConstantsOK DEF SeatsTypeOK
<1>5. ListsOnce'
  BY <1>1, <1>2 DEF ListsOnce
<1>6. GlobalSolid'
  <2>1. \A d \in BOOLEAN : Solid(Composed(fit', file["global"], Empty, d))
    BY <1>2, <1>3, RefitSolid DEF GlobalSolid
  <2> QED
    BY <1>1, <2>1 DEF GlobalSolid
<1>7. ProjectSolid'
  <2>1. file["project"].list # None => CodePanel(fit', file["global"], file["project"]) = CodePanel(fit, file["global"], file["project"])
    BY ListedAlone
  <2>2. file["project"].dlist # None => DesignPanel(fit', file["global"], file["project"]) = DesignPanel(fit, file["global"], file["project"])
    BY ListedAlone
  <2> QED
    BY <1>1, <1>2, <2>1, <2>2 DEF ProjectSolid
<1> QED
  BY <1>4, <1>5, <1>6, <1>7 DEF SeatsInv

LEMMA SetupKeeps == ASSUME SeatsInv, steps < MaxCommands, SetupPreset PROVE SeatsInv'
<1>1. /\ fit' \in Fits /\ bare' = bare /\ steps' = steps + 1
      /\ file' = [file EXCEPT !["global"].list = None, !["global"].dlist = None]
  BY DEF SetupPreset
<1>2. SeatsTypeOK /\ ListsOnce /\ GlobalSolid /\ ProjectSolid
  BY DEF SeatsInv
<1>3. /\ FitOK(fit') /\ file \in [Scope -> LayerType]
      /\ file["global"] \in LayerType /\ file["project"] \in LayerType
      /\ "global" \in Scope /\ "project" \in Scope
  BY <1>1, <1>2, FilesAre, SeatsConstantsOK DEF FitOK
<1>4. PICK layer : layer = [file["global"] EXCEPT !.list = None, !.dlist = None]
  OBVIOUS
<1>5. layer \in LayerType /\ layer.list = None /\ layer.dlist = None
  BY <1>3, <1>4 DEF LayerType, SeatList
<1>6. file' = [file EXCEPT !["global"] = layer]
  BY <1>1, <1>3, <1>4
<1>7. /\ file' \in [Scope -> LayerType] /\ file'["global"] = layer /\ file'["project"] = file["project"]
      /\ \A s \in Scope : s # "global" => file'[s] = file[s]
  BY <1>3, <1>5, <1>6
<1>8. SeatsTypeOK'
  <2>1. steps' \in 0 .. MaxCommands
    BY <1>1, <1>2, SeatsConstantsOK DEF SeatsTypeOK
  <2> QED
    BY <1>1, <1>2, <1>7, <2>1 DEF SeatsTypeOK
<1>9. ListsOnce'
  <2>1. ASSUME NEW s \in Scope PROVE OnceIn(file'[s])
    BY <1>2, <1>5, <1>7 DEF ListsOnce, OnceIn
  <2> QED
    BY <2>1 DEF ListsOnce
<1>10. GlobalSolid'
  BY <1>3, <1>5, <1>7, FreshSolid DEF GlobalSolid
<1>11. ProjectSolid'
  <2>1. file["project"].list # None => CodePanel(fit', layer, file["project"]) = CodePanel(fit, file["global"], file["project"])
    BY ListedAlone
  <2>2. file["project"].dlist # None => DesignPanel(fit', layer, file["project"]) = DesignPanel(fit, file["global"], file["project"])
    BY ListedAlone
  <2> QED
    BY <1>1, <1>2, <1>7, <2>1, <2>2 DEF ProjectSolid
<1> QED
  BY <1>8, <1>9, <1>10, <1>11 DEF SeatsInv

LEMMA LayersAre == LayerType = [PanelKey -> SeatList]
  BY DEF LayerType, PanelKey

LEMMA AddKeeps ==
  ASSUME SeatsInv, steps < MaxCommands, NEW scope \in Scope, NEW design \in BOOLEAN,
         NEW warned \in BOOLEAN, NEW cond \in BOOLEAN, NEW asked \in NewId \cup {None},
         Add(scope, design, asked, warned, cond)
  PROVE  SeatsInv'
<1>1. SeatsTypeOK
  BY DEF SeatsInv
<1>2. FitOK(fit) /\ file \in [Scope -> LayerType] /\ file[scope] \in LayerType
  BY <1>1, FilesAre
<1>3. PICK taken : taken = IdsIn(InForce(scope, file[scope], design))
  OBVIOUS
<1>4. PICK id : id = IF asked = None THEN Suggest(taken) ELSE asked
  OBVIOUS
<1>5. PICK key : key = IF file[scope][ListKey(design)] # None THEN ListKey(design) ELSE ExtraKey(design)
  OBVIOUS
<1>6. PICK held : held = IF file[scope][key] = None THEN <<>> ELSE file[scope][key]
  OBVIOUS
<1>7. PICK seat : seat = [who |-> steps, id |-> id, warned |-> warned, cond |-> cond]
  OBVIOUS
<1>8. PICK layer : layer = [file[scope] EXCEPT ![key] = Append(held, seat)]
  OBVIOUS
<1>9. PICK command : command = Command([op |-> "add"], scope, design, 0, {}, FALSE)
  OBVIOUS
<1>10. Write(scope, layer, command)
  BY <1>3, <1>4, <1>5, <1>6, <1>7, <1>8, <1>9 DEF Add
<1>11. id \in Nat \ {0}
  <2>1. IsFiniteSet(taken) /\ taken \in SUBSET (Nat \ {0})
    BY <1>2, <1>3, InForceIs, IdsFinite
  <2>2. Suggest(taken) \in Nat \ {0}
    BY <2>1, SuggestNew
  <2> QED
    BY <1>4, <2>2, SeatsConstantsOK
<1>12. seat \in Seat
  BY <1>1, <1>7, <1>11, SeatsConstantsOK DEF Seat, SeatsTypeOK
<1>13. key \in PanelKey /\ ListKey(design) \in {"list", "dlist"} /\ ExtraKey(design) \in {"extra", "dextra"}
  BY <1>5 DEF PanelKey, ListKey, ExtraKey
<1>14. held \in Seq(Seat)
  <2>1. file[scope][key] \in SeatList
    BY <1>2, <1>13 DEF LayerType, PanelKey
  <2> QED
    BY <1>6, <2>1 DEF SeatList
<1>15. Append(held, seat) \in Seq(Seat)
  BY <1>12, <1>14
<1>16. layer \in LayerType /\ \A k \in PanelKey : k # key => layer[k] = file[scope][k]
  <2>1. PICK old, seats : old = file[scope] /\ seats = Append(held, seat)
    OBVIOUS
  <2>2. layer = [old EXCEPT ![key] = seats] /\ old \in LayerType /\ seats \in Seq(Seat) /\ key \in PanelKey
    BY <1>2, <1>8, <1>13, <1>15, <2>1
  <2>3. layer \in LayerType /\ \A k \in PanelKey : k # key => layer[k] = old[k]
    BY <2>2, LayersAre DEF SeatList
  <2> QED
    BY <2>1, <2>3
<1>17. /\ "list" \in PanelKey /\ "dlist" \in PanelKey
       /\ (key = "list" => file[scope].list # None) /\ (key = "dlist" => file[scope].dlist # None)
  BY <1>5, <1>13 DEF PanelKey
<1>18. /\ file[scope].list = None => layer.list = None
       /\ file[scope].dlist = None => layer.dlist = None
  BY <1>16, <1>17
<1> QED
  BY <1>10, <1>16, <1>18, WriteKeeps

\* A change makes a seat of a seat.
LEMMA ChangedIs ==
  ASSUME NEW seat \in Seat, NEW change \in Change, change.op # "remove"
  PROVE  Changed(seat, change) \in Seat
<1>1. \/ change.field = "id" /\ change.to \in Nat \ {0}
      \/ change.field = "cond" /\ change.to \in BOOLEAN
      \/ change.field = "warned" /\ change.to \in BOOLEAN
  BY SeatsConstantsOK DEF Change
<1>2. CASE change.field = "id"
  BY <1>1, <1>2 DEF Seat, Changed
<1>3. CASE change.field = "cond"
  BY <1>1, <1>3 DEF Seat, Changed
<1>4. CASE change.field = "warned"
  BY <1>1, <1>4 DEF Seat, Changed
<1> QED
  BY <1>1, <1>2, <1>3, <1>4

\* What an edit makes of a list is a list.
LEMMA EditedIs ==
  ASSUME NEW seats \in Seq(Seat), NEW i \in DOMAIN seats, NEW change \in Change
  PROVE  Edited(seats, i, change) \in Seq(Seat)
<1>1. PICK n \in Nat : n = Len(seats)
  OBVIOUS
<1>2. i \in 1 .. n /\ \A j \in 1 .. n : seats[j] \in Seat
  BY <1>1
<1>3. CASE change.op = "remove"
  <2>1. /\ \A j \in 1 .. i - 1 : seats[j] \in Seat
        /\ \A j \in i + 1 .. n : seats[j] \in Seat
    BY <1>2
  <2>2. SubSeq(seats, 1, i - 1) \in Seq(Seat)
    BY <1>1, <1>2, <2>1, SubSeqProperties
  <2>3. SubSeq(seats, i + 1, n) \in Seq(Seat)
    BY <1>1, <1>2, <2>1, SubSeqProperties
  <2>4. SubSeq(seats, 1, i - 1) \o SubSeq(seats, i + 1, n) \in Seq(Seat)
    BY <2>2, <2>3, ConcatProperties
  <2> QED
    BY <1>1, <1>3, <2>4 DEF Edited, RemoveAt
<1>4. CASE change.op # "remove"
  <2>1. PICK seat : seat = Changed(seats[i], change)
    OBVIOUS
  <2>2. seat \in Seat
    BY <1>2, <1>4, <2>1, ChangedIs
  <2>3. [seats EXCEPT ![i] = seat] \in Seq(Seat)
    BY <1>1, <1>2, <2>2
  <2>4. Edited(seats, i, change) = [seats EXCEPT ![i] = seat]
    BY <1>4, <2>1 DEF Edited
  <2> QED
    BY <2>3, <2>4
<1> QED
  BY <1>3, <1>4

\* A file that is made to hold its panel holds a list.
LEMMA SeededIs ==
  ASSUME SeatsTypeOK, NEW scope \in Scope, NEW design \in BOOLEAN
  PROVE  /\ Seeded(scope, design) \in LayerType /\ Seeded(scope, design)[ListKey(design)] \in Seq(Seat)
         /\ ListKey(design) \in PanelKey
         /\ \A k \in PanelKey : k # ListKey(design) => Seeded(scope, design)[k] = file[scope][k]
<1>1. FitOK(fit) /\ file \in [Scope -> LayerType] /\ file[scope] \in LayerType /\ file["global"] \in LayerType
  BY FilesAre
<1>2. ListKey(design) \in PanelKey
  BY DEF ListKey, PanelKey
<1>3. PICK old, key : old = file[scope] /\ key = ListKey(design)
  OBVIOUS
<1>4. old \in [PanelKey -> SeatList] /\ key \in PanelKey
  BY <1>1, <1>2, <1>3, LayersAre
<1>5. CASE old[key] # None
  BY <1>1, <1>2, <1>3, <1>4, <1>5 DEF Seeded, SeatList
<1>6. CASE old[key] = None
  <2>1. Seeds(scope, design) \in Seq(Entry)
    <3>1. CASE design
      <4>1. PICK panel, places :
              /\ panel = InForce(scope, file[scope], TRUE)
              /\ places = MayCopy(scope, panel) \ OwnExtras(panel, scope, TRUE)
        OBVIOUS
      <4>2. Seeds(scope, design) = Picked(panel, places)
        BY <3>1, <4>1 DEF Seeds, DesignSeeds
      <4>3. panel \in Seq(Entry)
        BY <1>1, <4>1, InForceIs
      <4> QED
        BY <4>2, <4>3, PickedType
    <3>2. CASE ~design
      <4>1. PICK panel : panel = CodeBelow(scope)
        OBVIOUS
      <4>2. Seeds(scope, design) = Picked(panel, MayCopy(scope, panel))
        BY <3>2, <4>1 DEF Seeds, CodeSeeds
      <4>3. Written(fit.code, "default", "list") \in Seq(Entry)
        BY <1>1, DealtIs DEF FitOK, PanelKey
      <4>4. CodePanel(fit, file["global"], Empty) \in Seq(Entry)
        BY <1>1, EmptyLayer, CodeIs
      <4>5. panel \in Seq(Entry)
        BY <4>1, <4>3, <4>4 DEF CodeBelow
      <4> QED
        BY <4>2, <4>5, PickedType
    <3> QED
      BY <3>1, <3>2
  <2>2. PICK seeds : seeds = Seeds(scope, design)
    OBVIOUS
  <2>3. PICK n \in Nat : n = Len(seeds)
    BY <2>1, <2>2
  <2>4. DOMAIN seeds = 1 .. n /\ \A i \in 1 .. n : seeds[i].seat \in Seat
    <3>1. DOMAIN seeds = 1 .. n /\ \A i \in 1 .. n : seeds[i] \in Entry
      BY <2>1, <2>2, <2>3
    <3> QED
      BY <3>1 DEF Entry
  <2>5. PICK seats : seats = [i \in 1 .. n |-> seeds[i].seat]
    OBVIOUS
  <2>6. seats \in Seq(Seat)
    BY <2>4, <2>5
  <2>7. SeatsOf(seeds) = seats
    <3>1. SeatsOf(seeds) = <<>> \o seats
      BY <2>4, <2>5 DEF SeatsOf
    <3> QED
      BY <2>6, <3>1, ConcatEmptySeq
  <2>8. Seeded(scope, design) = [old EXCEPT ![key] = seats]
    BY <1>3, <1>6, <2>2, <2>7 DEF Seeded
  <2>9. PICK new : new = [old EXCEPT ![key] = seats]
    OBVIOUS
  <2>10. /\ new \in [PanelKey -> SeatList] /\ new[key] = seats
         /\ \A k \in PanelKey : k # key => new[k] = old[k]
    BY <1>4, <2>6, <2>9 DEF SeatList
  <2> QED
    BY <1>3, <1>4, <2>6, <2>8, <2>9, <2>10, LayersAre
<1> QED
  BY <1>5, <1>6

\* A seat of the panel that is not the file's own stands for one that always runs.
LEMMA OtherSolid ==
  ASSUME SeatsInv, NEW design \in BOOLEAN, NEW at \in DOMAIN InForce("project", file["project"], design),
         ~OwnExtra(InForce("project", file["project"], design)[at], "project", design)
  PROVE  /\ ~design /\ file["project"].list = None => Solid(InForce("project", file["project"], FALSE))
         /\ design /\ file["project"].dlist = None =>
              \/ Solid(InForce("project", file["project"], TRUE))
              \/ InForce("project", file["project"], FALSE) = <<>>
<1>1. SeatsTypeOK /\ GlobalSolid
  BY DEF SeatsInv
<1>2. PICK g, p : g = file["global"] /\ p = file["project"]
  OBVIOUS
<1>3. FitOK(fit) /\ file \in [Scope -> LayerType] /\ g \in LayerType /\ p \in LayerType /\ "project" \in Scope
  BY <1>1, <1>2, FilesAre
<1>4. \A d \in BOOLEAN : InForce("project", p, d) = Composed(fit, g, p, d)
  BY <1>2, <1>3, InForceIs
<1>5. Base(fit, g, p, design) # <<>> \/ Extras(g, "global", design) # <<>>
  BY <1>2, <1>3, <1>4, OtherIs
<1>6. Solid(CodePanel(fit, g, Empty)) /\ Solid(DesignPanel(fit, g, Empty))
  BY <1>1, <1>2 DEF GlobalSolid, Composed
<1>7. InForce("project", p, FALSE) = CodePanel(fit, g, p) /\ InForce("project", p, TRUE) = DesignPanel(fit, g, p)
  BY <1>4 DEF Composed
<1>8. ASSUME ~design, p.list = None
      PROVE  Has(CodePanel(fit, g, p))
  <2>1. CodeBase(fit, g, p) # <<>> \/ Extras(g, "global", FALSE) # <<>>
    BY <1>5, <1>8 DEF Base
  <2> QED
    BY <1>3, <1>6, <1>8, <2>1, CodeInherits
<1>9. ASSUME design, p.dlist = None, CodePanel(fit, g, p) # <<>>
      PROVE  Has(DesignPanel(fit, g, p))
  <2>1. DesignBase(fit, g, p) # <<>> \/ Extras(g, "global", TRUE) # <<>>
    BY <1>5, <1>9 DEF Base
  <2> QED
    BY <1>3, <1>6, <1>9, <2>1, DesignInherits
<1> QED
  BY <1>2, <1>7, <1>8, <1>9 DEF Solid

LEMMA EditKeeps ==
  ASSUME SeatsInv, steps < MaxCommands, NEW scope \in Scope, NEW design \in BOOLEAN, NEW by,
         NEW at \in DOMAIN InForce(scope, file[scope], design), NEW change \in Change,
         EditSeat(scope, design, at, by, change)
  PROVE  SeatsInv'
<1>1. SeatsTypeOK
  BY DEF SeatsInv
<1>2. /\ FitOK(fit) /\ file \in [Scope -> LayerType] /\ file[scope] \in LayerType
      /\ file["global"] \in LayerType /\ file["project"] \in LayerType
  BY <1>1, FilesAre
<1>3. PICK panel : panel = InForce(scope, file[scope], design)
  OBVIOUS
<1>4. PICK entry : entry = panel[at]
  OBVIOUS
<1>5. at \in DOMAIN panel
  BY <1>3
<1>6. "list" \in PanelKey /\ "dlist" \in PanelKey /\ ListKey(design) \in PanelKey /\ ExtraKey(design) \in PanelKey
  BY DEF PanelKey, ListKey, ExtraKey
<1>7. CASE OwnExtra(entry, scope, design)
  <2>1. PICK old, key : old = file[scope] /\ key = ExtraKey(design)
    OBVIOUS
  <2>2. PICK new : new = [old EXCEPT ![key] = Edited(@, First({entry.at}), change)]
    OBVIOUS
  <2>3. \E command : Write(scope, new, command)
    BY <1>3, <1>4, <1>7, <2>1, <2>2 DEF EditSeat
  <2>4. old[key] # None /\ entry.at \in DOMAIN old[key]
    <3>1. CASE scope = "global"
      <4>1. panel = Composed(fit, old, Empty, design)
        BY <1>2, <1>3, <2>1, <3>1, InForceIs
      <4> QED
        BY <1>2, <1>4, <1>5, <1>7, <2>1, <3>1, <4>1, EmptyLayer, OwnIs
    <3>2. CASE scope = "project"
      <4>1. panel = Composed(fit, file["global"], old, design)
        BY <1>2, <1>3, <2>1, <3>2, InForceIs
      <4> QED
        BY <1>2, <1>4, <1>5, <1>7, <2>1, <3>2, <4>1, OwnIs
    <3> QED
      BY <3>1, <3>2 DEF Scope
  <2>5. old \in [PanelKey -> SeatList] /\ key \in PanelKey /\ key # "list" /\ key # "dlist"
    BY <1>2, <1>6, <2>1, LayersAre DEF ExtraKey
  <2>6. old[key] \in Seq(Seat)
    BY <2>4, <2>5 DEF SeatList
  <2>7. First({entry.at}) = entry.at
    BY <2>4, <2>6 DEF First
  <2>8. PICK seats : seats = Edited(old[key], entry.at, change)
    OBVIOUS
  <2>9. seats \in Seq(Seat)
    BY <2>4, <2>6, <2>8, EditedIs
  <2>10. new = [old EXCEPT ![key] = seats]
    BY <2>2, <2>5, <2>7, <2>8
  <2>11. new \in LayerType /\ new["list"] = old["list"] /\ new["dlist"] = old["dlist"]
    BY <1>6, <2>5, <2>9, <2>10, LayersAre DEF SeatList
  <2> QED
    BY <2>1, <2>3, <2>11, WriteKeeps
<1>8. CASE ~OwnExtra(entry, scope, design)
  <2>1. PICK layer, key : layer = Seeded(scope, design) /\ key = ListKey(design)
    OBVIOUS
  <2>2. PICK places : places = At(layer[key], entry.seat.id)
    OBVIOUS
  <2>3. PICK new : new = [layer EXCEPT ![key] = Edited(@, First(places), change)]
    OBVIOUS
  <2>4. places # {} /\ \E command : Write(scope, new, command)
    BY <1>3, <1>4, <1>8, <2>1, <2>2, <2>3 DEF EditSeat
  <2>5. /\ layer \in [PanelKey -> SeatList] /\ layer[key] \in Seq(Seat) /\ key \in PanelKey
        /\ \A k \in PanelKey : k # key => layer[k] = file[scope][k]
    BY <1>1, <2>1, SeededIs, LayersAre
  <2>6. First(places) \in DOMAIN layer[key]
    <3>1. places \subseteq DOMAIN layer[key] /\ places \in SUBSET Nat
      BY <2>2, <2>5 DEF At
    <3>2. \E m \in places : \A k \in places : m <= k
      BY <2>4, <3>1, LeastOf
    <3>3. First(places) \in places
      BY <3>2 DEF First
    <3> QED
      BY <3>1, <3>3
  <2>7. PICK seats : seats = Edited(layer[key], First(places), change)
    OBVIOUS
  <2>8. seats \in Seq(Seat)
    BY <2>5, <2>6, <2>7, EditedIs
  <2>9. new = [layer EXCEPT ![key] = seats]
    BY <2>3, <2>5, <2>7
  <2>10. new \in LayerType /\ \A k \in PanelKey : k # key => new[k] = file[scope][k]
    BY <2>5, <2>8, <2>9, LayersAre DEF SeatList
  <2>11. /\ design => new.list = file[scope].list
         /\ ~design => new.dlist = file[scope].dlist
    BY <1>6, <2>1, <2>10 DEF ListKey
  <2>12. scope = "project" /\ file["project"].list = None /\ new.list # None =>
           Solid(InForce("project", file["project"], FALSE))
    BY <1>3, <1>4, <1>5, <1>8, <2>11, OtherSolid
  <2>13. scope = "project" /\ file["project"].dlist = None /\ new.dlist # None =>
           \/ Solid(InForce("project", file["project"], TRUE))
           \/ InForce("project", file["project"], FALSE) = <<>>
    BY <1>3, <1>4, <1>5, <1>8, <2>11, OtherSolid
  <2> QED
    BY <2>4, <2>10, <2>12, <2>13, WriteKeeps
<1> QED
  BY <1>7, <1>8

-----------------------------------------------------------------------------
(* Seats: the theorems. *)

LEMMA SeatsStep == SeatsInv /\ [SeatsNext]_seatVars => SeatsInv'
<1> SUFFICES ASSUME SeatsInv, [SeatsNext]_seatVars PROVE SeatsInv'
  OBVIOUS
<1>1. CASE UNCHANGED seatVars
  BY <1>1 DEF seatVars, SeatsInv, SeatsTypeOK, ListsOnce, GlobalSolid, ProjectSolid
<1>2. CASE SeatsNext
  <2>1. steps < MaxCommands
    BY <1>2 DEF SeatsNext
  <2>2. CASE \E scope \in Scope, design, warned, cond \in BOOLEAN, asked \in NewId \cup {None} :
               Add(scope, design, asked, warned, cond)
    BY <2>1, <2>2, AddKeeps
  <2>3. CASE \E scope \in Scope, design \in BOOLEAN, by \in {"id", "position"} :
               \E at \in DOMAIN InForce(scope, file[scope], design) :
                 \E change \in Change : EditSeat(scope, design, at, by, change)
    BY <2>1, <2>3, EditKeeps
  <2>4. CASE \E scope \in Scope : Reset(scope)
    BY <2>1, <2>4, ResetKeeps
  <2>5. CASE SetupPreset
    BY <2>1, <2>5, SetupKeeps
  <2>6. CASE Refit
    BY <2>1, <2>6, RefitKeeps
  <2> QED
    BY <1>2, <2>2, <2>3, <2>4, <2>5, <2>6 DEF SeatsNext
<1> QED
  BY <1>1, <1>2

\* Files whose invariant holds load.
LEMMA InvLoads == SeatsInv => StaysLoadable
<1> SUFFICES ASSUME SeatsInv,
                    InForce("global", file["global"], FALSE) # <<>>, InForce("global", file["global"], TRUE) # <<>>,
                    InForce("project", file["project"], FALSE) # <<>>, ~bare
             PROVE  Problems("project", file["project"]) = {}
  BY DEF StaysLoadable
<1>1. SeatsTypeOK /\ ListsOnce /\ GlobalSolid /\ ProjectSolid
  BY DEF SeatsInv
<1>2. PICK g, p : g = file["global"] /\ p = file["project"]
  OBVIOUS
<1>3. /\ FitOK(fit) /\ file \in [Scope -> LayerType] /\ g \in LayerType /\ p \in LayerType
      /\ "project" \in Scope /\ "global" \in Scope
  BY <1>1, <1>2, FilesAre
<1>4. /\ InForce("project", p, FALSE) = CodePanel(fit, g, p) /\ InForce("project", p, TRUE) = DesignPanel(fit, g, p)
      /\ InForce("global", g, FALSE) = CodePanel(fit, g, Empty) /\ InForce("global", g, TRUE) = DesignPanel(fit, g, Empty)
  BY <1>2, <1>3, InForceIs DEF Composed
<1>5. Solid(CodePanel(fit, g, Empty)) /\ Solid(DesignPanel(fit, g, Empty))
  BY <1>1, <1>2 DEF GlobalSolid, Composed
<1>6. Solid(InForce("project", p, FALSE))
  <2>1. CASE p.list # None
    BY <1>1, <1>2, <1>4, <2>1 DEF ProjectSolid
  <2>2. CASE p.list = None
    BY <1>2, <1>3, <1>4, <1>5, <2>2, CodeInherits DEF Solid
  <2> QED
    BY <2>1, <2>2
<1>7. Solid(InForce("project", p, TRUE))
  <2>1. CASE p.dlist # None
    BY <1>1, <1>2, <1>4, <2>1 DEF ProjectSolid
  <2>2. CASE p.dlist = None
    BY <1>2, <1>3, <1>4, <1>5, <2>2, DesignInherits DEF Solid
  <2> QED
    BY <2>1, <2>2
<1>8. \A d \in BOOLEAN : Repeated(InForce("project", p, d)) = {}
  <2>1. ASSUME NEW d \in BOOLEAN PROVE Repeated(InForce("project", p, d)) = {}
    <3>1. PanelOnce(InForce("project", p, d)) /\ InForce("project", p, d) \in Seq(Entry)
      BY <1>1, <1>2, <1>3, InForceOnce, InForceIs
    <3> QED
      BY <3>1, RepeatedIs
  <2> QED
    BY <2>1
<1>9. SUFFICES ASSUME NEW q \in Problems("project", p) PROVE FALSE
  BY <1>2
<1>10. PICK d \in BOOLEAN, id \in Nat : q = <<d, id>>
  BY <1>3, ProblemsAre
<1>11. Solid(InForce("project", p, d))
  BY <1>6, <1>7
<1>12. id # 0
  BY <1>3, <1>9, <1>10, <1>11, ProblemsAre
<1>13. id \in Repeated(InForce("project", p, d))
  BY <1>3, <1>9, <1>10, <1>12, ProblemsAre
<1> QED
  BY <1>8, <1>13

\* The files only ever hold lists of seats.
THEOREM SeatsTypeCorrect == SeatsSpec => []SeatsTypeOK
<1>1. SeatsInv => SeatsTypeOK
  BY DEF SeatsInv
<1> QED
  BY <1>1, InitSeats, SeatsStep, PTL DEF SeatsSpec

\* Nothing is written that a later command refuses to load, for any panels that a preset may come to
\* and any files to start with, however many commands follow (panel_write_problems, fold_extras).
THEOREM WrittenLoads == SeatsSpec => []StaysLoadable
  BY InitSeats, SeatsStep, InvLoads, PTL DEF SeatsSpec

\* The design rounds' panel hangs on nothing of the code panel that a file or the fit takes from it.
LEMMA DesignSame ==
  ASSUME NEW f, NEW g, NEW p, NEW g2, NEW p2,
         g2.dlist = g.dlist, g2.dextra = g.dextra, p2.dlist = p.dlist, p2.dextra = p.dextra,
         \/ {g.dlist, p.dlist} # {None}
         \/ FitDesign(f, g, p) /\ FitDesign(f, g2, p2)
  PROVE  DesignPanel(f, g2, p2) = DesignPanel(f, g, p)
<1>1. ListKey(TRUE) = "dlist" /\ ExtraKey(TRUE) = "dextra"
  BY DEF ListKey, ExtraKey
<1>2. Beside(g2, p2, TRUE) = Beside(g, p, TRUE)
  BY <1>1 DEF Beside
<1>3. CASE p.dlist # None
  BY <1>2, <1>3 DEF DesignPanel
<1>4. CASE p.dlist = None /\ g.dlist # None
  BY <1>2, <1>4 DEF DesignPanel
<1>5. CASE p.dlist = None /\ g.dlist = None
  BY <1>2, <1>5 DEF DesignPanel
<1> QED
  BY <1>3, <1>4, <1>5

\* A write that leaves the design panel's own keys alone.
LEMMA CodeWriteMoves ==
  ASSUME SeatsTypeOK, NEW scope \in Scope, NEW layer, NEW asked, NEW at, NEW left, NEW moved,
         Write(scope, layer, Command(asked, scope, FALSE, at, left, moved)),
         layer.dlist = file[scope].dlist, layer.dextra = file[scope].dextra,
         FitDesign(fit, Below(scope, file[scope])[1], Below(scope, file[scope])[2]) => layer.list = None \/ moved
  PROVE  DesignMovesAloud'
<1>1. PICK g, p : g = Below(scope, file[scope])[1] /\ p = Below(scope, file[scope])[2]
  OBVIOUS
<1>2. PICK g2, p2 : g2 = Below(scope, layer)[1] /\ p2 = Below(scope, layer)[2]
  OBVIOUS
<1>3. /\ file' = [file EXCEPT ![scope] = layer] /\ fit' = fit
      /\ last' = Command(asked, scope, FALSE, at, left, moved)
  BY DEF Write
<1>4. /\ last'.scope = scope /\ last'.moved = moved /\ last'.follows = FollowsCode(scope)
      /\ last'.rounds = SeatsOf(InForce(scope, file[scope], TRUE))
  BY <1>3 DEF Command
<1>5. file \in [Scope -> LayerType] /\ file'[scope] = layer
  BY <1>3, FilesAre
<1>6. InForce(scope, file[scope], TRUE) = DesignPanel(fit, g, p)
  BY <1>1 DEF InForce, Composed
<1>7. InForce(last.scope, file[last.scope], TRUE)' = DesignPanel(fit, g2, p2)
  <2>0. PICK pair : pair = Below(last.scope, file[last.scope])'
    OBVIOUS
  <2>1. InForce(last.scope, file[last.scope], TRUE)' = DesignPanel(fit', pair[1], pair[2])
    BY <2>0 DEF InForce, Composed
  <2>2. CASE scope = "global"
    <3>1. pair = <<layer, Empty>>
      BY <1>4, <1>5, <2>0, <2>2 DEF Below
    <3>2. g2 = layer /\ p2 = Empty
      BY <1>2, <2>2 DEF Below
    <3> QED
      BY <1>3, <2>1, <3>1, <3>2
  <2>3. CASE scope = "project"
    <3>1. file'["global"] = file["global"]
      BY <1>3, <1>5, <2>3 DEF Scope
    <3>2. pair = <<file["global"], layer>>
      BY <1>4, <1>5, <2>0, <2>3, <3>1 DEF Below
    <3>3. g2 = file["global"] /\ p2 = layer
      BY <1>2, <2>3 DEF Below
    <3> QED
      BY <1>3, <2>1, <3>2, <3>3
  <2> QED
    BY <2>2, <2>3 DEF Scope
<1>8. /\ g2.dlist = g.dlist /\ g2.dextra = g.dextra /\ p2.dlist = p.dlist /\ p2.dextra = p.dextra
      /\ FitDesign(fit, g, p) /\ layer.list = None => FitDesign(fit, g2, p2)
  <2>1. CASE scope = "global"
    BY <1>1, <1>2, <2>1 DEF Below, FitDesign
  <2>2. CASE scope = "project"
    BY <1>1, <1>2, <2>2 DEF Below, FitDesign
  <2> QED
    BY <2>1, <2>2 DEF Scope
<1>9. CASE moved
  BY <1>4, <1>9 DEF DesignMovesAloud
<1>10. CASE FollowsCode(scope)
  BY <1>4, <1>10 DEF DesignMovesAloud
<1>11. CASE ~moved /\ ~FollowsCode(scope)
  <2>1. \/ {g.dlist, p.dlist} # {None}
        \/ FitDesign(fit, g, p) /\ FitDesign(fit, g2, p2)
    BY <1>1, <1>8, <1>11 DEF FollowsCode
  <2>2. DesignPanel(fit, g2, p2) = DesignPanel(fit, g, p)
    BY <1>8, <2>1, DesignSame
  <2> QED
    BY <1>4, <1>6, <1>7, <2>2 DEF DesignMovesAloud
<1> QED
  BY <1>9, <1>10, <1>11

LEMMA MovesStep == SeatsInv /\ DesignMovesAloud /\ [SeatsNext]_seatVars => DesignMovesAloud'
<1> SUFFICES ASSUME SeatsInv, DesignMovesAloud, [SeatsNext]_seatVars PROVE DesignMovesAloud'
  OBVIOUS
<1>0. SeatsTypeOK /\ \A s \in Scope : file[s] \in LayerType
  BY FilesAre DEF SeatsInv
<1>1. CASE UNCHANGED seatVars
  <2>1. file' = file /\ fit' = fit /\ last' = last
    BY <1>1 DEF seatVars
  <2>2. InForce(last.scope, file[last.scope], TRUE)' = InForce(last.scope, file[last.scope], TRUE)
    BY <2>1 DEF InForce, Below
  <2> QED
    BY <2>1, <2>2 DEF DesignMovesAloud
<1>2. ASSUME NEW scope \in Scope, NEW design \in BOOLEAN, NEW warned \in BOOLEAN, NEW cond \in BOOLEAN,
             NEW asked \in NewId \cup {None}, Add(scope, design, asked, warned, cond)
      PROVE  DesignMovesAloud'
  <2>1. PICK key, held, seat :
          /\ key = IF file[scope][ListKey(design)] # None THEN ListKey(design) ELSE ExtraKey(design)
          /\ Write(scope, [file[scope] EXCEPT ![key] = Append(held, seat)],
                   Command([op |-> "add"], scope, design, 0, {}, FALSE))
    BY <1>2 DEF Add
  <2>2. CASE design
    <3>1. last'.design = TRUE
      BY <2>1, <2>2 DEF Write, Command
    <3> QED
      BY <3>1 DEF DesignMovesAloud
  <2>3. CASE ~design
    <3>1. PICK layer : layer = [file[scope] EXCEPT ![key] = Append(held, seat)]
      OBVIOUS
    <3>2. key \in {"list", "extra"} /\ (key = "list" => file[scope].list # None)
      BY <2>1, <2>3 DEF ListKey, ExtraKey
    <3>3. file[scope] \in [PanelKey -> SeatList]
      BY <1>0, LayersAre
    <3>4. layer.dlist = file[scope].dlist /\ layer.dextra = file[scope].dextra
      BY <3>1, <3>2, <3>3 DEF PanelKey
    <3>5. FitDesign(fit, Below(scope, file[scope])[1], Below(scope, file[scope])[2]) => layer.list = None
      <4>1. FitDesign(fit, Below(scope, file[scope])[1], Below(scope, file[scope])[2]) => file[scope].list = None
        BY DEF FitDesign, Below, Scope
      <4> QED
        BY <3>1, <3>2, <3>3, <4>1 DEF PanelKey
    <3>6. Write(scope, layer, Command([op |-> "add"], scope, FALSE, 0, {}, FALSE))
      BY <2>1, <2>3, <3>1
    <3> QED
      BY <1>0, <3>4, <3>5, <3>6, CodeWriteMoves
  <2> QED
    BY <2>2, <2>3
<1>3. ASSUME NEW scope \in Scope, NEW design \in BOOLEAN, NEW by,
             NEW at \in DOMAIN InForce(scope, file[scope], design), NEW change \in Change,
             EditSeat(scope, design, at, by, change)
      PROVE  DesignMovesAloud'
  <2>1. CASE design
    <3>1. \E layer, command : Write(scope, layer, command) /\ command.design = TRUE
      BY <1>3, <2>1 DEF EditSeat, Command
    <3>2. last'.design = TRUE
      BY <3>1 DEF Write
    <3> QED
      BY <3>2 DEF DesignMovesAloud
  <2>2. CASE ~design
    <3>1. ListKey(design) = "list" /\ ExtraKey(design) = "extra" /\ design = FALSE
      BY <2>2 DEF ListKey, ExtraKey
    <3>2. file[scope] \in [PanelKey -> SeatList]
      BY <1>0, LayersAre
    <3>3. PICK entry : entry = InForce(scope, file[scope], FALSE)[at]
      OBVIOUS
    <3>4. CASE OwnExtra(entry, scope, FALSE)
      <4>1. PICK layer : layer = [file[scope] EXCEPT !["extra"] = Edited(@, First({entry.at}), change)]
        OBVIOUS
      <4>2. Write(scope, layer, Command(change, scope, FALSE, at, {}, FALSE))
        BY <1>3, <3>1, <3>3, <3>4, <4>1 DEF EditSeat
      <4>3. layer.list = file[scope].list /\ layer.dlist = file[scope].dlist /\ layer.dextra = file[scope].dextra
        BY <3>2, <4>1 DEF PanelKey
      <4>4. FitDesign(fit, Below(scope, file[scope])[1], Below(scope, file[scope])[2]) => layer.list = None
        BY <4>3 DEF FitDesign, Below, Scope
      <4> QED
        BY <1>0, <4>2, <4>3, <4>4, CodeWriteMoves
    <3>5. CASE ~OwnExtra(entry, scope, FALSE)
      <4>1. PICK seeded : seeded = Seeded(scope, FALSE)
        OBVIOUS
      <4>2. PICK layer : layer = [seeded EXCEPT !["list"] = Edited(@, First(At(seeded["list"], entry.seat.id)), change)]
        OBVIOUS
      <4>3. PICK moved : moved = (~design /\ ~OwnExtra(entry, scope, FALSE) /\ SaysMoved(scope, layer))
        OBVIOUS
      <4>4. Write(scope, layer, Command(change, scope, FALSE, at, LeftOut(scope, FALSE), moved))
        BY <1>3, <3>1, <3>3, <3>5, <4>1, <4>2, <4>3 DEF EditSeat
      <4>5. /\ seeded \in [PanelKey -> SeatList]
            /\ seeded["dlist"] = file[scope]["dlist"] /\ seeded["dextra"] = file[scope]["dextra"]
        BY <1>0, <3>1, <4>1, SeededIs, LayersAre DEF PanelKey
      <4>6. layer.dlist = file[scope].dlist /\ layer.dextra = file[scope].dextra
        BY <4>2, <4>5 DEF PanelKey
      <4>7. ASSUME FitDesign(fit, Below(scope, file[scope])[1], Below(scope, file[scope])[2])
            PROVE  moved
        <5>1. SUFFICES SaysMoved(scope, layer)
          BY <2>2, <3>5, <4>3
        <5>2. PICK old, fresh : old = file[scope] /\ fresh = [layer EXCEPT !.list = None]
          OBVIOUS
        <5>3. fresh.list = None /\ fresh.dlist = old.dlist
          BY <4>2, <4>5, <4>6, <5>2 DEF PanelKey
        <5>4. CASE scope = "global"
          <6>1. FitDesign(fit, old, Empty)
            BY <4>7, <5>2, <5>4 DEF Below
          <6>2. old.list = None /\ fit.design # None /\ FitDesign(fit, fresh, Empty)
            BY <5>3, <6>1 DEF FitDesign
          <6> QED
            BY <5>2, <5>4, <6>2 DEF SaysMoved
        <5>5. CASE scope = "project"
          <6>1. FitDesign(fit, file["global"], old)
            BY <4>7, <5>2, <5>5 DEF Below
          <6>2. /\ old.list = None /\ file["global"].list = None /\ fit.design # None
                /\ FitDesign(fit, file["global"], fresh)
            BY <5>3, <6>1 DEF FitDesign
          <6> QED
            BY <5>2, <5>5, <6>2 DEF SaysMoved
        <5> QED
          BY <5>4, <5>5 DEF Scope
      <4> QED
        BY <1>0, <4>6, <4>7, <4>4, CodeWriteMoves
    <3> QED
      BY <3>4, <3>5
  <2> QED
    BY <2>1, <2>2
<1>4. CASE (\E scope \in Scope : Reset(scope)) \/ SetupPreset \/ Refit
  <2>1. last'.op \in {"reset", "setup", "refit"}
    BY <1>4 DEF Reset, SetupPreset, Refit, NoCommand
  <2> QED
    BY <2>1 DEF DesignMovesAloud
<1> QED
  BY <1>1, <1>2, <1>3, <1>4 DEF SeatsNext

\* An edit of the code panel moves the design rounds only where they run that panel, or aloud, for
\* any panels (reviewers_hold_design_panel, _frozen_panel_note).
THEOREM DesignRoundsMoveAloud == SeatsSpec => []DesignMovesAloud
<1>1. SeatsInit => DesignMovesAloud
  BY DEF SeatsInit, DesignMovesAloud, NoCommand
<1> QED
  BY <1>1, InitSeats, SeatsStep, MovesStep, PTL DEF SeatsSpec

-----------------------------------------------------------------------------
(* Seats: an edit lands on the seat it names. *)

\* What holds at 0 and goes up holds all the way.
LEMMA Climb ==
  ASSUME NEW N \in Nat, NEW T \in SUBSET (0 .. N), 0 \in T, \A n \in 1 .. N : n - 1 \in T => n \in T
  PROVE  \A n \in 0 .. N : n \in T
<1> DEFINE Bad == {n \in 0 .. N : n \notin T}
<1> SUFFICES ASSUME Bad # {} PROVE FALSE
  OBVIOUS
<1>1. PICK m \in Bad : \A k \in Bad : m <= k
  <2>1. Bad \in SUBSET Nat
    OBVIOUS
  <2> HIDE DEF Bad
  <2> QED
    BY <2>1, LeastOf
<1>2. m \in 1 .. N /\ m - 1 \in 0 .. N /\ m - 1 \notin Bad
  BY <1>1
<1> QED
  BY <1>1, <1>2

\* A pick goes along its panel, and takes what is at its places.
Picks(f, s, places, S) ==
  /\ \A n \in 0 .. Len(s) : f[n] \in Seq(S)
  /\ f[0] = <<>>
  /\ \A n \in 1 .. Len(s) : f[n] = IF n \in places THEN Append(f[n - 1], s[n]) ELSE f[n - 1]

LEMMA PickIs ==
  ASSUME NEW S, NEW s \in Seq(S), NEW places
  PROVE  \E f : Picks(f, s, places, S) /\ Picked(s, places) = f[Len(s)]
<1>0. Len(s) \in Nat /\ \A n \in 1 .. Len(s) : s[n] \in S
  OBVIOUS
<1> DEFINE f == CHOOSE f : f = [n \in 0 .. Len(s) |->
                  IF n = 0 THEN <<>> ELSE IF n \in places THEN Append(f[n - 1], s[n]) ELSE f[n - 1]]
<1>1. \E g : g = [n \in 0 .. Len(s) |->
                  IF n = 0 THEN <<>> ELSE IF n \in places THEN Append(g[n - 1], s[n]) ELSE g[n - 1]]
  <2>1. PICK g : IsPick(g, s, places, Len(s))
    <3> HIDE DEF f
    <3> QED
      BY <1>0, PickExists
  <2> QED
    BY <2>1 DEF IsPick
<1>2. f = [n \in 0 .. Len(s) |->
                  IF n = 0 THEN <<>> ELSE IF n \in places THEN Append(f[n - 1], s[n]) ELSE f[n - 1]]
  BY <1>1
<1>3. Picked(s, places) = f[Len(s)]
  BY DEF Picked
<1> HIDE DEF f
<1>4. f[0] = <<>> /\ \A n \in 1 .. Len(s) : f[n] = IF n \in places THEN Append(f[n - 1], s[n]) ELSE f[n - 1]
  <2>1. \A n \in 0 .. Len(s) : f[n] = IF n = 0 THEN <<>> ELSE IF n \in places THEN Append(f[n - 1], s[n]) ELSE f[n - 1]
    BY <1>2
  <2>2. 0 \in 0 .. Len(s) /\ \A n \in 1 .. Len(s) : n \in 0 .. Len(s) /\ n # 0
    BY <1>0
  <2> QED
    BY <2>1, <2>2
<1> DEFINE T == {n \in 0 .. Len(s) : f[n] \in Seq(S)}
<1>5. 0 \in T
  <2>1. f[0] \in Seq(S) /\ 0 \in 0 .. Len(s)
    BY <1>0, <1>4, EmptySeq
  <2> QED
    BY <2>1
<1>6. ASSUME NEW n \in 1 .. Len(s), n - 1 \in T PROVE n \in T
  <2>1. Append(f[n - 1], s[n]) \in Seq(S)
    BY <1>0, <1>6
  <2>2. f[n] = IF n \in places THEN Append(f[n - 1], s[n]) ELSE f[n - 1]
    BY <1>4
  <2>3. f[n] \in Seq(S)
    BY <1>6, <2>1, <2>2
  <2> QED
    BY <2>3
<1>7. T \in SUBSET (0 .. Len(s))
  OBVIOUS
<1>8. \A n \in 0 .. Len(s) : n \in T
  <2>8. \A n \in 1 .. Len(s) : n - 1 \in T => n \in T
    BY <1>6
  <2> HIDE DEF T
  <2>9. \A n \in 0 .. Len(s) : n \in T
    BY <1>0, <1>5, <1>7, <2>8, Climb
  <2> QED
    BY <1>0, <2>9
<1> QED
  BY <1>3, <1>4, <1>8 DEF Picks

\* Two sequences that agree everywhere are one.
LEMMA SameSeq ==
  ASSUME NEW S, NEW s \in Seq(S), NEW t \in Seq(S), Len(s) = Len(t), \A i \in 1 .. Len(s) : s[i] = t[i]
  PROVE  s = t
  OBVIOUS

\* Picking every place leaves a panel as it is.
LEMMA PickAll ==
  ASSUME NEW S, NEW s \in Seq(S), NEW places, DOMAIN s \subseteq places
  PROVE  Picked(s, places) = s
<1>0. Len(s) \in Nat /\ DOMAIN s = 1 .. Len(s)
  OBVIOUS
<1>1. PICK f : Picks(f, s, places, S) /\ Picked(s, places) = f[Len(s)]
  BY PickIs
<1> DEFINE T == {n \in 0 .. Len(s) : Len(f[n]) = n /\ \A i \in 1 .. n : f[n][i] = s[i]}
<1>2. 0 \in T
  BY <1>0, <1>1 DEF Picks
<1>3. ASSUME NEW n \in 1 .. Len(s), n - 1 \in T PROVE n \in T
  <2>1. f[n] = Append(f[n - 1], s[n]) /\ f[n - 1] \in Seq(S) /\ s[n] \in S
    <3>1. n \in places /\ n - 1 \in 0 .. Len(s) /\ s[n] \in S
      BY <1>0
    <3> QED
      BY <1>1, <3>1 DEF Picks
  <2>2. Len(f[n]) = n /\ f[n][n] = s[n] /\ \A i \in 1 .. n - 1 : f[n][i] = f[n - 1][i]
    BY <1>3, <2>1, AppendProperties
  <2>3. \A i \in 1 .. n : i = n \/ i \in 1 .. n - 1
    OBVIOUS
  <2> QED
    BY <1>3, <2>2, <2>3
<1>4. T \in SUBSET (0 .. Len(s))
  OBVIOUS
<1>5. Len(s) \in T
  <2>8. \A n \in 1 .. Len(s) : n - 1 \in T => n \in T
    BY <1>3
  <2> HIDE DEF T
  <2>9. \A n \in 0 .. Len(s) : n \in T
    BY <1>0, <1>2, <1>4, <2>8, Climb
  <2> QED
    BY <1>0, <2>9
<1> QED
  BY <1>0, <1>1, <1>5, SameSeq DEF Picks

\* Picking of two panels beside each other is picking of each.
Beyond(places, n) == {j \in Nat : n + j \in places}

LEMMA PickConcat ==
  ASSUME NEW S, NEW s \in Seq(S), NEW t \in Seq(S), NEW places
  PROVE  Picked(s \o t, places) = Picked(s, places) \o Picked(t, Beyond(places, Len(s)))
<1>0. /\ Len(s) \in Nat /\ DOMAIN s = 1 .. Len(s) /\ Len(t) \in Nat /\ DOMAIN t = 1 .. Len(t)
      /\ s \o t \in Seq(S) /\ Len(s \o t) = Len(s) + Len(t)
      /\ \A i \in 1 .. Len(s) : (s \o t)[i] = s[i]
  BY ConcatProperties
<1>1. PICK f : Picks(f, s \o t, places, S) /\ Picked(s \o t, places) = f[Len(s \o t)]
  BY <1>0, PickIs
<1>2. PICK g : Picks(g, s, places, S) /\ Picked(s, places) = g[Len(s)]
  BY PickIs
<1>3. PICK h : Picks(h, t, Beyond(places, Len(s)), S) /\ Picked(t, Beyond(places, Len(s))) = h[Len(t)]
  BY PickIs
<1> DEFINE T == {n \in 0 .. Len(s) : f[n] = g[n]}
           U == {n \in 0 .. Len(t) : f[Len(s) + n] = g[Len(s)] \o h[n]}
<1>4. Len(s) \in T
  <2>1. 0 \in T
    BY <1>0, <1>1, <1>2 DEF Picks
  <2>2. ASSUME NEW n \in 1 .. Len(s), n - 1 \in T PROVE n \in T
    <3>1. n \in 1 .. Len(s \o t) /\ (s \o t)[n] = s[n]
      BY <1>0
    <3>2. f[n] = IF n \in places THEN Append(f[n - 1], s[n]) ELSE f[n - 1]
      BY <1>1, <3>1 DEF Picks
    <3>3. g[n] = IF n \in places THEN Append(g[n - 1], s[n]) ELSE g[n - 1]
      BY <1>2 DEF Picks
    <3> QED
      BY <2>2, <3>2, <3>3
  <2>3. T \in SUBSET (0 .. Len(s))
    OBVIOUS
  <2>8. \A n \in 1 .. Len(s) : n - 1 \in T => n \in T
    BY <2>2
  <2> HIDE DEF T
  <2>9. \A n \in 0 .. Len(s) : n \in T
    BY <1>0, <2>1, <2>3, <2>8, Climb
  <2> QED
    BY <1>0, <2>9
<1>5. Len(t) \in U
  <2>0. g[Len(s)] \in Seq(S) /\ \A n \in 0 .. Len(t) : h[n] \in Seq(S)
    BY <1>0, <1>2, <1>3 DEF Picks
  <2>1. 0 \in U
    <3>1. f[Len(s) + 0] = g[Len(s)] /\ h[0] = <<>>
      BY <1>0, <1>3, <1>4 DEF Picks
    <3>2. g[Len(s)] \o <<>> = g[Len(s)]
      BY <2>0, ConcatEmptySeq
    <3>3. f[Len(s) + 0] = g[Len(s)] \o h[0]
      BY <3>1, <3>2
    <3>4. 0 \in 0 .. Len(t)
      BY <1>0
    <3> QED
      BY <3>3, <3>4
  <2>2. ASSUME NEW n \in 1 .. Len(t), n - 1 \in U PROVE n \in U
    <3>0. Len(s) + n \in 1 .. Len(s \o t) /\ Len(s) + n - 1 = Len(s) + (n - 1) /\ n - 1 \in 0 .. Len(t)
      BY <1>0
    <3>1. (s \o t)[Len(s) + n] = t[n] /\ t[n] \in S
      <4>1. (s \o t)[Len(s) + n] = t[Len(s) + n - Len(s)] /\ Len(s) + n - Len(s) = n
        BY <1>0, <3>0, ConcatProperties
      <4> QED
        BY <1>0, <4>1
    <3>2. f[Len(s) + n] = IF Len(s) + n \in places THEN Append(f[Len(s) + (n - 1)], t[n]) ELSE f[Len(s) + (n - 1)]
      BY <1>1, <3>0, <3>1 DEF Picks
    <3>3. h[n] = IF n \in Beyond(places, Len(s)) THEN Append(h[n - 1], t[n]) ELSE h[n - 1]
      BY <1>3 DEF Picks
    <3>4. n \in Beyond(places, Len(s)) <=> Len(s) + n \in places
      BY <1>0 DEF Beyond
    <3>5. PICK a, b, x : a = g[Len(s)] /\ b = h[n - 1] /\ x = t[n]
      OBVIOUS
    <3>6. f[Len(s) + (n - 1)] = a \o b
      BY <2>2, <3>5
    <3>7. a \in Seq(S) /\ b \in Seq(S) /\ x \in S
      BY <2>0, <3>0, <3>1, <3>5
    <3>8. Append(a \o b, x) = a \o Append(b, x)
      <4>0. PICK y : y = <<x>>
        OBVIOUS
      <4>1. y \in Seq(S)
        BY <3>7, <4>0
      <4>2. a \o b \in Seq(S)
        BY <3>7, ConcatProperties
      <4>3. Append(a \o b, x) = (a \o b) \o y
        BY <3>7, <4>0, <4>2, AppendIsConcat
      <4>4. Append(b, x) = b \o y
        BY <3>7, <4>0, AppendIsConcat
      <4>5. (a \o b) \o y = a \o (b \o y)
        <5> HIDE DEF T, U
        <5> QED
          BY <3>7, <4>1, ConcatAssociative, SMTT(30)
      <4> QED
        BY <4>3, <4>4, <4>5
    <3>9. f[Len(s) + n] = g[Len(s)] \o h[n]
      BY <3>2, <3>3, <3>4, <3>5, <3>6, <3>8
    <3>10. n \in 0 .. Len(t)
      BY <1>0
    <3> QED
      BY <3>9, <3>10
  <2>3. U \in SUBSET (0 .. Len(t))
    OBVIOUS
  <2>8. \A n \in 1 .. Len(t) : n - 1 \in U => n \in U
    BY <2>2
  <2> HIDE DEF U
  <2>9. \A n \in 0 .. Len(t) : n \in U
    BY <1>0, <2>1, <2>3, <2>8, Climb
  <2> QED
    BY <1>0, <2>9
<1> QED
  BY <1>0, <1>1, <1>2, <1>3, <1>5

\* What is picked are seats of the panel, at its places, and each once.
LEMMA PickOnce ==
  ASSUME NEW s \in Seq(Seat), NEW places
  PROVE  /\ \A i \in DOMAIN Picked(s, places) : \E k \in DOMAIN s : k \in places /\ Picked(s, places)[i] = s[k]
         /\ IdsOnce(s) => IdsOnce(Picked(s, places))
<1>0. Len(s) \in Nat /\ DOMAIN s = 1 .. Len(s)
  OBVIOUS
<1>1. PICK f : Picks(f, s, places, Seat) /\ Picked(s, places) = f[Len(s)]
  BY PickIs
<1> DEFINE T == {n \in 0 .. Len(s) :
                   /\ \A i \in DOMAIN f[n] : \E k \in 1 .. n : k \in places /\ f[n][i] = s[k]
                   /\ IdsOnce(s) => IdsOnce(f[n])}
<1>2. 0 \in T
  BY <1>0, <1>1 DEF Picks, IdsOnce
<1>3. ASSUME NEW n \in 1 .. Len(s), n - 1 \in T PROVE n \in T
  <2>1. PICK old, new : old = f[n - 1] /\ new = f[n]
    OBVIOUS
  <2>2. old \in Seq(Seat) /\ new = IF n \in places THEN Append(old, s[n]) ELSE old
    BY <1>0, <1>1, <2>1 DEF Picks
  <2>3. \A i \in DOMAIN old : \E k \in 1 .. n - 1 : k \in places /\ old[i] = s[k]
    BY <1>3, <2>1
  <2>4. IdsOnce(s) => IdsOnce(old)
    BY <1>3, <2>1
  <2>5. CASE n \notin places
    <3>1. new = old
      BY <2>2, <2>5
    <3>2. \A k \in 1 .. n - 1 : k \in 1 .. n
      OBVIOUS
    <3>3. \A i \in DOMAIN new : \E k \in 1 .. n : k \in places /\ new[i] = s[k]
      BY <2>3, <3>1, <3>2
    <3>4. IdsOnce(s) => IdsOnce(new)
      BY <2>4, <3>1
    <3> QED
      BY <2>1, <3>3, <3>4
  <2>6. CASE n \in places
    <3>1. PICK m \in Nat : m = Len(old)
      BY <2>2
    <3>2. DOMAIN old = 1 .. m /\ DOMAIN new = 1 .. m + 1 /\ new[m + 1] = s[n] /\ \A i \in 1 .. m : new[i] = old[i]
      BY <1>0, <2>2, <2>6, <3>1, AppendProperties
    <3>3. \A i \in DOMAIN new : i \in 1 .. m \/ i = m + 1
      BY <3>2
    <3>4. \A i \in DOMAIN new : \E k \in 1 .. n : k \in places /\ new[i] = s[k]
      <4> SUFFICES ASSUME NEW i \in DOMAIN new PROVE \E k \in 1 .. n : k \in places /\ new[i] = s[k]
        OBVIOUS
      <4>1. CASE i = m + 1
        BY <2>6, <3>2, <4>1
      <4>2. CASE i \in 1 .. m
        <5>1. PICK k \in 1 .. n - 1 : k \in places /\ old[i] = s[k]
          BY <2>3, <3>2, <4>2
        <5> QED
          BY <3>2, <4>2, <5>1
      <4> QED
        BY <3>3, <4>1, <4>2
    <3>5. ASSUME IdsOnce(s) PROVE IdsOnce(new)
      <4>1. ASSUME NEW i \in 1 .. m PROVE new[i].id # new[m + 1].id
        <5>1. PICK k \in 1 .. n - 1 : old[i] = s[k]
          BY <2>3, <3>2
        <5>2. k # n /\ k \in DOMAIN s /\ n \in DOMAIN s
          BY <1>0
        <5> QED
          BY <3>2, <3>5, <5>1, <5>2 DEF IdsOnce
      <4>2. \A i, j \in 1 .. m : new[i].id = new[j].id => i = j
        BY <2>4, <3>2, <3>5 DEF IdsOnce
      <4> QED
        BY <3>2, <3>3, <4>1, <4>2 DEF IdsOnce
    <3> QED
      BY <2>1, <3>4, <3>5
  <2> QED
    BY <2>5, <2>6
<1>4. T \in SUBSET (0 .. Len(s))
  OBVIOUS
<1>5. Len(s) \in T
  <2>8. \A n \in 1 .. Len(s) : n - 1 \in T => n \in T
    BY <1>3
  <2> HIDE DEF T
  <2>9. \A n \in 0 .. Len(s) : n \in T
    BY <1>0, <1>2, <1>4, <2>8, Climb
  <2> QED
    BY <1>0, <2>9
<1> QED
  BY <1>0, <1>1, <1>5

\* Picking of the image of a panel is the image of the pick.
LEMMA PickImage ==
  ASSUME NEW S, NEW s \in Seq(S), NEW T, NEW t \in Seq(T), NEW places, NEW m \in [S -> T],
         Len(t) = Len(s), \A i \in 1 .. Len(s) : t[i] = m[s[i]]
  PROVE  /\ Len(Picked(t, places)) = Len(Picked(s, places))
         /\ \A i \in 1 .. Len(Picked(s, places)) : Picked(t, places)[i] = m[Picked(s, places)[i]]
<1>0. Len(s) \in Nat /\ DOMAIN s = 1 .. Len(s) /\ DOMAIN t = 1 .. Len(s)
  OBVIOUS
<1>1. PICK f : Picks(f, s, places, S) /\ Picked(s, places) = f[Len(s)]
  BY PickIs
<1>2. PICK g : Picks(g, t, places, T) /\ Picked(t, places) = g[Len(s)]
  BY PickIs
<1> DEFINE U == {n \in 0 .. Len(s) : Len(g[n]) = Len(f[n]) /\ \A i \in 1 .. Len(f[n]) : g[n][i] = m[f[n][i]]}
<1>3. 0 \in U
  BY <1>0, <1>1, <1>2 DEF Picks
<1>4. ASSUME NEW n \in 1 .. Len(s), n - 1 \in U PROVE n \in U
  <2>1. PICK a, b : a = f[n - 1] /\ b = g[n - 1]
    OBVIOUS
  <2>2. /\ a \in Seq(S) /\ b \in Seq(T) /\ s[n] \in S /\ t[n] \in T
        /\ f[n] = IF n \in places THEN Append(a, s[n]) ELSE a
        /\ g[n] = IF n \in places THEN Append(b, t[n]) ELSE b
    BY <1>0, <1>1, <1>2, <2>1 DEF Picks
  <2>3. Len(b) = Len(a) /\ \A i \in 1 .. Len(a) : b[i] = m[a[i]]
    BY <1>4, <2>1
  <2>4. CASE n \notin places
    <3>1. f[n] = a /\ g[n] = b
      BY <2>2, <2>4
    <3> QED
      BY <2>3, <3>1
  <2>5. CASE n \in places
    <3>1. PICK k \in Nat : k = Len(a)
      BY <2>2
    <3>2. PICK x, y : x = Append(a, s[n]) /\ y = Append(b, t[n])
      OBVIOUS
    <3>3. /\ Len(x) = k + 1 /\ x[k + 1] = s[n] /\ \A i \in 1 .. k : x[i] = a[i]
          /\ Len(y) = k + 1 /\ y[k + 1] = t[n] /\ \A i \in 1 .. k : y[i] = b[i]
      BY <2>2, <2>3, <3>1, <3>2, AppendProperties
    <3>4. \A i \in 1 .. k : y[i] = m[x[i]]
      BY <2>3, <3>1, <3>3
    <3>5. y[k + 1] = m[x[k + 1]]
      BY <1>0, <3>3
    <3>6. \A i \in 1 .. k + 1 : i \in 1 .. k \/ i = k + 1
      OBVIOUS
    <3>7. Len(y) = Len(x) /\ \A i \in 1 .. Len(x) : y[i] = m[x[i]]
      BY <3>3, <3>4, <3>5, <3>6
    <3>8. f[n] = x /\ g[n] = y
      BY <2>2, <2>5, <3>2
    <3> QED
      BY <3>7, <3>8
  <2> QED
    BY <2>4, <2>5
<1>5. U \in SUBSET (0 .. Len(s))
  OBVIOUS
<1>6. Len(s) \in U
  <2>8. \A n \in 1 .. Len(s) : n - 1 \in U => n \in U
    BY <1>4
  <2> HIDE DEF U
  <2>9. \A n \in 0 .. Len(s) : n \in U
    BY <1>0, <1>3, <1>5, <2>8, Climb
  <2> QED
    BY <1>0, <2>9
<1> QED
  BY <1>1, <1>2, <1>6

\* What is left of a sequence without one of it.
LEMMA RemovedIs ==
  ASSUME NEW S, NEW s \in Seq(S), NEW r \in 1 .. Len(s)
  PROVE  /\ RemoveAt(s, r) \in Seq(S) /\ Len(RemoveAt(s, r)) = Len(s) - 1
         /\ \A i \in 1 .. Len(s) - 1 : RemoveAt(s, r)[i] = IF i < r THEN s[i] ELSE s[i + 1]
<1>0. PICK m \in Nat : m = Len(s)
  OBVIOUS
<1>1. \A i \in 1 .. m : s[i] \in S
  BY <1>0
<1>2. PICK a, b : a = SubSeq(s, 1, r - 1) /\ b = SubSeq(s, r + 1, m)
  OBVIOUS
<1>3. a \in Seq(S) /\ Len(a) = r - 1 /\ \A i \in 1 .. r - 1 : a[i] = s[i]
  <2>1. 1 \in Int /\ r - 1 \in Int /\ \A i \in 1 .. r - 1 : s[i] \in S
    BY <1>0, <1>1
  <2>2. /\ a \in Seq(S) /\ Len(a) = IF 1 <= r - 1 THEN r - 1 - 1 + 1 ELSE 0
        /\ \A i \in 1 .. r - 1 - 1 + 1 : a[i] = s[1 + i - 1]
    BY <1>2, <2>1, SubSeqProperties
  <2> QED
    BY <1>0, <2>2
<1>4. b \in Seq(S) /\ Len(b) = m - r /\ \A i \in 1 .. m - r : b[i] = s[r + i]
  <2>1. r + 1 \in Int /\ m \in Int /\ \A i \in r + 1 .. m : s[i] \in S
    BY <1>0, <1>1
  <2>2. /\ b \in Seq(S) /\ Len(b) = IF r + 1 <= m THEN m - (r + 1) + 1 ELSE 0
        /\ \A i \in 1 .. m - (r + 1) + 1 : b[i] = s[r + 1 + i - 1]
    BY <1>2, <2>1, SubSeqProperties
  <2> QED
    BY <1>0, <2>2
<1>5. /\ a \o b \in Seq(S) /\ Len(a \o b) = m - 1
      /\ \A i \in 1 .. m - 1 : (a \o b)[i] = IF i <= r - 1 THEN a[i] ELSE b[i - (r - 1)]
  <2>1. a \o b \in Seq(S) /\ Len(a \o b) = Len(a) + Len(b)
    BY <1>3, <1>4, ConcatProperties
  <2>2. \A i \in 1 .. Len(a) + Len(b) : (a \o b)[i] = IF i <= Len(a) THEN a[i] ELSE b[i - Len(a)]
    BY <1>3, <1>4, ConcatProperties
  <2>3. Len(a) = r - 1 /\ Len(a) + Len(b) = m - 1
    BY <1>0, <1>3, <1>4
  <2> QED
    BY <2>1, <2>2, <2>3
<1>6. \A i \in 1 .. m - 1 : (a \o b)[i] = IF i < r THEN s[i] ELSE s[i + 1]
  <2> SUFFICES ASSUME NEW i \in 1 .. m - 1 PROVE (a \o b)[i] = IF i < r THEN s[i] ELSE s[i + 1]
    OBVIOUS
  <2>1. CASE i < r
    BY <1>0, <1>3, <1>5, <2>1
  <2>2. CASE ~(i < r)
    <3>1. i - (r - 1) \in 1 .. m - r /\ r + (i - (r - 1)) = i + 1 /\ ~(i <= r - 1)
      BY <1>0, <2>2
    <3>2. (a \o b)[i] = b[i - (r - 1)]
      BY <1>5, <3>1
    <3>3. b[i - (r - 1)] = s[r + (i - (r - 1))]
      BY <1>4, <3>1
    <3> QED
      BY <2>2, <3>1, <3>2, <3>3
  <2> QED
    BY <2>1, <2>2
<1>7. RemoveAt(s, r) = a \o b
  BY <1>0, <1>2 DEF RemoveAt
<1> QED
  BY <1>0, <1>5, <1>6, <1>7

\* A sequence, the same without one of it, and the same with another in its place.
EditedAt(u, v, w, r, e, x) == r \in 1 .. Len(u) /\ u[r] = e /\ v = RemoveAt(u, r) /\ w = [u EXCEPT ![r] = x]

LEMMA EditsFirst ==
  ASSUME NEW S, NEW u \in Seq(S), NEW e \in S, NEW x \in S
  PROVE  EditedAt(Append(u, e), u, Append(u, x), Len(u) + 1, e, x)
<1>0. PICK m \in Nat : m = Len(u)
  OBVIOUS
<1>1. PICK p, q : p = Append(u, e) /\ q = Append(u, x)
  OBVIOUS
<1>2. /\ p \in Seq(S) /\ Len(p) = m + 1 /\ p[m + 1] = e /\ \A i \in 1 .. m : p[i] = u[i]
      /\ q \in Seq(S) /\ Len(q) = m + 1 /\ q[m + 1] = x /\ \A i \in 1 .. m : q[i] = u[i]
  BY <1>0, <1>1, AppendProperties
<1>3. RemoveAt(p, m + 1) = u
  <2>1. m + 1 \in 1 .. Len(p) /\ Len(p) - 1 = m
    BY <1>0, <1>2
  <2>2. /\ RemoveAt(p, m + 1) \in Seq(S) /\ Len(RemoveAt(p, m + 1)) = m
        /\ \A i \in 1 .. m : RemoveAt(p, m + 1)[i] = IF i < m + 1 THEN p[i] ELSE p[i + 1]
    BY <1>2, <2>1, RemovedIs
  <2>3. \A i \in 1 .. m : RemoveAt(p, m + 1)[i] = u[i]
    BY <1>2, <2>2
  <2> QED
    BY <1>0, <2>2, <2>3, SameSeq
<1>4. q = [p EXCEPT ![m + 1] = x]
  <2>1. PICK z : z = [p EXCEPT ![m + 1] = x]
    OBVIOUS
  <2>2. z \in Seq(S) /\ Len(z) = m + 1 /\ \A i \in 1 .. m + 1 : z[i] = IF i = m + 1 THEN x ELSE p[i]
    BY <1>0, <1>2, <2>1, ExceptSeq
  <2>3. \A i \in 1 .. m + 1 : q[i] = z[i]
    <3>1. \A i \in 1 .. m + 1 : i = m + 1 \/ (i \in 1 .. m /\ i # m + 1)
      OBVIOUS
    <3> QED
      BY <1>2, <2>2, <3>1
  <2> QED
    BY <1>2, <2>1, <2>2, <2>3, SameSeq
<1> QED
  BY <1>0, <1>1, <1>2, <1>3, <1>4 DEF EditedAt

LEMMA EditsOn ==
  ASSUME NEW S, NEW u \in Seq(S), NEW v, NEW w, NEW r, NEW e \in S, NEW x \in S, NEW y \in S, EditedAt(u, v, w, r, e, x)
  PROVE  EditedAt(Append(u, y), Append(v, y), Append(w, y), r, e, x)
<1>0. PICK m \in Nat : m = Len(u)
  OBVIOUS
<1>1. r \in 1 .. m /\ u[r] = e /\ v = RemoveAt(u, r) /\ w = [u EXCEPT ![r] = x]
  BY <1>0 DEF EditedAt
<1>2. v \in Seq(S) /\ Len(v) = m - 1 /\ \A i \in 1 .. m - 1 : v[i] = IF i < r THEN u[i] ELSE u[i + 1]
  BY <1>0, <1>1, RemovedIs
<1>3. w \in Seq(S) /\ Len(w) = m /\ \A i \in 1 .. m : w[i] = IF i = r THEN x ELSE u[i]
  BY <1>0, <1>1, ExceptSeq
<1>4. PICK p, q, z : p = Append(u, y) /\ q = Append(v, y) /\ z = Append(w, y)
  OBVIOUS
<1>5. p \in Seq(S) /\ Len(p) = m + 1 /\ p[m + 1] = y /\ \A i \in 1 .. m : p[i] = u[i]
  BY <1>0, <1>4, AppendProperties
<1>6. q \in Seq(S) /\ Len(q) = m /\ q[m] = y /\ \A i \in 1 .. m - 1 : q[i] = v[i]
  BY <1>2, <1>4, AppendProperties
<1>7. z \in Seq(S) /\ Len(z) = m + 1 /\ z[m + 1] = y /\ \A i \in 1 .. m : z[i] = w[i]
  BY <1>3, <1>4, AppendProperties
<1>8. q = RemoveAt(p, r)
  <2>1. r \in 1 .. Len(p) /\ Len(p) - 1 = m
    BY <1>0, <1>1, <1>5
  <2>2. PICK d : d = RemoveAt(p, r)
    OBVIOUS
  <2>3. d \in Seq(S) /\ Len(d) = m /\ \A i \in 1 .. m : d[i] = IF i < r THEN p[i] ELSE p[i + 1]
    BY <1>5, <2>1, <2>2, RemovedIs
  <2>4. \A i \in 1 .. m : d[i] = q[i]
    <3> SUFFICES ASSUME NEW i \in 1 .. m PROVE d[i] = q[i]
      OBVIOUS
    <3>1. CASE i = m
      BY <1>1, <1>5, <1>6, <2>3, <3>1
    <3>2. CASE i < r
      <4>1. i \in 1 .. m - 1
        BY <1>1, <3>2
      <4> QED
        BY <1>2, <1>5, <1>6, <2>3, <3>2, <4>1
    <3>3. CASE ~(i < r) /\ i # m
      <4>1. i \in 1 .. m - 1 /\ i + 1 \in 1 .. m
        BY <3>3
      <4> QED
        BY <1>2, <1>5, <1>6, <2>3, <3>3, <4>1
    <3> QED
      BY <3>1, <3>2, <3>3
  <2> QED
    BY <1>6, <2>2, <2>3, <2>4, SameSeq
<1>9. z = [p EXCEPT ![r] = x]
  <2>1. PICK d : d = [p EXCEPT ![r] = x]
    OBVIOUS
  <2>2. d \in Seq(S) /\ Len(d) = m + 1 /\ \A i \in 1 .. m + 1 : d[i] = IF i = r THEN x ELSE p[i]
    BY <1>1, <1>5, <2>1, ExceptSeq
  <2>3. \A i \in 1 .. m + 1 : i = m + 1 \/ i \in 1 .. m
    OBVIOUS
  <2>4. \A i \in 1 .. m + 1 : z[i] = d[i]
    BY <1>1, <1>3, <1>5, <1>7, <2>2, <2>3
  <2> QED
    BY <1>7, <2>1, <2>2, <2>4, SameSeq
<1>10. r \in 1 .. Len(p) /\ p[r] = e
  BY <1>1, <1>5
<1> QED
  BY <1>4, <1>8, <1>9, <1>10 DEF EditedAt

\* How many are picked of the first n places.
Rank(places, n) == Len(Picked([i \in 1 .. n |-> i], places))

LEMMA RankIs ==
  ASSUME NEW S, NEW s \in Seq(S), NEW places, NEW f, Picks(f, s, places, S), NEW a \in 1 .. Len(s)
  PROVE  Len(f[a]) = Rank(places, a)
<1>0. Len(s) \in Nat /\ a \in Nat
  OBVIOUS
<1>1. PICK u : u = [i \in 1 .. a |-> i]
  OBVIOUS
<1>2. u \in Seq(Nat) /\ Len(u) = a
  BY <1>0, <1>1
<1>3. PICK g : Picks(g, u, places, Nat) /\ Picked(u, places) = g[a]
  BY <1>2, PickIs
<1> DEFINE T == {n \in 0 .. a : Len(f[n]) = Len(g[n])}
<1>4. 0 \in T
  BY <1>0, <1>2, <1>3 DEF Picks
<1>5. ASSUME NEW n \in 1 .. a, n - 1 \in T PROVE n \in T
  <2>0. n \in 1 .. Len(s) /\ n - 1 \in 0 .. Len(s) /\ n - 1 \in 0 .. a /\ n \in 0 .. a
    BY <1>0
  <2>1. PICK p, q : p = f[n - 1] /\ q = g[n - 1]
    OBVIOUS
  <2>2. p \in Seq(S) /\ q \in Seq(Nat) /\ s[n] \in S /\ u[n] \in Nat
    BY <1>1, <1>2, <1>3, <2>0, <2>1 DEF Picks
  <2>3. f[n] = IF n \in places THEN Append(p, s[n]) ELSE p
    BY <2>0, <2>1 DEF Picks
  <2>4. g[n] = IF n \in places THEN Append(q, u[n]) ELSE q
    BY <1>2, <1>3, <2>1 DEF Picks
  <2>5. Len(p) = Len(q)
    BY <1>5, <2>1
  <2>6. Len(Append(p, s[n])) = Len(p) + 1 /\ Len(Append(q, u[n])) = Len(q) + 1
    BY <2>2, AppendProperties
  <2>7. Len(f[n]) = Len(g[n])
    BY <2>3, <2>4, <2>5, <2>6
  <2> QED
    BY <2>0, <2>7
<1>6. T \in SUBSET (0 .. a)
  OBVIOUS
<1>7. \A n \in 0 .. a : n \in T
  <2>1. \A n \in 1 .. a : n - 1 \in T => n \in T
    BY <1>5
  <2> HIDE DEF T
  <2> QED
    BY <1>0, <1>4, <1>6, <2>1, Climb
<1> QED
  BY <1>0, <1>1, <1>3, <1>7 DEF Rank

LEMMA RankAll ==
  ASSUME NEW places, NEW a \in Nat, 1 .. a \subseteq places
  PROVE  Rank(places, a) = a
<1>1. PICK u : u = [i \in 1 .. a |-> i]
  OBVIOUS
<1>2. u \in Seq(Nat) /\ Len(u) = a /\ DOMAIN u = 1 .. a
  BY <1>1
<1>3. Picked(u, places) = u
  BY <1>2, PickAll
<1> QED
  BY <1>1, <1>2, <1>3 DEF Rank

\* An edit of what is picked of a panel is a pick of the edited panel.
LEMMA PickEdit ==
  ASSUME NEW S, NEW s \in Seq(S), NEW places, NEW a \in 1 .. Len(s), a \in places, NEW x \in S
  PROVE  /\ Picked(s, places) \in Seq(S)
         /\ EditedAt(Picked(s, places), Picked(s, places \ {a}), Picked([s EXCEPT ![a] = x], places), Rank(places, a), s[a], x)
<1>0. Len(s) \in Nat /\ DOMAIN s = 1 .. Len(s) /\ a \in Nat /\ s[a] \in S
  OBVIOUS
<1>1. PICK f : Picks(f, s, places, S) /\ Picked(s, places) = f[Len(s)]
  BY PickIs
<1>2. PICK t : t = [s EXCEPT ![a] = x]
  OBVIOUS
<1>3. t \in Seq(S) /\ Len(t) = Len(s) /\ \A i \in 1 .. Len(s) : t[i] = IF i = a THEN x ELSE s[i]
  BY <1>2, ExceptSeq
<1>4. PICK g : Picks(g, s, places \ {a}, S) /\ Picked(s, places \ {a}) = g[Len(s)]
  BY PickIs
<1>5. PICK h : Picks(h, t, places, S) /\ Picked(t, places) = h[Len(s)]
  BY <1>3, PickIs
<1>6. PICK r : r = Rank(places, a)
  OBVIOUS
<1>7. Len(f[a]) = r
  BY <1>1, <1>6, RankIs
<1> DEFINE T == {n \in 0 .. Len(s) : /\ n < a => g[n] = f[n] /\ h[n] = f[n]
                                     /\ n >= a => EditedAt(f[n], g[n], h[n], r, s[a], x)}
<1>8. 0 \in T
  <2>1. f[0] = <<>> /\ g[0] = <<>> /\ h[0] = <<>>
    BY <1>1, <1>4, <1>5 DEF Picks
  <2> QED
    BY <1>0, <2>1
<1>9. ASSUME NEW n \in 1 .. Len(s), n - 1 \in T PROVE n \in T
  <2>0. n - 1 \in 0 .. Len(s) /\ n \in 0 .. Len(s) /\ s[n] \in S /\ t[n] \in S
    BY <1>0, <1>3
  <2>1. PICK u, v, w : u = f[n - 1] /\ v = g[n - 1] /\ w = h[n - 1]
    OBVIOUS
  <2>2. u \in Seq(S) /\ v \in Seq(S) /\ w \in Seq(S)
    BY <1>1, <1>3, <1>4, <1>5, <2>0, <2>1 DEF Picks
  <2>3. f[n] = IF n \in places THEN Append(u, s[n]) ELSE u
    BY <1>1, <2>1 DEF Picks
  <2>4. g[n] = IF n \in places \ {a} THEN Append(v, s[n]) ELSE v
    BY <1>4, <2>1 DEF Picks
  <2>5. h[n] = IF n \in places THEN Append(w, t[n]) ELSE w
    BY <1>3, <1>5, <2>1 DEF Picks
  <2>6. n - 1 < a => v = u /\ w = u
    BY <1>9, <2>1
  <2>7. n - 1 >= a => EditedAt(u, v, w, r, s[a], x)
    BY <1>9, <2>1
  <2>8. CASE n < a
    <3>1. n - 1 < a /\ n # a /\ ~(n >= a)
      BY <1>0, <2>8
    <3>2. v = u /\ w = u /\ t[n] = s[n]
      BY <1>3, <2>6, <3>1
    <3>3. g[n] = f[n] /\ h[n] = f[n]
      BY <2>3, <2>4, <2>5, <3>1, <3>2
    <3> QED
      BY <2>0, <3>1, <3>3
  <2>9. CASE n = a
    <3>1. n - 1 < a /\ ~(n < a)
      BY <1>0, <2>9
    <3>2. v = u /\ w = u /\ t[n] = x
      BY <1>3, <2>6, <2>9, <3>1
    <3>3. f[n] = Append(u, s[a]) /\ g[n] = u /\ h[n] = Append(u, x)
      BY <2>3, <2>4, <2>5, <2>9, <3>2
    <3>4. r = Len(u) + 1
      BY <1>0, <1>7, <2>2, <2>9, <3>3, AppendProperties
    <3>5. EditedAt(Append(u, s[a]), u, Append(u, x), Len(u) + 1, s[a], x)
      BY <1>0, <2>2, EditsFirst
    <3>6. EditedAt(f[n], g[n], h[n], r, s[a], x)
      BY <3>3, <3>4, <3>5
    <3> QED
      BY <2>0, <3>1, <3>6
  <2>10. CASE n > a
    <3>1. n - 1 >= a /\ ~(n < a) /\ n # a
      BY <1>0, <2>10
    <3>2. EditedAt(u, v, w, r, s[a], x) /\ t[n] = s[n]
      BY <1>3, <2>7, <3>1
    <3>3. EditedAt(Append(u, s[n]), Append(v, s[n]), Append(w, s[n]), r, s[a], x)
      BY <1>0, <2>0, <2>2, <3>2, EditsOn
    <3>4. EditedAt(f[n], g[n], h[n], r, s[a], x)
      BY <2>3, <2>4, <2>5, <3>1, <3>2, <3>3
    <3> QED
      BY <2>0, <3>1, <3>4
  <2> QED
    BY <1>0, <2>8, <2>9, <2>10
<1>10. T \in SUBSET (0 .. Len(s))
  OBVIOUS
<1>11. \A n \in 0 .. Len(s) : n \in T
  <2>1. \A n \in 1 .. Len(s) : n - 1 \in T => n \in T
    BY <1>9
  <2> HIDE DEF T
  <2> QED
    BY <1>0, <1>8, <1>10, <2>1, Climb
<1>12. EditedAt(f[Len(s)], g[Len(s)], h[Len(s)], r, s[a], x) /\ f[Len(s)] \in Seq(S)
  BY <1>0, <1>1, <1>11 DEF Picks
<1> QED
  BY <1>1, <1>2, <1>4, <1>5, <1>6, <1>12

\* Picking at places that are the same of a panel.
LEMMA PickSame ==
  ASSUME NEW S, NEW s \in Seq(S), NEW places, NEW others,
         \A i \in 1 .. Len(s) : i \in places <=> i \in others
  PROVE  Picked(s, places) = Picked(s, others)
<1>0. Len(s) \in Nat
  OBVIOUS
<1>1. PICK f : Picks(f, s, places, S) /\ Picked(s, places) = f[Len(s)]
  BY PickIs
<1>2. PICK g : Picks(g, s, others, S) /\ Picked(s, others) = g[Len(s)]
  BY PickIs
<1> DEFINE T == {n \in 0 .. Len(s) : f[n] = g[n]}
<1>3. 0 \in T
  BY <1>0, <1>1, <1>2 DEF Picks
<1>4. ASSUME NEW n \in 1 .. Len(s), n - 1 \in T PROVE n \in T
  <2>1. f[n] = IF n \in places THEN Append(f[n - 1], s[n]) ELSE f[n - 1]
    BY <1>1 DEF Picks
  <2>2. g[n] = IF n \in others THEN Append(g[n - 1], s[n]) ELSE g[n - 1]
    BY <1>2 DEF Picks
  <2> QED
    BY <1>0, <1>4, <2>1, <2>2
<1>5. T \in SUBSET (0 .. Len(s))
  OBVIOUS
<1>6. \A n \in 0 .. Len(s) : n \in T
  <2>1. \A n \in 1 .. Len(s) : n - 1 \in T => n \in T
    BY <1>4
  <2> HIDE DEF T
  <2> QED
    BY <1>0, <1>3, <1>5, <2>1, Climb
<1> QED
  BY <1>0, <1>1, <1>2, <1>6

LEMMA PickNone ==
  ASSUME NEW S, NEW s \in Seq(S), NEW places, \A i \in 1 .. Len(s) : i \notin places
  PROVE  Picked(s, places) = <<>>
<1>0. Len(s) \in Nat
  OBVIOUS
<1>1. PICK f : Picks(f, s, places, S) /\ Picked(s, places) = f[Len(s)]
  BY PickIs
<1> DEFINE T == {n \in 0 .. Len(s) : f[n] = <<>>}
<1>3. 0 \in T
  BY <1>0, <1>1 DEF Picks
<1>4. ASSUME NEW n \in 1 .. Len(s), n - 1 \in T PROVE n \in T
  <2>1. f[n] = IF n \in places THEN Append(f[n - 1], s[n]) ELSE f[n - 1]
    BY <1>1 DEF Picks
  <2> QED
    BY <1>0, <1>4, <2>1
<1>5. T \in SUBSET (0 .. Len(s))
  OBVIOUS
<1>6. \A n \in 0 .. Len(s) : n \in T
  <2>1. \A n \in 1 .. Len(s) : n - 1 \in T => n \in T
    BY <1>4
  <2> HIDE DEF T
  <2> QED
    BY <1>0, <1>3, <1>5, <2>1, Climb
<1> QED
  BY <1>0, <1>1, <1>6

\* One sequence after another, one with another element at a place, and three in a row.
Cat(s, t) == s \o t
Put(s, i, x) == [s EXCEPT ![i] = x]
Three(A, B, C) == Cat(Cat(A, B), C)

\* Places that keep what is around the middle of a sequence, and of the middle what is at some of its own.
Keeps(S, kept, A, B, C, places) ==
  /\ A \in Seq(S) /\ B \in Seq(S) /\ C \in Seq(S)
  /\ \A i \in 1 .. Len(A) : i \in kept
  /\ \A j \in 1 .. Len(B) : j \in places <=> Len(A) + j \in kept
  /\ \A k \in 1 .. Len(C) : Len(A) + Len(B) + k \in kept

LEMMA PickAcross ==
  ASSUME NEW S, NEW A, NEW B, NEW C, NEW kept, NEW places,
         Keeps(S, kept, A, B, C, places)
  PROVE  Picked(Three(A, B, C), kept) = Three(A, Picked(B, places), C)
<1>0. /\ Len(A) \in Nat /\ Len(B) \in Nat /\ Len(C) \in Nat
      /\ DOMAIN A = 1 .. Len(A) /\ DOMAIN B = 1 .. Len(B) /\ DOMAIN C = 1 .. Len(C)
      /\ A \in Seq(S) /\ B \in Seq(S) /\ C \in Seq(S)
  <2>1. A \in Seq(S) /\ B \in Seq(S) /\ C \in Seq(S)
    BY DEF Keeps
  <2> QED
    BY <2>1
<1>1. PICK AB : AB = A \o B
  OBVIOUS
<1>2. AB \in Seq(S) /\ Len(AB) = Len(A) + Len(B)
  BY <1>0, <1>1, ConcatProperties
<1>3. Picked(AB \o C, kept) = Picked(AB, kept) \o Picked(C, Beyond(kept, Len(AB)))
  BY <1>0, <1>2, PickConcat
<1>4. Picked(C, Beyond(kept, Len(AB))) = C
  <2>1. \A k \in DOMAIN C : k \in Beyond(kept, Len(AB))
    BY <1>0, <1>2 DEF Beyond, Keeps
  <2> QED
    BY <1>0, <2>1, PickAll
<1>5. Picked(AB, kept) = Picked(A, kept) \o Picked(B, Beyond(kept, Len(A)))
  BY <1>0, <1>1, PickConcat
<1>6. Picked(A, kept) = A
  <2>1. DOMAIN A \subseteq kept
    BY <1>0 DEF Keeps
  <2> QED
    BY <1>0, <2>1, PickAll
<1>7. Picked(B, Beyond(kept, Len(A))) = Picked(B, places)
  <2>1. \A j \in 1 .. Len(B) : j \in Beyond(kept, Len(A)) <=> j \in places
    BY <1>0 DEF Beyond, Keeps
  <2> QED
    BY <1>0, <2>1, PickSame
<1> QED
  BY <1>1, <1>3, <1>4, <1>5, <1>6, <1>7 DEF Three, Cat

\* A seat but for its id.
Blank(seat) == [seat EXCEPT !.id = 0]
Face == [who: Int, id: {0}, warned: BOOLEAN, cond: BOOLEAN]

LEMMA BlankIs ==
  ASSUME NEW seat \in Seat
  PROVE  /\ Blank(seat) \in Face
         /\ \A other \in Seat :
              Blank(seat) = Blank(other) <=>
                seat.who = other.who /\ seat.warned = other.warned /\ seat.cond = other.cond
<1>1. Blank(seat) \in Face
  BY DEF Blank, Face, Seat
<1>2. ASSUME NEW other \in Seat
      PROVE  Blank(seat) = Blank(other) <=>
               seat.who = other.who /\ seat.warned = other.warned /\ seat.cond = other.cond
  <2>1. PICK a, b : a = Blank(seat) /\ b = Blank(other)
    OBVIOUS
  <2>2. a \in Face /\ b \in Face
    BY <2>1 DEF Blank, Face, Seat
  <2>3. a.who = seat.who /\ a.warned = seat.warned /\ a.cond = seat.cond /\ a.id = 0
    BY <2>1 DEF Blank, Seat
  <2>4. b.who = other.who /\ b.warned = other.warned /\ b.cond = other.cond /\ b.id = 0
    BY <2>1 DEF Blank, Seat
  <2>5. a = b <=> a.who = b.who /\ a.warned = b.warned /\ a.cond = b.cond /\ a.id = b.id
    BY <2>2 DEF Face
  <2> QED
    BY <2>1, <2>3, <2>4, <2>5
<1> QED
  BY <1>1, <1>2

LEMMA NamelessIs ==
  ASSUME NEW seats \in Seq(Seat)
  PROVE  /\ Nameless(seats) \in Seq(Face) /\ Len(Nameless(seats)) = Len(seats)
         /\ \A i \in 1 .. Len(seats) : Nameless(seats)[i] = Blank(seats[i])
<1>0. Len(seats) \in Nat /\ DOMAIN seats = 1 .. Len(seats) /\ \A i \in 1 .. Len(seats) : seats[i] \in Seat
  OBVIOUS
<1>1. PICK n : n = [i \in 1 .. Len(seats) |-> Blank(seats[i])]
  OBVIOUS
<1>2. \A i \in 1 .. Len(seats) : Blank(seats[i]) \in Face
  BY <1>0, BlankIs
<1>3. n \in Seq(Face) /\ Len(n) = Len(seats)
  BY <1>0, <1>1, <1>2
<1>4. Nameless(seats) = <<>> \o n
  BY <1>0, <1>1 DEF Nameless, Blank
<1>5. Nameless(seats) = n
  BY <1>3, <1>4, ConcatEmptySeq
<1> QED
  BY <1>1, <1>3, <1>5

LEMMA SeatsOfIs ==
  ASSUME NEW panel \in Seq(Entry)
  PROVE  /\ SeatsOf(panel) \in Seq(Seat) /\ Len(SeatsOf(panel)) = Len(panel)
         /\ \A i \in 1 .. Len(panel) : SeatsOf(panel)[i] = panel[i].seat
<1>0. Len(panel) \in Nat /\ DOMAIN panel = 1 .. Len(panel) /\ \A i \in 1 .. Len(panel) : panel[i] \in Entry
  OBVIOUS
<1>1. PICK n : n = [i \in 1 .. Len(panel) |-> panel[i].seat]
  OBVIOUS
<1>2. \A i \in 1 .. Len(panel) : panel[i].seat \in Seat
  BY <1>0 DEF Entry
<1>3. n \in Seq(Seat) /\ Len(n) = Len(panel)
  BY <1>0, <1>1, <1>2
<1>4. SeatsOf(panel) = <<>> \o n
  BY <1>0, <1>1 DEF SeatsOf
<1>5. SeatsOf(panel) = n
  BY <1>3, <1>4, ConcatEmptySeq
<1> QED
  BY <1>1, <1>3, <1>5

\* The seats of a pick are a pick of the seats, and so it is without their ids.
LEMMA PickSeats ==
  ASSUME NEW panel \in Seq(Entry), NEW places
  PROVE  SeatsOf(Picked(panel, places)) = Picked(SeatsOf(panel), places)
<1>1. PICK s : s = SeatsOf(panel)
  OBVIOUS
<1>2. s \in Seq(Seat) /\ Len(s) = Len(panel) /\ \A i \in 1 .. Len(panel) : s[i] = panel[i].seat
  BY <1>1, SeatsOfIs
<1>0. PICK m : m = [e \in Entry |-> e.seat]
  OBVIOUS
<1>3. m \in [Entry -> Seat] /\ \A i \in 1 .. Len(panel) : s[i] = m[panel[i]]
  <2>1. \A i \in 1 .. Len(panel) : panel[i] \in Entry
    OBVIOUS
  <2>2. \A e \in Entry : e.seat \in Seat
    BY DEF Entry
  <2> QED
    BY <1>0, <1>2, <2>1, <2>2
<1>4. PICK p, q : p = Picked(panel, places) /\ q = Picked(s, places)
  OBVIOUS
<1>5. Len(q) = Len(p) /\ \A i \in 1 .. Len(p) : q[i] = m[p[i]]
  BY <1>2, <1>3, <1>4, PickImage
<1>6. p \in Seq(Entry) /\ q \in Seq(Seat)
  BY <1>2, <1>4, PickedType
<1>7. PICK t : t = SeatsOf(p)
  OBVIOUS
<1>8. t \in Seq(Seat) /\ Len(t) = Len(p) /\ \A i \in 1 .. Len(p) : t[i] = p[i].seat
  BY <1>6, <1>7, SeatsOfIs
<1>9. \A i \in 1 .. Len(t) : t[i] = q[i]
  <2>1. \A i \in 1 .. Len(p) : p[i] \in Entry
    BY <1>6
  <2> QED
    BY <1>0, <1>5, <1>8, <2>1
<1>10. t = q
  BY <1>5, <1>6, <1>8, <1>9, SameSeq
<1> QED
  BY <1>1, <1>4, <1>7, <1>10

LEMMA PickBlank ==
  ASSUME NEW seats \in Seq(Seat), NEW places
  PROVE  Nameless(Picked(seats, places)) = Picked(Nameless(seats), places)
<1>1. PICK s : s = Nameless(seats)
  OBVIOUS
<1>2. s \in Seq(Face) /\ Len(s) = Len(seats) /\ \A i \in 1 .. Len(seats) : s[i] = Blank(seats[i])
  BY <1>1, NamelessIs
<1>0. PICK m : m = [x \in Seat |-> Blank(x)]
  OBVIOUS
<1>3. m \in [Seat -> Face] /\ \A i \in 1 .. Len(seats) : s[i] = m[seats[i]]
  <2>1. \A i \in 1 .. Len(seats) : seats[i] \in Seat
    OBVIOUS
  <2>2. \A x \in Seat : Blank(x) \in Face
    BY BlankIs
  <2> QED
    BY <1>0, <1>2, <2>1, <2>2
<1>4. PICK p, q : p = Picked(seats, places) /\ q = Picked(s, places)
  OBVIOUS
<1>5. Len(q) = Len(p) /\ \A i \in 1 .. Len(p) : q[i] = m[p[i]]
  BY <1>2, <1>3, <1>4, PickImage
<1>6. p \in Seq(Seat) /\ q \in Seq(Face)
  BY <1>2, <1>4, PickedType
<1>7. PICK t : t = Nameless(p)
  OBVIOUS
<1>8. t \in Seq(Face) /\ Len(t) = Len(p) /\ \A i \in 1 .. Len(p) : t[i] = Blank(p[i])
  BY <1>6, <1>7, NamelessIs
<1>9. \A i \in 1 .. Len(t) : t[i] = q[i]
  <2>1. \A i \in 1 .. Len(p) : p[i] \in Seat
    BY <1>6
  <2> QED
    BY <1>0, <1>5, <1>8, <2>1
<1>10. t = q
  BY <1>5, <1>6, <1>8, <1>9, SameSeq
<1> QED
  BY <1>1, <1>4, <1>7, <1>10

\* An edit of seats is an edit of them without their ids.
LEMMA RemoveBlank ==
  ASSUME NEW seats \in Seq(Seat), NEW r \in 1 .. Len(seats)
  PROVE  Nameless(RemoveAt(seats, r)) = RemoveAt(Nameless(seats), r)
<1>1. PICK m \in Nat : m = Len(seats)
  OBVIOUS
<1>2. PICK s, t : s = Nameless(seats) /\ t = RemoveAt(seats, r)
  OBVIOUS
<1>3. s \in Seq(Face) /\ Len(s) = m /\ \A i \in 1 .. m : s[i] = Blank(seats[i])
  BY <1>1, <1>2, NamelessIs
<1>4. t \in Seq(Seat) /\ Len(t) = m - 1 /\ \A i \in 1 .. m - 1 : t[i] = IF i < r THEN seats[i] ELSE seats[i + 1]
  BY <1>1, <1>2, RemovedIs
<1>5. PICK u, v : u = Nameless(t) /\ v = RemoveAt(s, r)
  OBVIOUS
<1>6. u \in Seq(Face) /\ Len(u) = m - 1 /\ \A i \in 1 .. m - 1 : u[i] = Blank(t[i])
  BY <1>4, <1>5, NamelessIs
<1>7. v \in Seq(Face) /\ Len(v) = m - 1 /\ \A i \in 1 .. m - 1 : v[i] = IF i < r THEN s[i] ELSE s[i + 1]
  BY <1>1, <1>3, <1>5, RemovedIs
<1>8. \A i \in 1 .. m - 1 : u[i] = v[i]
  <2> SUFFICES ASSUME NEW i \in 1 .. m - 1 PROVE u[i] = v[i]
    OBVIOUS
  <2>1. i \in 1 .. m /\ i + 1 \in 1 .. m
    OBVIOUS
  <2> QED
    BY <1>3, <1>4, <1>6, <1>7, <2>1
<1>9. u = v
  BY <1>6, <1>7, <1>8, SameSeq
<1> QED
  BY <1>2, <1>5, <1>9

LEMMA SetBlank ==
  ASSUME NEW seats \in Seq(Seat), NEW r \in 1 .. Len(seats), NEW x \in Seat
  PROVE  Nameless([seats EXCEPT ![r] = x]) = [Nameless(seats) EXCEPT ![r] = Blank(x)]
<1>1. PICK m \in Nat : m = Len(seats)
  OBVIOUS
<1>2. PICK s, t : s = Nameless(seats) /\ t = [seats EXCEPT ![r] = x]
  OBVIOUS
<1>3. s \in Seq(Face) /\ Len(s) = m /\ \A i \in 1 .. m : s[i] = Blank(seats[i])
  BY <1>1, <1>2, NamelessIs
<1>4. t \in Seq(Seat) /\ Len(t) = m /\ \A i \in 1 .. m : t[i] = IF i = r THEN x ELSE seats[i]
  BY <1>1, <1>2, ExceptSeq
<1>5. PICK u, v : u = Nameless(t) /\ v = [s EXCEPT ![r] = Blank(x)]
  OBVIOUS
<1>6. u \in Seq(Face) /\ Len(u) = m /\ \A i \in 1 .. m : u[i] = Blank(t[i])
  BY <1>4, <1>5, NamelessIs
<1>7. v \in Seq(Face) /\ Len(v) = m /\ \A i \in 1 .. m : v[i] = IF i = r THEN Blank(x) ELSE s[i]
  <2>1. Blank(x) \in Face /\ r \in 1 .. Len(s)
    BY <1>1, <1>3, BlankIs
  <2> QED
    BY <1>1, <1>3, <1>5, <2>1, ExceptSeq
<1>8. \A i \in 1 .. m : u[i] = v[i]
  BY <1>3, <1>4, <1>6, <1>7
<1>9. u = v
  BY <1>6, <1>7, <1>8, SameSeq
<1> QED
  BY <1>2, <1>5, <1>9

\* A change does not look at who sits there.
LEMMA ChangeBlank ==
  ASSUME NEW seat \in Seat, NEW other \in Seat, Blank(seat) = Blank(other), NEW change \in Change, change.op # "remove"
  PROVE  Blank(Changed(seat, change)) = Blank(Changed(other, change))
<1>1. seat.who = other.who /\ seat.warned = other.warned /\ seat.cond = other.cond
  BY BlankIs
<1>2. PICK a, b : a = Changed(seat, change) /\ b = Changed(other, change)
  OBVIOUS
<1>3. a \in Seat /\ b \in Seat
  BY <1>2, ChangedIs
<1>4. change.field \in {"id", "cond", "warned"}
  BY DEF Change
<1>5. a = [seat EXCEPT ![change.field] = change.to] /\ b = [other EXCEPT ![change.field] = change.to]
  BY <1>2 DEF Changed
<1>6. a.who = b.who /\ a.warned = b.warned /\ a.cond = b.cond
  <2>1. CASE change.field = "id"
    BY <1>1, <1>5, <2>1 DEF Seat
  <2>2. CASE change.field = "cond"
    BY <1>1, <1>5, <2>2 DEF Seat
  <2>3. CASE change.field = "warned"
    BY <1>1, <1>5, <2>3 DEF Seat
  <2> QED
    BY <1>4, <2>1, <2>2, <2>3
<1> QED
  BY <1>2, <1>3, <1>6, BlankIs

\* A sequence is two others, one after the other.
Apart(S, s, t, u) ==
  /\ Len(s) \in Nat /\ Len(t) \in Nat /\ u \in Seq(S) /\ Len(u) = Len(s) + Len(t)
  /\ \A i \in 1 .. Len(s) : u[i] = s[i]
  /\ \A j \in 1 .. Len(t) : u[Len(s) + j] = t[j]
  /\ \A i \in 1 .. Len(u) : i \in 1 .. Len(s) \/ \E j \in 1 .. Len(t) : i = Len(s) + j

LEMMA ConcatIs ==
  ASSUME NEW S, NEW s \in Seq(S), NEW t \in Seq(S)
  PROVE  Apart(S, s, t, s \o t)
<1>0. PICK u, k, n : u = s \o t /\ k = Len(s) /\ n = Len(t)
  OBVIOUS
<1>1. k \in Nat /\ n \in Nat
  BY <1>0
<1>2. /\ u \in Seq(S) /\ Len(u) = k + n
      /\ \A i \in 1 .. k + n : u[i] = IF i <= k THEN s[i] ELSE t[i - k]
  BY <1>0, ConcatProperties
<1>3. \A j \in 1 .. n : k + j \in 1 .. k + n /\ ~(k + j <= k) /\ k + j - k = j
  BY <1>1
<1>4. ASSUME NEW i \in 1 .. k + n, i \notin 1 .. k PROVE \E j \in 1 .. n : i = k + j
  <2>1. i - k \in 1 .. n /\ i = k + (i - k)
    BY <1>1, <1>4
  <2> QED
    BY <2>1
<1>5. \A i \in 1 .. k : u[i] = s[i]
  BY <1>1, <1>2
<1>6. ASSUME NEW j \in 1 .. n PROVE u[k + j] = t[j]
  <2>1. PICK p : p = k + j
    OBVIOUS
  <2>2. p \in 1 .. k + n /\ ~(p <= k) /\ p - k = j
    BY <1>1, <1>3, <2>1
  <2>3. u[p] = t[p - k]
    BY <1>2, <2>2
  <2> QED
    BY <2>1, <2>2, <2>3
<1> QED
  BY <1>0, <1>1, <1>2, <1>4, <1>5, <1>6 DEF Apart

Later(S, s, t, a, at, x) ==
  s \in Seq(S) /\ t \in Seq(S) /\ a \in 1 .. Len(t) /\ at = Len(s) + a /\ x \in S
Earlier(S, s, t, a, x) == s \in Seq(S) /\ t \in Seq(S) /\ a \in 1 .. Len(s) /\ x \in S

LEMMA SetLater ==
  ASSUME NEW S, NEW s, NEW t, NEW a, NEW at, NEW x, Later(S, s, t, a, at, x)
  PROVE  Put(Cat(s, t), at, x) = Cat(s, Put(t, a, x))
<1>0. s \in Seq(S) /\ t \in Seq(S) /\ a \in 1 .. Len(t) /\ at = Len(s) + a /\ x \in S
  BY DEF Later
<1>1. PICK k, n, u, d, v : k = Len(s) /\ n = Len(t) /\ u = s \o t /\ d = [t EXCEPT ![a] = x] /\ v = s \o d
  OBVIOUS
<1>2. /\ k \in Nat /\ n \in Nat /\ u \in Seq(S) /\ Len(u) = k + n
      /\ \A i \in 1 .. k : u[i] = s[i]
      /\ \A j \in 1 .. n : u[k + j] = t[j]
      /\ \A i \in 1 .. k + n : i \in 1 .. k \/ \E j \in 1 .. n : i = k + j
  <2>1. Apart(S, s, t, s \o t)
    BY <1>0, ConcatIs
  <2> QED
    BY <1>1, <2>1 DEF Apart
<1>3. d \in Seq(S) /\ Len(d) = n /\ \A j \in 1 .. n : d[j] = IF j = a THEN x ELSE t[j]
  BY <1>0, <1>1, ExceptSeq
<1>4. /\ v \in Seq(S) /\ Len(v) = k + n
      /\ \A i \in 1 .. k : v[i] = s[i]
      /\ \A j \in 1 .. n : v[k + j] = d[j]
  <2>1. d \in Seq(S)
    BY <1>3
  <2>2. Apart(S, s, d, s \o d)
    BY <1>0, <2>1, ConcatIs
  <2> QED
    BY <1>1, <1>3, <2>2 DEF Apart
<1>5. PICK w : w = [u EXCEPT ![at] = x]
  OBVIOUS
<1>6. at = k + a /\ at \in 1 .. Len(u)
  BY <1>0, <1>1, <1>2
<1>7. w \in Seq(S) /\ Len(w) = k + n /\ \A i \in 1 .. k + n : w[i] = IF i = at THEN x ELSE u[i]
  BY <1>0, <1>2, <1>5, <1>6, ExceptSeq
<1>8. ASSUME NEW i \in 1 .. k + n PROVE w[i] = v[i]
  <2>1. CASE i \in 1 .. k
    <3>1. i # at
      <4>1. a \in Nat \ {0} /\ at = k + a /\ k \in Nat
        <5>1. a \in Nat \ {0}
          BY <1>0, <1>1, <1>2
        <5> QED
          BY <1>2, <1>6, <5>1
      <4> QED
        BY <2>1, <4>1
    <3> QED
      BY <1>2, <1>4, <1>7, <2>1, <3>1
  <2>2. CASE \E j \in 1 .. n : i = k + j
    <3>1. PICK j \in 1 .. n : i = k + j
      BY <2>2
    <3>2. i = at <=> j = a
      <4>1. k \in Nat /\ i = k + j /\ at = k + a /\ a \in Int /\ j \in Int
        <5>1. a \in Int /\ j \in Int
          BY <1>0, <1>1, <1>2
        <5> QED
          BY <1>2, <1>6, <3>1, <5>1
      <4> QED
        BY <4>1
    <3>3. u[i] = t[j] /\ v[i] = d[j]
      BY <1>2, <1>4, <3>1
    <3> QED
      BY <1>3, <1>7, <3>2, <3>3
  <2> QED
    BY <1>2, <2>1, <2>2
<1>9. w = v
  BY <1>4, <1>7, <1>8, SameSeq
<1> QED
  BY <1>1, <1>5, <1>9 DEF Put, Cat

LEMMA SetEarlier ==
  ASSUME NEW S, NEW s, NEW t, NEW a, NEW x, Earlier(S, s, t, a, x)
  PROVE  Put(Cat(s, t), a, x) = Cat(Put(s, a, x), t)
<1>0. s \in Seq(S) /\ t \in Seq(S) /\ a \in 1 .. Len(s) /\ x \in S
  BY DEF Earlier
<1>1. PICK k, n, u, d, v : k = Len(s) /\ n = Len(t) /\ u = s \o t /\ d = [s EXCEPT ![a] = x] /\ v = d \o t
  OBVIOUS
<1>2. /\ k \in Nat /\ n \in Nat /\ u \in Seq(S) /\ Len(u) = k + n
      /\ \A i \in 1 .. k : u[i] = s[i]
      /\ \A j \in 1 .. n : u[k + j] = t[j]
      /\ \A i \in 1 .. k + n : i \in 1 .. k \/ \E j \in 1 .. n : i = k + j
  <2>1. Apart(S, s, t, s \o t)
    BY <1>0, ConcatIs
  <2> QED
    BY <1>1, <2>1 DEF Apart
<1>3. d \in Seq(S) /\ Len(d) = k /\ \A i \in 1 .. k : d[i] = IF i = a THEN x ELSE s[i]
  BY <1>0, <1>1, ExceptSeq
<1>4. /\ v \in Seq(S) /\ Len(v) = k + n
      /\ \A i \in 1 .. k : v[i] = d[i]
      /\ \A j \in 1 .. n : v[k + j] = t[j]
  <2>1. d \in Seq(S)
    BY <1>3
  <2>2. Apart(S, d, t, d \o t)
    BY <1>0, <2>1, ConcatIs
  <2> QED
    BY <1>1, <1>3, <2>2 DEF Apart
<1>5. PICK w : w = [u EXCEPT ![a] = x]
  OBVIOUS
<1>6. a \in 1 .. Len(u) /\ a \in 1 .. k
  BY <1>0, <1>1, <1>2
<1>7. w \in Seq(S) /\ Len(w) = k + n /\ \A i \in 1 .. k + n : w[i] = IF i = a THEN x ELSE u[i]
  BY <1>0, <1>2, <1>5, <1>6, ExceptSeq
<1>8. ASSUME NEW i \in 1 .. k + n PROVE w[i] = v[i]
  <2>1. CASE i \in 1 .. k
    BY <1>2, <1>3, <1>4, <1>7, <2>1
  <2>2. CASE \E j \in 1 .. n : i = k + j
    <3>1. PICK j \in 1 .. n : i = k + j
      BY <2>2
    <3>2. i # a
      BY <1>2, <1>6, <3>1
    <3> QED
      BY <1>2, <1>4, <1>7, <3>1, <3>2
  <2> QED
    BY <1>2, <2>1, <2>2
<1>9. w = v
  BY <1>4, <1>7, <1>8, SameSeq
<1> QED
  BY <1>1, <1>5, <1>9 DEF Put, Cat

\* A place of the middle that is kept, as a place of the whole.
Within(S, kept, A, B, C, places, a, at) ==
  Keeps(S, kept, A, B, C, places) /\ a \in 1 .. Len(B) /\ a \in places /\ at = Len(A) + a

LEMMA RemoveAcross ==
  ASSUME NEW S, NEW A, NEW B, NEW C, NEW kept, NEW places, NEW a, NEW at,
         Within(S, kept, A, B, C, places, a, at)
  PROVE  Picked(Three(A, B, C), kept \ {at}) = Three(A, RemoveAt(Picked(B, places), Rank(places, a)), C)
<1>a. Keeps(S, kept, A, B, C, places) /\ a \in 1 .. Len(B) /\ a \in places /\ at = Len(A) + a
  BY DEF Within
<1>0. /\ A \in Seq(S) /\ B \in Seq(S) /\ C \in Seq(S)
      /\ Len(A) \in Nat /\ Len(B) \in Nat /\ Len(C) \in Nat /\ B[a] \in S
  <2>1. A \in Seq(S) /\ B \in Seq(S) /\ C \in Seq(S)
    BY <1>a DEF Keeps
  <2> QED
    BY <1>a, <2>1
<1>1. PICK fewer, some : fewer = kept \ {at} /\ some = places \ {a}
  OBVIOUS
<1>2. \A i \in 1 .. Len(A) : i \in fewer
  BY <1>a, <1>0, <1>1 DEF Keeps
<1>3. \A j \in 1 .. Len(B) : j \in some <=> Len(A) + j \in fewer
  <2> SUFFICES ASSUME NEW j \in 1 .. Len(B) PROVE j \in some <=> Len(A) + j \in fewer
    OBVIOUS
  <2>1. j \in places <=> Len(A) + j \in kept
    BY <1>a DEF Keeps
  <2>2. Len(A) + j = Len(A) + a <=> j = a
    BY <1>a, <1>0
  <2> QED
    BY <1>a, <1>1, <2>1, <2>2
<1>4. \A k \in 1 .. Len(C) : Len(A) + Len(B) + k \in fewer
  <2> SUFFICES ASSUME NEW k \in 1 .. Len(C) PROVE Len(A) + Len(B) + k \in fewer
    OBVIOUS
  <2>1. Len(A) + Len(B) + k \in kept /\ Len(A) + Len(B) + k # Len(A) + a
    BY <1>a, <1>0 DEF Keeps
  <2> QED
    BY <1>a, <1>1, <2>1
<1>5. Picked(Three(A, B, C), fewer) = Three(A, Picked(B, some), C)
  <2>1. Keeps(S, fewer, A, B, C, some)
    BY <1>0, <1>2, <1>3, <1>4 DEF Keeps
  <2> QED
    BY <2>1, PickAcross
<1>6. EditedAt(Picked(B, places), Picked(B, some), Picked([B EXCEPT ![a] = B[a]], places), Rank(places, a), B[a], B[a])
  BY <1>a, <1>0, <1>1, PickEdit
<1> QED
  BY <1>1, <1>5, <1>6 DEF EditedAt

Sets(S, A, B, C, a, at, x) ==
  A \in Seq(S) /\ B \in Seq(S) /\ C \in Seq(S) /\ a \in 1 .. Len(B) /\ at = Len(A) + a /\ x \in S

LEMMA SetAcross ==
  ASSUME NEW S, NEW A, NEW B, NEW C, NEW a, NEW at, NEW x, Sets(S, A, B, C, a, at, x)
  PROVE  Put(Three(A, B, C), at, x) = Three(A, Put(B, a, x), C)
<1>1. PICK AB : AB = Cat(A, B)
  OBVIOUS
<1>2. A \in Seq(S) /\ B \in Seq(S) /\ C \in Seq(S) /\ a \in 1 .. Len(B) /\ at = Len(A) + a /\ x \in S
  BY DEF Sets
<1>3. AB \in Seq(S) /\ Len(AB) = Len(A) + Len(B)
  BY <1>1, <1>2, ConcatProperties DEF Cat
<1>4. Put(Cat(A, B), at, x) = Cat(A, Put(B, a, x))
  <2>1. Later(S, A, B, a, at, x)
    BY <1>2 DEF Later
  <2> QED
    BY <2>1, SetLater
<1>6. Put(Cat(AB, C), at, x) = Cat(Put(AB, at, x), C)
  <2>1. Earlier(S, AB, C, at, x)
    BY <1>2, <1>3 DEF Earlier
  <2> QED
    BY <2>1, SetEarlier
<1> QED
  BY <1>1, <1>4, <1>6 DEF Three

LEMMA ChangeAcross ==
  ASSUME NEW S, NEW A, NEW B, NEW C, NEW kept, NEW places, NEW a, NEW at, NEW x,
         Within(S, kept, A, B, C, places, a, at), x \in S
  PROVE  Picked(Put(Three(A, B, C), at, x), kept) = Three(A, Put(Picked(B, places), Rank(places, a), x), C)
<1>a. Keeps(S, kept, A, B, C, places) /\ a \in 1 .. Len(B) /\ a \in places /\ at = Len(A) + a
  BY DEF Within
<1>0. /\ A \in Seq(S) /\ B \in Seq(S) /\ C \in Seq(S)
      /\ Len(A) \in Nat /\ Len(B) \in Nat /\ Len(C) \in Nat /\ B[a] \in S
  <2>1. A \in Seq(S) /\ B \in Seq(S) /\ C \in Seq(S)
    BY <1>a DEF Keeps
  <2> QED
    BY <1>a, <2>1
<1>1. PICK D : D = Put(B, a, x)
  OBVIOUS
<1>2. D \in Seq(S) /\ Len(D) = Len(B)
  BY <1>a, <1>0, <1>1, ExceptSeq DEF Put
<1>6. Put(Three(A, B, C), at, x) = Three(A, D, C)
  <2>1. Sets(S, A, B, C, a, at, x)
    BY <1>a, <1>0 DEF Sets
  <2> QED
    BY <1>1, <2>1, SetAcross
<1>7. Picked(Three(A, D, C), kept) = Three(A, Picked(D, places), C)
  <2>1. Keeps(S, kept, A, D, C, places)
    BY <1>a, <1>2 DEF Keeps
  <2>2. D \in Seq(S)
    BY <1>2
  <2> QED
    BY <2>1, <2>2, PickAcross
<1>8. EditedAt(Picked(B, places), Picked(B, places \ {a}), Picked(D, places), Rank(places, a), B[a], x)
  BY <1>a, <1>0, <1>1, PickEdit DEF Put
<1> QED
  BY <1>6, <1>7, <1>8 DEF EditedAt, Put

\* An edit of what is picked of the middle of a panel does to the panel what was asked, but for those
\* that are not picked.
Lies(seats, A, middle, C, places, left, a, at) ==
  /\ seats \in Seq(Seat) /\ middle \in Seq(Seat)
  /\ Nameless(seats) = Three(A, Nameless(middle), C)
  /\ Within(Face, DOMAIN seats \ left, A, Nameless(middle), C, places, a, at)

LEMMA EditLands ==
  ASSUME NEW seats, NEW A, NEW middle, NEW C, NEW places, NEW a, NEW change, NEW left, NEW at,
         Lies(seats, A, middle, C, places, left, a, at), change \in Change
  PROVE  Nameless(AsAsked(seats, at, change, left))
           = Three(A, Nameless(Edited(Picked(middle, places), Rank(places, a), change)), C)
<1>a. seats \in Seq(Seat) /\ middle \in Seq(Seat)
  BY DEF Lies
<1>b. PICK B : B = Nameless(middle)
  OBVIOUS
<1>1. PICK F, kept : F = Nameless(seats) /\ kept = DOMAIN seats \ left
  OBVIOUS
<1>2. F \in Seq(Face) /\ Len(F) = Len(seats) /\ \A i \in 1 .. Len(seats) : F[i] = Blank(seats[i])
  BY <1>a, <1>1, NamelessIs
<1>3. B \in Seq(Face) /\ Len(B) = Len(middle) /\ \A j \in 1 .. Len(middle) : B[j] = Blank(middle[j])
  BY <1>a, <1>b, NamelessIs
<1>4. F = Three(A, B, C) /\ Within(Face, kept, A, B, C, places, a, at)
  BY <1>b, <1>1 DEF Lies
<1>c. A \in Seq(Face) /\ C \in Seq(Face) /\ a \in 1 .. Len(B) /\ a \in places /\ at = Len(A) + a
  BY <1>4 DEF Within, Keeps
<1>5. at \in 1 .. Len(seats) /\ F[at] = B[a]
  <2>1. PICK AB, k, m : AB = A \o B /\ k = Len(A) /\ m = Len(B)
    OBVIOUS
  <2>2. AB \in Seq(Face) /\ k \in Nat /\ m \in Nat /\ Len(AB) = k + m /\ \A j \in 1 .. m : AB[k + j] = B[j]
    <3>1. Apart(Face, A, B, A \o B)
      BY <1>c, <1>3, ConcatIs
    <3> QED
      BY <2>1, <3>1 DEF Apart
  <2>3. PICK n, l : n = Len(C) /\ l = Len(AB)
    OBVIOUS
  <2>4. F = AB \o C
    BY <1>4, <2>1 DEF Three, Cat
  <2>5. n \in Nat /\ Len(F) = l + n /\ \A i \in 1 .. l : F[i] = AB[i]
    <3>1. AB \in Seq(Face)
      BY <2>2
    <3>2. Apart(Face, AB, C, AB \o C)
      BY <1>c, <3>1, ConcatIs
    <3> QED
      BY <2>3, <2>4, <3>2 DEF Apart
  <2>6. at \in 1 .. l /\ at = k + a
    BY <1>c, <2>1, <2>2, <2>3
  <2> QED
    BY <1>2, <1>c, <2>1, <2>2, <2>3, <2>5, <2>6
<1>6. PICK r, L : r = Rank(places, a) /\ L = Picked(middle, places)
  OBVIOUS
<1>7. L \in Seq(Seat) /\ r \in 1 .. Len(L) /\ L[r] = middle[a] /\ middle[a] \in Seat /\ seats[at] \in Seat
  <2>1. middle[a] \in Seat /\ seats[at] \in Seat
    BY <1>a, <1>c, <1>3, <1>5
  <2>2. L \in Seq(Seat) /\ EditedAt(L, Picked(middle, places \ {a}), Picked([middle EXCEPT ![a] = middle[a]], places), r, middle[a], middle[a])
    BY <1>a, <1>c, <1>3, <1>6, <2>1, PickEdit
  <2> QED
    BY <2>1, <2>2 DEF EditedAt
<1>8. Nameless(L) = Picked(B, places)
  BY <1>a, <1>b, <1>6, PickBlank
<1>9. CASE change.op = "remove"
  <2>1. Nameless(AsAsked(seats, at, change, left)) = Picked(F, kept \ {at})
    BY <1>a, <1>1, <1>9, PickBlank DEF AsAsked
  <2>2. Picked(F, kept \ {at}) = Three(A, RemoveAt(Nameless(L), r), C)
    <3>1. Picked(Three(A, B, C), kept \ {at}) = Three(A, RemoveAt(Picked(B, places), Rank(places, a)), C)
      BY <1>4, RemoveAcross
    <3> QED
      BY <1>4, <1>6, <1>8, <3>1
  <2>3. RemoveAt(Nameless(L), r) = Nameless(RemoveAt(L, r))
    BY <1>7, RemoveBlank
  <2>4. Edited(L, r, change) = RemoveAt(L, r)
    BY <1>9 DEF Edited
  <2> QED
    BY <1>1, <1>6, <2>1, <2>2, <2>3, <2>4
<1>10. CASE change.op # "remove"
  <2>1. PICK x, y : x = Changed(seats[at], change) /\ y = Changed(middle[a], change)
    OBVIOUS
  <2>2. Blank(seats[at]) = Blank(middle[a])
    <3>1. a \in 1 .. Len(middle)
      BY <1>c, <1>3
    <3> QED
      BY <1>2, <1>3, <1>5, <3>1
  <2>3. x \in Seat /\ y \in Seat /\ Blank(x) = Blank(y)
    BY <1>7, <1>10, <2>1, <2>2, ChangedIs, ChangeBlank
  <2>4. PICK face : face = Blank(y)
    OBVIOUS
  <2>5. face \in Face
    BY <2>3, <2>4, BlankIs
  <2>6. PICK now : now = [seats EXCEPT ![at] = x]
    OBVIOUS
  <2>7. now \in Seq(Seat)
    BY <1>a, <1>5, <2>3, <2>6, ExceptSeq
  <2>8. AsAsked(seats, at, change, left) = Picked(now, kept)
    BY <1>1, <1>10, <2>1, <2>6 DEF AsAsked
  <2>9. Nameless(now) = Put(F, at, face)
    <3>1. at \in 1 .. Len(seats) /\ x \in Seat
      BY <1>5, <2>3
    <3>2. Nameless([seats EXCEPT ![at] = x]) = [Nameless(seats) EXCEPT ![at] = Blank(x)]
      BY <1>a, <3>1, SetBlank
    <3> QED
      BY <1>1, <2>3, <2>4, <2>6, <3>2 DEF Put
  <2>10. Nameless(Picked(now, kept)) = Picked(Put(F, at, face), kept)
    BY <2>7, <2>9, PickBlank
  <2>11. Picked(Put(F, at, face), kept) = Three(A, Put(Nameless(L), r, face), C)
    <3>1. Picked(Put(Three(A, B, C), at, face), kept) = Three(A, Put(Picked(B, places), Rank(places, a), face), C)
      BY <1>4, <2>5, ChangeAcross
    <3> QED
      BY <1>4, <1>6, <1>8, <3>1
  <2>12. Put(Nameless(L), r, face) = Nameless([L EXCEPT ![r] = y])
    BY <1>7, <2>3, <2>4, SetBlank DEF Put
  <2>13. Edited(L, r, change) = [L EXCEPT ![r] = y]
    BY <1>7, <1>10, <2>1 DEF Edited
  <2> QED
    BY <1>1, <1>6, <2>8, <2>10, <2>11, <2>12, <2>13
<1> QED
  BY <1>9, <1>10

\* Two sequences in a row, by their places.
CatOf(S, s, t, u) ==
  /\ u \in Seq(S) /\ Len(u) = Len(s) + Len(t)
  /\ \A i \in 1 .. Len(s) : u[i] = s[i]
  /\ \A j \in 1 .. Len(t) : u[Len(s) + j] = t[j]

LEMMA CatIs ==
  ASSUME NEW S, NEW s, NEW t, NEW u, s \in Seq(S), t \in Seq(S)
  PROVE  CatOf(S, s, t, u) <=> u = Cat(s, t)
<1>1. PICK v : v = Cat(s, t)
  OBVIOUS
<1>2. Apart(S, s, t, v)
  BY <1>1, ConcatIs DEF Cat
<1>3. PICK k, n : k = Len(s) /\ n = Len(t)
  OBVIOUS
<1>4. /\ k \in Nat /\ n \in Nat /\ v \in Seq(S) /\ Len(v) = k + n
      /\ \A i \in 1 .. k : v[i] = s[i]
      /\ \A j \in 1 .. n : v[k + j] = t[j]
      /\ \A i \in 1 .. k + n : i \in 1 .. k \/ \E j \in 1 .. n : i = k + j
  BY <1>2, <1>3 DEF Apart
<1>5. CatOf(S, s, t, v)
  BY <1>3, <1>4 DEF CatOf
<1>6. ASSUME CatOf(S, s, t, u) PROVE u = v
  <2>1. /\ u \in Seq(S) /\ Len(u) = k + n
        /\ \A i \in 1 .. k : u[i] = s[i]
        /\ \A j \in 1 .. n : u[k + j] = t[j]
    BY <1>3, <1>6 DEF CatOf
  <2>2. \A i \in 1 .. k + n : u[i] = v[i]
    <3> SUFFICES ASSUME NEW i \in 1 .. k + n PROVE u[i] = v[i]
      OBVIOUS
    <3>1. CASE i \in 1 .. k
      BY <1>4, <2>1, <3>1
    <3>2. CASE \E j \in 1 .. n : i = k + j
      <4>1. PICK j \in 1 .. n : i = k + j
        BY <3>2
      <4>2. u[i] = t[j] /\ v[i] = t[j]
        BY <1>4, <2>1, <4>1
      <4> QED
        BY <4>2
    <3> QED
      BY <1>4, <3>1, <3>2
  <2> QED
    BY <1>4, <2>1, <2>2, SameSeq
<1> QED
  BY <1>1, <1>5, <1>6

LEMMA CatCat ==
  ASSUME NEW S, NEW s, NEW t, NEW u, s \in Seq(S), t \in Seq(S), u \in Seq(S)
  PROVE  Cat(s, Cat(t, u)) = Cat(Cat(s, t), u)
<1>1. (s \o t) \o u = s \o (t \o u)
  BY ConcatAssociative, SMTT(30)
<1> QED
  BY <1>1 DEF Cat

\* Nothing before, and nothing after.
LEMMA CatEmpty ==
  ASSUME NEW S, NEW s, s \in Seq(S)
  PROVE  Cat(<<>>, s) = s /\ Cat(s, <<>>) = s /\ Three(<<>>, s, <<>>) = s
  BY ConcatEmptySeq DEF Cat, Three

\* Who is on a panel, in its order, whatever they are called.
Faces(panel) == Nameless(SeatsOf(panel))

LEMMA FacesIs ==
  ASSUME NEW panel, panel \in Seq(Entry)
  PROVE  /\ Faces(panel) \in Seq(Face) /\ Len(Faces(panel)) = Len(panel)
         /\ \A i \in 1 .. Len(panel) : Faces(panel)[i] = Blank(panel[i].seat)
<1>1. PICK s : s = SeatsOf(panel)
  OBVIOUS
<1>2. s \in Seq(Seat) /\ Len(s) = Len(panel) /\ \A i \in 1 .. Len(panel) : s[i] = panel[i].seat
  BY <1>1, SeatsOfIs
<1>3. Nameless(s) \in Seq(Face) /\ Len(Nameless(s)) = Len(s) /\ \A i \in 1 .. Len(s) : Nameless(s)[i] = Blank(s[i])
  BY <1>2, NamelessIs
<1> QED
  BY <1>1, <1>2, <1>3 DEF Faces

\* The faces of a panel with what follows it.
Follows(panel, base, extras) ==
  /\ panel \in Seq(Entry) /\ Len(panel) = Len(base) + Len(extras)
  /\ \A i \in 1 .. Len(base) : panel[i] = base[i]
  /\ \A i \in 1 .. Len(extras) : Renamed(panel[Len(base) + i], extras[i])

LEMMA FollowsFaces ==
  ASSUME NEW panel, NEW base, NEW extras, base \in Seq(Entry), extras \in Seq(Entry),
         Follows(panel, base, extras)
  PROVE  Faces(panel) = Cat(Faces(base), Faces(extras))
<1>1. PICK u, s, t, k, n : u = Faces(panel) /\ s = Faces(base) /\ t = Faces(extras) /\ k = Len(base) /\ n = Len(extras)
  OBVIOUS
<1>2. /\ panel \in Seq(Entry) /\ Len(panel) = k + n /\ k \in Nat /\ n \in Nat
      /\ \A i \in 1 .. k : panel[i] = base[i]
      /\ \A i \in 1 .. n : Renamed(panel[k + i], extras[i])
  <2>1. k \in Nat /\ n \in Nat
    BY <1>1
  <2>2. /\ panel \in Seq(Entry) /\ Len(panel) = Len(base) + Len(extras)
        /\ \A i \in 1 .. Len(base) : panel[i] = base[i]
        /\ \A i \in 1 .. Len(extras) : Renamed(panel[Len(base) + i], extras[i])
    BY DEF Follows
  <2>3. Len(base) = k /\ Len(extras) = n
    BY <1>1
  <2> QED
    BY <2>1, <2>2, <2>3
<1>3. u \in Seq(Face) /\ Len(u) = k + n /\ \A i \in 1 .. k + n : u[i] = Blank(panel[i].seat)
  BY <1>1, <1>2, FacesIs
<1>4. s \in Seq(Face) /\ Len(s) = k /\ \A i \in 1 .. k : s[i] = Blank(base[i].seat)
  BY <1>1, FacesIs
<1>5. t \in Seq(Face) /\ Len(t) = n /\ \A i \in 1 .. n : t[i] = Blank(extras[i].seat)
  BY <1>1, FacesIs
<1>6. ASSUME NEW i \in 1 .. k PROVE u[i] = s[i]
  <2>1. i \in 1 .. k + n
    BY <1>2
  <2> QED
    BY <1>2, <1>3, <1>4, <2>1
<1>7. ASSUME NEW j \in 1 .. n PROVE u[k + j] = t[j]
  <2>1. PICK p, e, x : p = k + j /\ e = panel[p] /\ x = extras[j]
    OBVIOUS
  <2>2. p \in 1 .. k + n
    BY <1>2, <2>1
  <2>3. e \in Entry /\ x \in Entry /\ Renamed(e, x)
    BY <1>1, <1>2, <2>1, <2>2
  <2>4. e.seat \in Seat /\ x.seat \in Seat
    BY <2>3 DEF Entry
  <2>5. Blank(e.seat) = Blank(x.seat)
    BY <2>3, <2>4, BlankIs DEF Renamed
  <2> QED
    BY <1>3, <1>5, <2>1, <2>2, <2>5
<1>8. CatOf(Face, s, t, u)
  BY <1>3, <1>4, <1>5, <1>6, <1>7 DEF CatOf
<1> QED
  BY <1>1, <1>4, <1>5, <1>8, CatIs

\* What a list is written as has its seats.
LEMMA WrittenFaces ==
  ASSUME NEW seats, seats \in Seq(Seat), NEW layer \in Origin, NEW key \in PanelKey
  PROVE  SeatsOf(Written(seats, layer, key)) = seats /\ Faces(Written(seats, layer, key)) = Nameless(seats)
<1>1. PICK w : w = Written(seats, layer, key)
  OBVIOUS
<1>2. seats \in SeatList /\ seats # None
  BY SeatsConstantsOK DEF SeatList
<1>3. w \in Seq(Entry) /\ DOMAIN w = DOMAIN seats /\ \A i \in DOMAIN seats : w[i].seat = seats[i]
  <2>1. /\ w \in Seq(Entry) /\ DOMAIN w = DOMAIN seats
        /\ \A i \in DOMAIN seats : w[i] = [seat |-> seats[i], layer |-> layer, key |-> key, at |-> i]
    BY <1>1, <1>2, WrittenIs
  <2> QED
    BY <2>1
<1>4. Len(w) = Len(seats) /\ DOMAIN seats = 1 .. Len(seats)
  BY <1>3
<1>5. SeatsOf(w) \in Seq(Seat) /\ Len(SeatsOf(w)) = Len(w) /\ \A i \in 1 .. Len(w) : SeatsOf(w)[i] = w[i].seat
  BY <1>3, SeatsOfIs
<1>6. SeatsOf(w) = seats
  <2>1. \A i \in 1 .. Len(SeatsOf(w)) : SeatsOf(w)[i] = seats[i]
    BY <1>3, <1>4, <1>5
  <2> QED
    BY <1>4, <1>5, <2>1, SameSeq
<1> QED
  BY <1>1, <1>6 DEF Faces

\* A panel is what is listed or fitted, then what the global file puts beside it, then the extras of
\* the file that is edited.
Ground(scope, layer, design) == Base(fit, Below(scope, layer)[1], Below(scope, layer)[2], design)
Abroad(scope, layer, design) ==
  IF scope = "global" \/ layer[ListKey(design)] # None THEN <<>> ELSE Extras(file["global"], "global", design)
Before(scope, layer, design) == Cat(Faces(Ground(scope, layer, design)), Faces(Abroad(scope, layer, design)))

LEMMA BesideSplit ==
  ASSUME file \in [Scope -> LayerType], NEW scope \in Scope, NEW layer \in LayerType, NEW design \in BOOLEAN
  PROVE  /\ Abroad(scope, layer, design) \in Seq(Entry) /\ Extras(layer, scope, design) \in Seq(Entry)
         /\ Beside(Below(scope, layer)[1], Below(scope, layer)[2], design)
              = Cat(Abroad(scope, layer, design), Extras(layer, scope, design))
         /\ \A i \in DOMAIN Abroad(scope, layer, design) :
              ~OwnExtra(Abroad(scope, layer, design)[i], scope, design)
<1>0. "global" \in Scope /\ "project" \in Scope /\ file["global"] \in LayerType
  BY DEF Scope
<1>1. PICK a, x : a = Abroad(scope, layer, design) /\ x = Extras(layer, scope, design)
  OBVIOUS
<1>2. x \in Seq(Entry)
  BY <1>1, ExtrasIs
<1>3. CASE scope = "global"
  <2>1. a = <<>> /\ Cat(a, x) = x
    BY <1>1, <1>2, <1>3, CatEmpty DEF Abroad
  <2>2. Below(scope, layer)[1] = layer /\ Below(scope, layer)[2] = Empty
    BY <1>3 DEF Below
  <2>3. Beside(layer, Empty, design) = x
    BY <1>1, <1>3, BesideAlone
  <2>4. a \in Seq(Entry) /\ DOMAIN a = {}
    BY <2>1, EmptySeq
  <2> QED
    BY <1>1, <1>2, <2>1, <2>2, <2>3, <2>4
<1>4. CASE scope = "project"
  <2>0. PICK g : g = file["global"]
    OBVIOUS
  <2>1. Below(scope, layer)[1] = g /\ Below(scope, layer)[2] = layer
    BY <1>4, <2>0 DEF Below
  <2>2. CASE layer[ListKey(design)] # None
    <3>1. a = <<>> /\ Cat(a, x) = x
      BY <1>1, <1>2, <2>2, CatEmpty DEF Abroad
    <3>2. Beside(g, layer, design) = x
      BY <1>0, <1>1, <1>4, <2>0, <2>2, BesideIs
    <3>3. a \in Seq(Entry) /\ DOMAIN a = {}
      BY <3>1, EmptySeq
    <3> QED
      BY <1>1, <1>2, <2>1, <3>1, <3>2, <3>3
  <2>3. CASE layer[ListKey(design)] = None
    <3>1. a = Extras(g, "global", design)
      BY <1>1, <1>4, <2>0, <2>3 DEF Abroad
    <3>2. Beside(g, layer, design) = Cat(a, x)
      BY <1>0, <1>1, <1>4, <2>0, <2>3, <3>1, BesideIs DEF Cat
    <3>3. a \in Seq(Entry) /\ \A i \in DOMAIN a : a[i].layer = "global"
      BY <1>0, <2>0, <3>1, ExtrasIs
    <3>4. \A i \in DOMAIN a : ~OwnExtra(a[i], scope, design)
      BY <1>4, <3>3 DEF OwnExtra
    <3> QED
      BY <1>1, <1>2, <2>1, <3>2, <3>3, <3>4
  <2> QED
    BY <2>2, <2>3
<1> QED
  BY <1>3, <1>4 DEF Scope

LEMMA ForceIs ==
  ASSUME FitOK(fit), file \in [Scope -> LayerType], NEW scope \in Scope, NEW layer \in LayerType, NEW design \in BOOLEAN
  PROVE  /\ Ground(scope, layer, design) \in Seq(Entry)
         /\ \A i \in DOMAIN Ground(scope, layer, design) : ~OwnExtra(Ground(scope, layer, design)[i], scope, design)
         /\ Follows(InForce(scope, layer, design), Ground(scope, layer, design),
                    Cat(Abroad(scope, layer, design), Extras(layer, scope, design)))
<1>1. PICK g, p : g = Below(scope, layer)[1] /\ p = Below(scope, layer)[2]
  OBVIOUS
<1>2. g \in LayerType /\ p \in LayerType
  BY <1>1, InForceIs
<1>3. PICK b, e : b = Base(fit, g, p, design) /\ e = Beside(g, p, design)
  OBVIOUS
<1>4. b \in Seq(Entry) /\ e \in Seq(Entry)
  BY <1>2, <1>3, ComposedIs, BesideIs
<1>5. Follows(Fold(b, e), b, e)
  BY <1>4, FoldSound DEF Joined, Follows
<1>6. InForce(scope, layer, design) = Fold(b, e)
  <2>1. CASE design
    BY <1>1, <1>3, <2>1 DEF InForce, Composed, DesignPanel, Base, DesignBase
  <2>2. CASE ~design
    BY <1>1, <1>3, <2>2 DEF InForce, Composed, CodePanel, Base, CodeBase
  <2> QED
    BY <2>1, <2>2
<1>7. \A i \in DOMAIN b : b[i].key # ExtraKey(design)
  <2>1. CASE design
    BY <1>2, <1>3, <2>1, DesignBaseIs DEF Base, ExtraKey
  <2>2. CASE ~design
    BY <1>2, <1>3, <2>2, CodeBaseIs DEF Base, ExtraKey
  <2> QED
    BY <2>1, <2>2
<1>8. b = Ground(scope, layer, design)
  BY <1>1, <1>3 DEF Ground
<1>9. e = Cat(Abroad(scope, layer, design), Extras(layer, scope, design))
  BY <1>1, <1>3, BesideSplit
<1> QED
  BY <1>4, <1>5, <1>6, <1>7, <1>8, <1>9 DEF OwnExtra

\* An extra is at its place in its list.
LEMMA ExtraAt ==
  ASSUME NEW layer \in LayerType, NEW scope \in Scope, NEW design \in BOOLEAN
  PROVE  /\ \A k \in 1 .. Len(Extras(layer, scope, design)) :
              OwnExtra(Extras(layer, scope, design)[k], scope, design) /\ Extras(layer, scope, design)[k].at = k
         /\ layer[ExtraKey(design)] # None => Faces(Extras(layer, scope, design)) = Nameless(layer[ExtraKey(design)])
         /\ layer[ExtraKey(design)] = None => Extras(layer, scope, design) = <<>>
<1>1. layer[ExtraKey(design)] \in SeatList /\ ExtraKey(design) \in PanelKey
  BY ExtrasIs
<1>2. PICK seats, key, x : seats = layer[ExtraKey(design)] /\ key = ExtraKey(design) /\ x = Extras(layer, scope, design)
  OBVIOUS
<1>3. x = Written(seats, scope, key) /\ scope \in Origin
  BY <1>2 DEF Extras, Scope, Origin
<1>4. CASE seats = None
  <2>1. x = <<>> /\ Len(x) = 0
    BY <1>1, <1>2, <1>3, <1>4, WrittenIs
  <2> QED
    BY <1>2, <1>4, <2>1
<1>5. CASE seats # None
  <2>1. /\ x \in Seq(Entry) /\ seats \in Seq(Seat) /\ DOMAIN x = DOMAIN seats
        /\ \A i \in DOMAIN seats : x[i] = [seat |-> seats[i], layer |-> scope, key |-> key, at |-> i]
    BY <1>1, <1>2, <1>3, <1>5, WrittenIs
  <2>2. \A k \in 1 .. Len(x) : k \in DOMAIN seats
    BY <2>1
  <2>3. \A k \in 1 .. Len(x) : OwnExtra(x[k], scope, design) /\ x[k].at = k
    <3>1. \A k \in 1 .. Len(x) : x[k].layer = scope /\ x[k].key = key /\ x[k].at = k
      BY <2>1, <2>2
    <3> QED
      BY <1>2, <3>1 DEF OwnExtra
  <2>4. Faces(x) = Nameless(seats)
    BY <1>1, <1>2, <1>3, <2>1, WrittenFaces
  <2> QED
    BY <1>2, <1>5, <2>3, <2>4
<1> QED
  BY <1>4, <1>5

\* Whom a panel has, and which of its places are the file's own extras, in the order of its list of them.
PartsIn(panel, ground, before, extras, scope, design) ==
  /\ panel \in Seq(Entry) /\ before \in Seq(Face) /\ Faces(extras) \in Seq(Face)
  /\ Len(Faces(extras)) = Len(extras)
  /\ Faces(panel) = Cat(before, Faces(extras))
  /\ \A i \in 1 .. Len(before) : i \in DOMAIN panel /\ ~OwnExtra(panel[i], scope, design)
  /\ \A i \in DOMAIN panel : i \in 1 .. Len(before) \/ \E k \in 1 .. Len(extras) : i = Len(before) + k
  /\ \A k \in 1 .. Len(extras) :
       OwnExtra(panel[Len(before) + k], scope, design) /\ panel[Len(before) + k].at = k
  /\ \A i \in DOMAIN ground : panel[i] = ground[i]

LEMMA PartsOf ==
  ASSUME FitOK(fit), file \in [Scope -> LayerType], NEW scope \in Scope, NEW layer \in LayerType,
         NEW design \in BOOLEAN
  PROVE  PartsIn(InForce(scope, layer, design), Ground(scope, layer, design), Before(scope, layer, design),
                 Extras(layer, scope, design), scope, design)
<1>a. PICK panel, n : panel = InForce(scope, layer, design) /\ n = Len(Before(scope, layer, design))
  OBVIOUS
<1>1. PICK b, a, x : /\ b = Ground(scope, layer, design) /\ a = Abroad(scope, layer, design)
                     /\ x = Extras(layer, scope, design)
  OBVIOUS
<1>2. PICK e : e = Cat(a, x)
  OBVIOUS
<1>3. /\ b \in Seq(Entry) /\ a \in Seq(Entry) /\ x \in Seq(Entry)
      /\ \A i \in DOMAIN b : ~OwnExtra(b[i], scope, design)
      /\ \A i \in DOMAIN a : ~OwnExtra(a[i], scope, design)
      /\ Follows(panel, b, e)
  BY <1>a, <1>1, <1>2, ForceIs, BesideSplit
<1>4. PICK nb, na, nx : nb = Len(b) /\ na = Len(a) /\ nx = Len(x)
  OBVIOUS
<1>5. /\ nb \in Nat /\ na \in Nat /\ nx \in Nat
      /\ DOMAIN b = 1 .. nb /\ DOMAIN a = 1 .. na /\ DOMAIN x = 1 .. nx
  BY <1>3, <1>4
<1>6. CatOf(Entry, a, x, e)
  BY <1>2, <1>3, CatIs
<1>7. /\ e \in Seq(Entry) /\ Len(e) = na + nx
      /\ \A i \in 1 .. na : e[i] = a[i]
      /\ \A k \in 1 .. nx : e[na + k] = x[k]
  BY <1>4, <1>6 DEF CatOf
<1>8. /\ panel \in Seq(Entry) /\ Len(panel) = nb + (na + nx)
      /\ \A i \in 1 .. nb : panel[i] = b[i]
      /\ \A i \in 1 .. na + nx : Renamed(panel[nb + i], e[i])
  BY <1>3, <1>4, <1>7 DEF Follows
<1>9. Faces(panel) = Cat(Faces(b), Faces(e))
  BY <1>3, <1>7, FollowsFaces
<1>10. Faces(e) = Cat(Faces(a), Faces(x))
  <2>1. Follows(e, a, x)
    BY <1>4, <1>7 DEF Follows, Renamed
  <2> QED
    BY <1>3, <2>1, FollowsFaces
<1>11. PICK fb, fa, fx, f : fb = Faces(b) /\ fa = Faces(a) /\ fx = Faces(x) /\ f = Cat(fb, fa)
  OBVIOUS
<1>12. /\ fb \in Seq(Face) /\ fa \in Seq(Face) /\ fx \in Seq(Face)
       /\ Len(fb) = nb /\ Len(fa) = na /\ Len(fx) = nx
  BY <1>3, <1>4, <1>11, FacesIs
<1>13. f = Before(scope, layer, design)
  BY <1>1, <1>11 DEF Before
<1>14. f \in Seq(Face) /\ Len(f) = nb + na
  <2>1. CatOf(Face, fb, fa, f)
    BY <1>11, <1>12, CatIs
  <2> QED
    BY <1>12, <2>1 DEF CatOf
<1>15. Faces(panel) = Cat(f, fx)
  <2>1. Cat(fb, Cat(fa, fx)) = Cat(Cat(fb, fa), fx)
    BY <1>12, CatCat
  <2> QED
    BY <1>9, <1>10, <1>11, <2>1
<1>16. n = nb + na /\ DOMAIN panel = 1 .. nb + (na + nx)
  BY <1>a, <1>8, <1>13, <1>14
<1>17. ASSUME NEW i \in 1 .. n PROVE i \in DOMAIN panel /\ ~OwnExtra(panel[i], scope, design)
  <2>1. i \in DOMAIN panel
    BY <1>5, <1>16
  <2>2. CASE i \in 1 .. nb
    BY <1>3, <1>5, <1>8, <2>1, <2>2
  <2>3. CASE i \notin 1 .. nb
    <3>1. PICK j : j = i - nb
      OBVIOUS
    <3>2. j \in 1 .. na /\ j \in 1 .. na + nx /\ nb + j = i
      BY <1>5, <1>16, <2>3, <3>1
    <3>3. PICK y : y = e[j]
      OBVIOUS
    <3>4. Renamed(panel[nb + j], y) /\ y = a[j]
      BY <1>7, <1>8, <3>2, <3>3
    <3>5. Renamed(panel[i], y) /\ ~OwnExtra(y, scope, design)
      BY <1>3, <1>5, <3>2, <3>4
    <3> QED
      BY <2>1, <3>5 DEF Renamed, OwnExtra
  <2> QED
    BY <2>2, <2>3
<1>18. ASSUME NEW i \in DOMAIN panel, i \notin 1 .. n PROVE \E k \in 1 .. nx : i = n + k
  <2>1. i - n \in 1 .. nx /\ i = n + (i - n)
    BY <1>5, <1>16, <1>18
  <2> QED
    BY <2>1
<1>19. ASSUME NEW k \in 1 .. nx PROVE OwnExtra(panel[n + k], scope, design) /\ panel[n + k].at = k
  <2>1. PICK j, i : j = na + k /\ i = nb + j
    OBVIOUS
  <2>2. j \in 1 .. na + nx /\ i = n + k
    BY <1>5, <1>16, <2>1
  <2>3. Renamed(panel[i], e[j])
    BY <1>8, <2>1, <2>2
  <2>4. e[j] = x[k]
    BY <1>7, <2>1
  <2>5. OwnExtra(x[k], scope, design) /\ x[k].at = k
    BY <1>1, <1>4, ExtraAt
  <2>6. PICK u, v : u = panel[i] /\ v = x[k]
    OBVIOUS
  <2>7. Renamed(u, v) /\ OwnExtra(v, scope, design) /\ v.at = k
    BY <2>3, <2>4, <2>5, <2>6
  <2>8. OwnExtra(u, scope, design) /\ u.at = k
    BY <2>7 DEF Renamed, OwnExtra
  <2> QED
    BY <2>2, <2>6, <2>8
<1>20. \A i \in DOMAIN b : panel[i] = b[i]
  BY <1>5, <1>8
<1>21. /\ f \in Seq(Face) /\ fx \in Seq(Face) /\ Faces(panel) = Cat(f, fx)
       /\ f = Before(scope, layer, design) /\ fx = Faces(Extras(layer, scope, design))
       /\ nx = Len(Extras(layer, scope, design))
  BY <1>1, <1>4, <1>11, <1>12, <1>13, <1>14, <1>15
<1> QED
  BY <1>a, <1>1, <1>4, <1>8, <1>12, <1>11, <1>17, <1>18, <1>19, <1>20, <1>21 DEF PartsIn

\* A list of the first seats of a panel, at some places, and what of the panel it leaves out.
Covers(s, A, C, m, K, left, at) ==
  /\ s \in Seq(Seat) /\ IdsOnce(s) /\ m \in Seq(Seat) /\ A \in Seq(Face) /\ C \in Seq(Face)
  /\ Nameless(s) = Cat(A, C)
  /\ Len(m) = Len(A) /\ \A i \in 1 .. Len(m) : m[i] = s[i]
  /\ at \in 1 .. Len(m)
  /\ \A i \in 1 .. Len(m) : i \in K <=> i \notin left
  /\ \A k \in 1 .. Len(C) : Len(m) + k \notin left

\* An edit that finds the seat in the list by its id lands on it.
LEMMA ListLands ==
  ASSUME NEW s, NEW A, NEW C, NEW m, NEW K, NEW left, NEW at, Covers(s, A, C, m, K, left, at),
         NEW x, x = Picked(m, K), NEW places, places = At(x, s[at].id), places # {}, NEW change \in Change
  PROVE  /\ x \in Seq(Seat) /\ First(places) \in DOMAIN x
         /\ Nameless(AsAsked(s, at, change, left)) = Cat(Nameless(Edited(x, First(places), change)), C)
<1>1. PICK n, l : n = Len(m) /\ l = Len(C)
  OBVIOUS
<1>2. /\ s \in Seq(Seat) /\ IdsOnce(s) /\ m \in Seq(Seat) /\ A \in Seq(Face) /\ C \in Seq(Face)
      /\ Nameless(s) = Cat(A, C) /\ Len(A) = n /\ \A i \in 1 .. n : m[i] = s[i]
      /\ at \in 1 .. n /\ \A i \in 1 .. n : i \in K <=> i \notin left
      /\ \A k \in 1 .. l : n + k \notin left
  BY <1>1 DEF Covers
<1>3. n \in Nat /\ l \in Nat /\ DOMAIN m = 1 .. n /\ at \in Nat
  BY <1>1, <1>2
<1>4. PICK F : F = Nameless(s)
  OBVIOUS
<1>5. F \in Seq(Face) /\ Len(F) = Len(s) /\ \A i \in 1 .. Len(s) : F[i] = Blank(s[i])
  BY <1>2, <1>4, NamelessIs
<1>6. Len(F) = n + l /\ \A i \in 1 .. n : F[i] = A[i]
  <2>1. CatOf(Face, A, C, F)
    BY <1>2, <1>4, CatIs
  <2> QED
    BY <1>1, <1>2, <2>1 DEF CatOf
<1>7. DOMAIN s = 1 .. n + l
  <2>1. Len(s) = n + l
    BY <1>5, <1>6
  <2>2. DOMAIN s = 1 .. Len(s)
    BY <1>2
  <2> QED
    BY <2>1, <2>2
<1>8. Nameless(m) = A
  <2>1. PICK B : B = Nameless(m)
    OBVIOUS
  <2>2. B \in Seq(Face) /\ Len(B) = n /\ \A i \in 1 .. n : B[i] = Blank(m[i])
    BY <1>1, <1>2, <2>1, NamelessIs
  <2>3. ASSUME NEW i \in 1 .. n PROVE B[i] = A[i]
    <3>1. i \in 1 .. Len(s)
      BY <1>3, <1>5, <1>6
    <3> QED
      BY <1>2, <1>5, <1>6, <2>2, <3>1
  <2> QED
    BY <1>2, <2>1, <2>2, <2>3, SameSeq
<1>9. IdsOnce(m)
  <2>1. \A i \in 1 .. n : i \in DOMAIN s
    BY <1>3, <1>7
  <2> QED
    BY <1>2, <1>3, <2>1 DEF IdsOnce
<1>10. /\ x \in Seq(Seat) /\ IdsOnce(x)
       /\ \A i \in DOMAIN x : \E k \in 1 .. n : k \in K /\ x[i] = m[k]
  BY <1>2, <1>3, <1>9, PickOnce, PickedType
<1>11. PICK id : id = s[at].id
  OBVIOUS
<1>12. m[at].id = id /\ at \in DOMAIN m
  BY <1>2, <1>3, <1>11
<1>13. at \in K
  <2>1. PICK i \in DOMAIN x : x[i].id = id
    BY <1>11 DEF At
  <2>2. PICK k \in 1 .. n : k \in K /\ x[i] = m[k]
    BY <1>10
  <2>3. m[k].id = m[at].id /\ k \in DOMAIN m
    BY <1>3, <1>12, <2>1, <2>2
  <2> QED
    BY <1>9, <1>12, <2>2, <2>3 DEF IdsOnce
<1>14. PICK r : r = Rank(K, at)
  OBVIOUS
<1>15. r \in DOMAIN x /\ x[r] = m[at]
  <2>1. PICK e : e = m[at]
    OBVIOUS
  <2>2. e \in Seat /\ at \in 1 .. Len(m)
    BY <1>1, <1>2, <2>1
  <2>3. EditedAt(Picked(m, K), Picked(m, K \ {at}), Picked([m EXCEPT ![at] = e], K), Rank(K, at), m[at], e)
    BY <1>2, <1>13, <2>2, PickEdit
  <2> QED
    BY <1>10, <1>14, <2>3 DEF EditedAt
<1>16. places = {r}
  <2>1. x[r].id = id
    BY <1>12, <1>15
  <2>2. \A i \in DOMAIN x : x[i].id = id => i = r
    BY <1>10, <1>15, <2>1 DEF IdsOnce
  <2> QED
    BY <1>11, <1>15, <2>1, <2>2 DEF At
<1>17. First(places) = r
  <2>1. r \in Nat
    BY <1>10, <1>15
  <2> QED
    BY <1>16, <2>1 DEF First
<1>18. Lies(s, <<>>, m, C, K, left, at, at)
  <2>1. PICK kept, B, z : kept = DOMAIN s \ left /\ B = Nameless(m) /\ z = Len(<<>>)
    OBVIOUS
  <2>2. z = 0 /\ Len(B) = n /\ B \in Seq(Face) /\ <<>> \in Seq(Face)
    BY <1>2, <1>8, <2>1
  <2>3. \A j \in 1 .. n : j \in K <=> z + j \in kept
    <3> SUFFICES ASSUME NEW j \in 1 .. n PROVE j \in K <=> z + j \in kept
      OBVIOUS
    <3>1. z + j = j /\ j \in DOMAIN s
      BY <1>3, <1>7, <2>2
    <3> QED
      BY <1>2, <2>1, <3>1
  <2>4. \A k \in 1 .. l : z + n + k \in kept
    <3> SUFFICES ASSUME NEW k \in 1 .. l PROVE z + n + k \in kept
      OBVIOUS
    <3>1. z + n + k = n + k /\ n + k \in DOMAIN s
      BY <1>3, <1>7, <2>2
    <3> QED
      BY <1>2, <2>1, <3>1
  <2>5. Keeps(Face, kept, <<>>, B, C, K)
    <3>1. \A i \in 1 .. Len(<<>>) : i \in kept
      BY <2>1, <2>2
    <3> QED
      BY <1>1, <1>2, <2>1, <2>2, <2>3, <2>4, <3>1 DEF Keeps
  <2>6. at = Len(<<>>) + at
    BY <1>3, <2>1, <2>2
  <2>7. Within(Face, kept, <<>>, B, C, K, at, at)
    BY <1>2, <1>13, <2>2, <2>5, <2>6 DEF Within
  <2>8. Nameless(s) = Three(<<>>, B, C)
    <3>1. Cat(<<>>, B) = B
      BY <2>2, CatEmpty
    <3> QED
      BY <1>2, <1>8, <2>1, <3>1 DEF Three
  <2> QED
    BY <1>2, <2>1, <2>7, <2>8 DEF Lies
<1>19. Nameless(AsAsked(s, at, change, left)) = Three(<<>>, Nameless(Edited(x, r, change)), C)
  BY <1>14, <1>18, EditLands
<1>20. Three(<<>>, Nameless(Edited(x, r, change)), C) = Cat(Nameless(Edited(x, r, change)), C)
  <2>1. Edited(x, r, change) \in Seq(Seat)
    BY <1>10, <1>15, EditedIs
  <2>2. Nameless(Edited(x, r, change)) \in Seq(Face)
    BY <2>1, NamelessIs
  <2> QED
    BY <2>2, CatEmpty DEF Three
<1> QED
  BY <1>10, <1>15, <1>17, <1>19, <1>20

\* An edit of an extra of the file lands on it.
LEMMA OwnLands ==
  ASSUME NEW s, s \in Seq(Seat), NEW A, A \in Seq(Face), NEW x, x \in Seq(Seat), Nameless(s) = Cat(A, Nameless(x)),
         NEW a \in DOMAIN x, NEW at, at = Len(A) + a, NEW change \in Change
  PROVE  Nameless(AsAsked(s, at, change, {})) = Cat(A, Nameless(Edited(x, a, change)))
<1>1. PICK B, n, l, K : B = Nameless(x) /\ n = Len(A) /\ l = Len(x) /\ K = DOMAIN x
  OBVIOUS
<1>2. B \in Seq(Face) /\ Len(B) = l /\ n \in Nat /\ l \in Nat /\ K = 1 .. l /\ a \in Nat /\ a \in 1 .. l
  BY <1>1, NamelessIs
<1>3. DOMAIN s = 1 .. n + l
  <2>1. CatOf(Face, A, B, Cat(A, B))
    BY <1>2, CatIs
  <2>2. Len(Nameless(s)) = n + l
    BY <1>1, <1>2, <2>1 DEF CatOf
  <2>3. Len(Nameless(s)) = Len(s)
    BY NamelessIs
  <2> QED
    BY <2>2, <2>3
<1>4. Rank(K, a) = a
  <2>1. 1 .. a \subseteq K
    BY <1>2
  <2> QED
    BY <1>2, <2>1, RankAll
<1>5. Picked(x, K) = x
  BY <1>1, PickAll
<1>6. Lies(s, A, x, <<>>, K, {}, a, at)
  <2>1. PICK kept, z : kept = DOMAIN s \ {} /\ z = Len(<<>>)
    OBVIOUS
  <2>2. z = 0 /\ <<>> \in Seq(Face) /\ kept = 1 .. n + l
    BY <1>3, <2>1
  <2>3. \A i \in 1 .. n : i \in kept
    BY <1>2, <2>2
  <2>4. \A j \in 1 .. l : j \in K <=> n + j \in kept
    BY <1>2, <2>2
  <2>5. \A k \in 1 .. z : n + l + k \in kept
    BY <2>2
  <2>6. Keeps(Face, kept, A, B, <<>>, K)
    BY <1>1, <1>2, <2>1, <2>2, <2>3, <2>4, <2>5 DEF Keeps
  <2>7. Within(Face, kept, A, B, <<>>, K, a, at)
    BY <1>1, <1>2, <2>6 DEF Within
  <2>8. Nameless(s) = Three(A, B, <<>>)
    <3>1. PICK f : f = Cat(A, B)
      OBVIOUS
    <3>2. f \in Seq(Face)
      BY <1>1, <3>1, NamelessIs
    <3>3. Cat(f, <<>>) = f
      BY <3>2, CatEmpty
    <3> QED
      BY <1>1, <3>1, <3>3 DEF Three
  <2> QED
    BY <1>1, <2>1, <2>7, <2>8 DEF Lies
<1>7. Nameless(AsAsked(s, at, change, {})) = Three(A, Nameless(Edited(Picked(x, K), Rank(K, a), change)), <<>>)
  BY <1>6, EditLands
<1>8. PICK y : y = Nameless(Edited(x, a, change))
  OBVIOUS
<1>9. y \in Seq(Face)
  BY <1>8, EditedIs, NamelessIs
<1>10. Three(A, y, <<>>) = Cat(A, y)
  <2>1. PICK f : f = Cat(A, y)
    OBVIOUS
  <2>2. CatOf(Face, A, y, f)
    BY <1>9, <2>1, CatIs
  <2>3. f \in Seq(Face)
    BY <2>2 DEF CatOf
  <2>4. Cat(f, <<>>) = f
    BY <2>3, CatEmpty
  <2> QED
    BY <2>1, <2>4 DEF Three
<1> QED
  BY <1>4, <1>5, <1>7, <1>8, <1>10

LEMMA NoFaces == Faces(<<>>) = <<>> /\ <<>> \in Seq(Entry)
<1>1. <<>> \in Seq(Entry)
  BY EmptySeq
<1>2. Faces(<<>>) \in Seq(Face) /\ Len(Faces(<<>>)) = 0
  BY <1>1, FacesIs
<1> QED
  BY <1>1, <1>2

\* A file that lists a panel has it before its extras.
LEMMA BeforeListed ==
  ASSUME NEW scope \in Scope, NEW layer \in LayerType, NEW design \in BOOLEAN, layer[ListKey(design)] # None
  PROVE  /\ layer[ListKey(design)] \in Seq(Seat)
         /\ Ground(scope, layer, design) = Written(layer[ListKey(design)], scope, ListKey(design))
         /\ Before(scope, layer, design) = Nameless(layer[ListKey(design)])
<1>1. PICK x, key : x = layer[ListKey(design)] /\ key = ListKey(design)
  OBVIOUS
<1>2. x \in Seq(Seat)
  BY <1>1, ExtrasIs DEF SeatList
<1>3. Ground(scope, layer, design) = Written(x, scope, key)
  <2>1. CASE scope = "global"
    <3>1. Below(scope, layer)[1] = layer /\ Below(scope, layer)[2] = Empty
      BY <2>1 DEF Below
    <3>2. Base(fit, layer, Empty, design) = Written(x, scope, key)
      BY <1>1, <2>1 DEF Base, CodeBase, DesignBase, ListKey, Empty
    <3> QED
      BY <3>1, <3>2 DEF Ground
  <2>2. CASE scope = "project"
    <3>1. Below(scope, layer)[1] = file["global"] /\ Below(scope, layer)[2] = layer
      BY <2>2 DEF Below
    <3>2. Base(fit, file["global"], layer, design) = Written(x, scope, key)
      BY <1>1, <2>2 DEF Base, CodeBase, DesignBase, ListKey
    <3> QED
      BY <3>1, <3>2 DEF Ground
  <2> QED
    BY <2>1, <2>2 DEF Scope
<1>4. Faces(Written(x, scope, key)) = Nameless(x)
  <2>1. scope \in Origin /\ key \in PanelKey
    BY <1>1 DEF Scope, Origin, ListKey, PanelKey
  <2> QED
    BY <1>2, <2>1, WrittenFaces
<1>5. Faces(Abroad(scope, layer, design)) = <<>>
  BY NoFaces DEF Abroad
<1>6. Cat(Nameless(x), <<>>) = Nameless(x)
  BY <1>2, NamelessIs, CatEmpty
<1> QED
  BY <1>1, <1>2, <1>3, <1>4, <1>5, <1>6 DEF Before

\* Both files leave whom they find below them before their own extras, where they list no panel.
LEMMA BelowIs ==
  ASSUME FitOK(fit), file \in [Scope -> LayerType], NEW scope \in Scope, file[scope].list = None
  PROVE  /\ CodeBelow(scope) \in Seq(Entry)
         /\ Before(scope, file[scope], FALSE) = Faces(CodeBelow(scope))
         /\ \A i \in DOMAIN CodeBelow(scope) : ~OwnExtra(CodeBelow(scope)[i], scope, FALSE)
         /\ ~Shifted(scope, FALSE) =>
              \A i \in DOMAIN CodeBelow(scope) :
                InForce(scope, file[scope], FALSE)[i].seat = CodeBelow(scope)[i].seat
<1>0. /\ "global" \in Scope /\ "project" \in Scope /\ FALSE \in BOOLEAN /\ file[scope] \in LayerType
      /\ file["global"] \in LayerType /\ ListKey(FALSE) = "list" /\ ExtraKey(FALSE) = "extra"
  BY DEF Scope, ListKey, ExtraKey
<1>1. PICK below, g : below = CodeBelow(scope) /\ g = file["global"]
  OBVIOUS
<1>2. CASE scope = "global"
  <2>1. below = Written(fit.code, "default", "list") /\ file[scope] = g
    BY <1>1, <1>2 DEF CodeBelow
  <2>2. Ground(scope, file[scope], FALSE) = below
    <3>1. Below(scope, file[scope])[1] = g /\ Below(scope, file[scope])[2] = Empty
      BY <1>2, <2>1 DEF Below
    <3>2. g.list = None
      BY <2>1
    <3>3. Base(fit, g, Empty, FALSE) = Written(fit.code, "default", "list")
      BY <3>2 DEF Base, CodeBase, Empty
    <3> QED
      BY <2>1, <3>1, <3>3 DEF Ground
  <2>3. below \in Seq(Entry) /\ \A i \in DOMAIN below : ~OwnExtra(below[i], scope, FALSE)
    BY <1>0, <2>2, ForceIs
  <2>4. Before(scope, file[scope], FALSE) = Faces(below)
    <3>1. Faces(Abroad(scope, file[scope], FALSE)) = <<>>
      BY <1>2, NoFaces DEF Abroad
    <3>2. Faces(below) \in Seq(Face)
      BY <2>3, FacesIs
    <3>3. Cat(Faces(below), <<>>) = Faces(below)
      BY <3>2, CatEmpty
    <3> QED
      BY <2>2, <3>1, <3>3 DEF Before
  <2>5. \A i \in DOMAIN below : InForce(scope, file[scope], FALSE)[i] = below[i]
    <3>1. PartsIn(InForce(scope, file[scope], FALSE), Ground(scope, file[scope], FALSE),
                  Before(scope, file[scope], FALSE), Extras(file[scope], scope, FALSE), scope, FALSE)
      BY <1>0, PartsOf
    <3> QED
      BY <2>2, <3>1 DEF PartsIn
  <2> QED
    BY <1>1, <2>3, <2>4, <2>5
<1>3. CASE scope = "project"
  <2>1. below = InForce("global", g, FALSE)
    BY <1>1, <1>3 DEF CodeBelow, InForce, Composed, Below
  <2>2. PICK b : b = Ground("global", g, FALSE)
    OBVIOUS
  <2>3. b \in Seq(Entry) /\ \A i \in DOMAIN b : b[i].key = "list"
    <3>1. b = CodeBase(fit, g, Empty)
      BY <2>2 DEF Ground, Base, Below
    <3> QED
      BY <1>0, <1>1, <3>1, EmptyLayer, CodeBaseIs
  <2>4. Ground("project", file["project"], FALSE) = b
    <3>1. file["project"].list = None
      BY <1>3
    <3> QED
      BY <1>1, <2>2, <3>1 DEF Ground, Base, Below, CodeBase, Empty
  <2>5. Before("global", g, FALSE) = Faces(b)
    <3>1. Faces(Abroad("global", g, FALSE)) = <<>>
      BY NoFaces DEF Abroad
    <3>2. Faces(b) \in Seq(Face)
      BY <2>3, FacesIs
    <3>3. Cat(Faces(b), <<>>) = Faces(b)
      BY <3>2, CatEmpty
    <3> QED
      BY <2>2, <3>1, <3>3 DEF Before
  <2>6. Before("project", file["project"], FALSE) = Cat(Faces(b), Faces(Extras(g, "global", FALSE)))
    <3>1. Abroad("project", file["project"], FALSE) = Extras(g, "global", FALSE)
      <4>1. file["project"][ListKey(FALSE)] = None
        BY <1>0, <1>3
      <4> QED
        BY <1>1, <4>1 DEF Abroad
    <3> QED
      BY <2>4, <3>1 DEF Before
  <2>7. PICK n : n = Len(Before("global", g, FALSE))
    OBVIOUS
  <2>8. /\ Faces(below) = Cat(Faces(b), Faces(Extras(g, "global", FALSE)))
        /\ \A i \in DOMAIN below : i \in 1 .. n \/ \E k \in 1 .. Len(Extras(g, "global", FALSE)) : i = n + k
        /\ \A k \in 1 .. Len(Extras(g, "global", FALSE)) : OwnExtra(below[n + k], "global", FALSE)
        /\ \A i \in DOMAIN b : below[i] = b[i]
    <3>1. g \in LayerType
      BY <1>0, <1>1
    <3>2. PartsIn(InForce("global", g, FALSE), Ground("global", g, FALSE), Before("global", g, FALSE),
                  Extras(g, "global", FALSE), "global", FALSE)
      BY <1>0, <3>1, PartsOf
    <3> QED
      BY <2>1, <2>2, <2>5, <2>7, <3>2 DEF PartsIn
  <2>9. below \in Seq(Entry)
    BY <1>0, <1>1, <2>1, InForceIs
  <2>10. ASSUME NEW i \in DOMAIN below PROVE ~OwnExtra(below[i], scope, FALSE)
    <3>1. CASE i \in 1 .. n
      <4>1. n = Len(b) /\ DOMAIN b = 1 .. n
        <5>1. Len(Faces(b)) = Len(b) /\ DOMAIN b = 1 .. Len(b)
          BY <2>3, FacesIs
        <5> QED
          BY <2>5, <2>7, <5>1
      <4>2. below[i].key = "list"
        BY <2>3, <2>8, <3>1, <4>1
      <4> QED
        BY <1>0, <4>2 DEF OwnExtra
    <3>2. CASE \E k \in 1 .. Len(Extras(g, "global", FALSE)) : i = n + k
      <4>1. PICK k \in 1 .. Len(Extras(g, "global", FALSE)) : i = n + k
        BY <3>2
      <4>2. OwnExtra(below[i], "global", FALSE)
        BY <2>8, <4>1
      <4> QED
        BY <1>3, <4>2 DEF OwnExtra
    <3> QED
      BY <2>8, <3>1, <3>2
  <2>11. ASSUME ~Shifted(scope, FALSE), NEW i \in DOMAIN below
         PROVE  InForce(scope, file[scope], FALSE)[i].seat = below[i].seat
    <3>1. below = CodePanel(fit, file["global"], Empty)
      BY <1>1, <1>3 DEF CodeBelow
    <3> QED
      BY <1>3, <2>11, <3>1 DEF Shifted
  <2> QED
    BY <1>1, <1>3, <2>6, <2>8, <2>9, <2>10, <2>11
<1> QED
  BY <1>2, <1>3 DEF Scope

LEMMA SeqFrom ==
  ASSUME NEW S, NEW l \in Nat, NEW z, z \in [1 .. l -> S]
  PROVE  z \in Seq(S) /\ Len(z) = l
  OBVIOUS

\* The list that an edit of an inherited seat, or of a listed one, is made in.
LEMMA ListCovers ==
  ASSUME SeatsTypeOK, ListsOnce, NEW scope \in Scope, NEW design \in BOOLEAN, NEW panel, NEW at \in DOMAIN panel,
         panel = InForce(scope, file[scope], design), ~OwnExtra(panel[at], scope, design), ~Shifted(scope, design)
  PROVE  \E m, K :
           /\ Covers(SeatsOf(panel), Before(scope, file[scope], design), Faces(Extras(file[scope], scope, design)),
                     m, K, LeftOut(scope, design), at)
           /\ Seeded(scope, design)[ListKey(design)] = Picked(m, K)
<1>0. FitOK(fit) /\ file \in [Scope -> LayerType] /\ file[scope] \in LayerType
  BY FilesAre
<1>1. PICK s, A, C, x : /\ s = SeatsOf(panel) /\ A = Before(scope, file[scope], design)
                        /\ x = Extras(file[scope], scope, design) /\ C = Faces(x)
  OBVIOUS
<1>2. PICK ground : ground = Ground(scope, file[scope], design)
  OBVIOUS
<1>3. PartsIn(panel, ground, A, x, scope, design)
  BY <1>0, <1>1, <1>2, PartsOf
<1>4. PICK n, l : n = Len(A) /\ l = Len(C)
  OBVIOUS
<1>5. /\ panel \in Seq(Entry) /\ A \in Seq(Face) /\ C \in Seq(Face) /\ Faces(panel) = Cat(A, C)
      /\ \A i \in 1 .. n : i \in DOMAIN panel /\ ~OwnExtra(panel[i], scope, design)
      /\ \A i \in DOMAIN panel : i \in 1 .. n \/ \E k \in 1 .. l : i = n + k
      /\ \A k \in 1 .. l : OwnExtra(panel[n + k], scope, design)
      /\ \A i \in DOMAIN ground : panel[i] = ground[i]
  BY <1>1, <1>3, <1>4 DEF PartsIn
<1>6. /\ s \in Seq(Seat) /\ Len(s) = Len(panel) /\ \A i \in 1 .. Len(panel) : s[i] = panel[i].seat
  BY <1>1, <1>5, SeatsOfIs
<1>7. DOMAIN panel = 1 .. Len(panel) /\ DOMAIN s = DOMAIN panel /\ n \in Nat /\ l \in Nat
  BY <1>4, <1>5, <1>6
<1>8. IdsOnce(s)
  <2>1. PanelOnce(panel)
    BY InForceOnce
  <2> QED
    BY <1>6, <1>7, <2>1 DEF PanelOnce, IdsOnce
<1>9. Nameless(s) = Cat(A, C)
  BY <1>1, <1>5 DEF Faces
<1>10. at \in 1 .. n
  <2>1. ASSUME NEW k \in 1 .. l, at = n + k PROVE FALSE
    BY <1>5, <2>1
  <2> QED
    BY <1>5, <2>1
<1>11. ASSUME NEW m, m \in Seq(Seat), Len(m) = n, \A i \in 1 .. n : m[i] = s[i],
              NEW K, NEW left, \A i \in 1 .. n : i \in K <=> i \notin left, \A k \in 1 .. l : n + k \notin left
       PROVE  Covers(s, A, C, m, K, left, at)
  BY <1>4, <1>5, <1>6, <1>8, <1>9, <1>10, <1>11 DEF Covers
<1>12. PICK key, left, list : /\ key = ListKey(design) /\ left = LeftOut(scope, design)
                              /\ list = Seeded(scope, design)[ListKey(design)]
  OBVIOUS
<1> SUFFICES \E m, K : Covers(s, A, C, m, K, left, at) /\ list = Picked(m, K)
  BY <1>1, <1>12
<1>13. CASE file[scope][key] # None
  <2>1. PICK m : m = file[scope][key]
    OBVIOUS
  <2>2. left = {} /\ list = m
    BY <1>12, <1>13, <2>1 DEF LeftOut, Seeded
  <2>3. m \in Seq(Seat) /\ ground = Written(m, scope, key) /\ A = Nameless(m)
    BY <1>0, <1>1, <1>2, <1>12, <1>13, <2>1, BeforeListed
  <2>4. Len(m) = n /\ DOMAIN m = 1 .. n
    BY <1>4, <2>3, NamelessIs
  <2>5. SeatsOf(ground) = m /\ ground \in Seq(Entry)
    <3>1. scope \in Origin /\ key \in PanelKey /\ m \in SeatList
      BY <1>12, <2>3 DEF Scope, Origin, ListKey, PanelKey, SeatList
    <3> QED
      BY <2>3, <3>1, WrittenFaces, WrittenIs
  <2>6. \A i \in 1 .. n : m[i] = s[i]
    <3>1. Len(SeatsOf(ground)) = Len(ground) /\ \A i \in 1 .. Len(ground) : SeatsOf(ground)[i] = ground[i].seat
      BY <2>5, SeatsOfIs
    <3>2. Len(ground) = n /\ DOMAIN ground = 1 .. n /\ \A i \in 1 .. n : m[i] = ground[i].seat
      BY <2>4, <2>5, <3>1
    <3>3. ASSUME NEW i \in 1 .. n PROVE m[i] = s[i]
      <4>1. i \in 1 .. Len(panel) /\ panel[i] = ground[i]
        BY <1>5, <1>7, <3>2
      <4> QED
        BY <1>6, <3>2, <4>1
    <3> QED
      BY <3>3
  <2>7. Picked(m, 1 .. n) = m
    BY <2>3, <2>4, PickAll
  <2>8. Covers(s, A, C, m, 1 .. n, left, at)
    BY <1>11, <2>2, <2>3, <2>4, <2>6
  <2> QED
    BY <2>2, <2>7, <2>8
<1>14. CASE file[scope][key] = None /\ ~design
  <2>0. key = "list" /\ file[scope].list = None /\ design = FALSE
    BY <1>12, <1>14 DEF ListKey
  <2>1. PICK below, K : below = CodeBelow(scope) /\ K = MayCopy(scope, below)
    OBVIOUS
  <2>2. /\ below \in Seq(Entry) /\ A = Faces(below)
        /\ \A i \in DOMAIN below : ~OwnExtra(below[i], scope, FALSE)
        /\ \A i \in DOMAIN below : panel[i].seat = below[i].seat
    BY <1>0, <1>1, <2>0, <2>1, BelowIs
  <2>3. PICK m : m = SeatsOf(below)
    OBVIOUS
  <2>4. m \in Seq(Seat) /\ Len(m) = Len(below) /\ \A i \in 1 .. Len(below) : m[i] = below[i].seat
    BY <2>2, <2>3, SeatsOfIs
  <2>5. Len(below) = n /\ DOMAIN below = 1 .. n
    <3>1. Len(below) = n
      BY <1>4, <2>2, FacesIs
    <3> QED
      BY <2>2, <3>1
  <2>6. ASSUME NEW i \in 1 .. n PROVE m[i] = s[i]
    <3>1. i \in 1 .. Len(panel) /\ i \in DOMAIN below
      BY <1>5, <1>7, <2>5
    <3> QED
      BY <1>6, <2>2, <2>4, <2>5, <3>1
  <2>7. list = Picked(m, K)
    <3>1. Seeded(scope, design) = [file[scope] EXCEPT ![key] = SeatsOf(Seeds(scope, design))]
      BY <1>12, <1>14 DEF Seeded
    <3>2. Seeds(scope, design) = Picked(below, K)
      BY <2>0, <2>1 DEF Seeds, CodeSeeds
    <3>3. file[scope] \in [PanelKey -> SeatList] /\ key \in PanelKey
      BY <1>0, <2>0, LayersAre DEF PanelKey
    <3>4. list = SeatsOf(Picked(below, K))
      BY <1>12, <3>1, <3>2, <3>3
    <3> QED
      BY <2>2, <2>3, <3>4, PickSeats
  <2>8. left = DOMAIN below \ K
    <3>1. OwnExtras(below, scope, design) = {}
      BY <2>0, <2>2 DEF OwnExtras
    <3>2. left = DOMAIN below \ (K \cup OwnExtras(below, scope, design))
      BY <1>12, <1>14, <2>0, <2>1 DEF LeftOut
    <3> QED
      BY <3>1, <3>2
  <2>9. \A i \in 1 .. n : i \in K <=> i \notin left
    BY <2>5, <2>8
  <2>10. \A k \in 1 .. l : n + k \notin left
    BY <1>7, <2>5, <2>8
  <2>11. Covers(s, A, C, m, K, left, at)
    BY <1>11, <2>4, <2>5, <2>6, <2>9, <2>10
  <2> QED
    BY <2>7, <2>11
<1>15. CASE file[scope][key] = None /\ design
  <2>0. key = "dlist" /\ file[scope].dlist = None /\ design = TRUE
    BY <1>12, <1>15 DEF ListKey
  <2>1. PICK own, K : own = OwnExtras(panel, scope, TRUE) /\ K = MayCopy(scope, panel) \ own
    OBVIOUS
  <2>2. PICK m, z : m = [i \in 1 .. n |-> s[i]] /\ z = [k \in 1 .. l |-> s[n + k]]
    OBVIOUS
  <2>3. \A i \in 1 .. n : i \in DOMAIN panel /\ i \in DOMAIN s /\ s[i] \in Seat
    <3> SUFFICES ASSUME NEW i \in 1 .. n PROVE i \in DOMAIN panel /\ i \in DOMAIN s /\ s[i] \in Seat
      OBVIOUS
    <3>1. i \in DOMAIN panel /\ i \in DOMAIN s
      BY <1>5, <1>7
    <3> QED
      BY <1>6, <3>1
  <2>4. m \in Seq(Seat) /\ Len(m) = n /\ \A i \in 1 .. n : m[i] = s[i]
    <3>1. m \in [1 .. n -> Seat] /\ \A i \in 1 .. n : m[i] = s[i]
      BY <2>2, <2>3
    <3> QED
      BY <1>7, <3>1, SeqFrom
  <2>5. Len(panel) = n + l
    <3>1. CatOf(Face, A, C, Faces(panel))
      BY <1>5, CatIs
    <3>2. Len(Faces(panel)) = n + l
      BY <1>4, <3>1 DEF CatOf
    <3> QED
      BY <1>5, <3>2, FacesIs
  <2>6. \A k \in 1 .. l : n + k \in DOMAIN panel /\ n + k \in DOMAIN s /\ s[n + k] \in Seat
    <3> SUFFICES ASSUME NEW k \in 1 .. l PROVE n + k \in DOMAIN panel /\ n + k \in DOMAIN s /\ s[n + k] \in Seat
      OBVIOUS
    <3>1. n + k \in DOMAIN panel
      BY <1>7, <2>5
    <3> QED
      BY <1>6, <1>7, <3>1
  <2>7. z \in Seq(Seat) /\ Len(z) = l /\ \A k \in 1 .. l : z[k] = s[n + k]
    <3>1. z \in [1 .. l -> Seat] /\ \A k \in 1 .. l : z[k] = s[n + k]
      BY <2>2, <2>6
    <3> QED
      BY <1>7, <3>1, SeqFrom
  <2>8. s = Cat(m, z)
    <3>1. CatOf(Seat, m, z, s)
      BY <1>6, <2>4, <2>5, <2>7 DEF CatOf
    <3> QED
      BY <2>4, <2>7, <3>1, CatIs
  <2>9. \A i \in DOMAIN panel : i \in own <=> OwnExtra(panel[i], scope, TRUE)
    BY <2>1 DEF OwnExtras
  <2>10. Picked(s, K) = Picked(m, K)
    <3>1. PICK far : far = Beyond(K, n)
      OBVIOUS
    <3>2. \A k \in 1 .. l : k \notin far
      <4> SUFFICES ASSUME NEW k \in 1 .. l PROVE k \notin far
        OBVIOUS
      <4>1. n + k \in own
        BY <1>5, <2>0, <2>6, <2>9
      <4> QED
        BY <2>1, <3>1, <4>1 DEF Beyond
    <3>3. Picked(z, far) = <<>>
      BY <2>7, <3>2, PickNone
    <3>4. Picked(m \o z, K) = Picked(m, K) \o Picked(z, Beyond(K, Len(m)))
      BY <2>4, <2>7, PickConcat
    <3>5. PICK p : p = Picked(m, K)
      OBVIOUS
    <3>6. p \in Seq(Seat)
      BY <2>4, <3>5, PickedType
    <3>7. p \o <<>> = p
      BY <3>6, ConcatEmptySeq
    <3> QED
      BY <2>4, <2>8, <3>1, <3>3, <3>4, <3>5, <3>7 DEF Cat
  <2>11. list = Picked(m, K)
    <3>1. Seeded(scope, design) = [file[scope] EXCEPT ![key] = SeatsOf(Seeds(scope, design))]
      BY <1>12, <1>15 DEF Seeded
    <3>2. Seeds(scope, design) = Picked(panel, K)
      BY <2>0, <2>1 DEF Seeds, DesignSeeds
    <3>3. file[scope] \in [PanelKey -> SeatList] /\ key \in PanelKey
      BY <1>0, <2>0, LayersAre DEF PanelKey
    <3>4. list = SeatsOf(Picked(panel, K))
      BY <1>12, <3>1, <3>2, <3>3
    <3>5. list = Picked(s, K)
      BY <1>1, <1>5, <3>4, PickSeats
    <3> QED
      BY <2>10, <3>5
  <2>12. left = DOMAIN panel \ (MayCopy(scope, panel) \cup own)
    BY <1>12, <1>15, <2>0, <2>1 DEF LeftOut
  <2>13. \A i \in 1 .. n : i \in K <=> i \notin left
    <3> SUFFICES ASSUME NEW i \in 1 .. n PROVE i \in K <=> i \notin left
      OBVIOUS
    <3>1. i \in DOMAIN panel /\ i \notin own
      BY <1>5, <2>0, <2>9
    <3> QED
      BY <2>1, <2>12, <3>1
  <2>14. \A k \in 1 .. l : n + k \notin left
    <3> SUFFICES ASSUME NEW k \in 1 .. l PROVE n + k \notin left
      OBVIOUS
    <3>1. n + k \in own
      BY <1>5, <2>0, <2>6, <2>9
    <3> QED
      BY <2>12, <3>1
  <2>15. Covers(s, A, C, m, K, left, at)
    BY <1>11, <2>4, <2>13, <2>14
  <2> QED
    BY <2>11, <2>15
<1> QED
  BY <1>13, <1>14, <1>15

\* What is before the extras of a file does not hang on them.
LEMMA BeforeSame ==
  ASSUME NEW scope \in Scope, NEW old \in LayerType, NEW new \in LayerType, NEW design \in BOOLEAN,
         \A k \in PanelKey : k # ExtraKey(design) => new[k] = old[k]
  PROVE  Before(scope, new, design) = Before(scope, old, design)
<1>1. new.list = old.list /\ new.dlist = old.dlist /\ (design => new.extra = old.extra)
      /\ new[ListKey(design)] = old[ListKey(design)]
  <2>1. CASE design
    BY <2>1 DEF PanelKey, ExtraKey, ListKey
  <2>2. CASE ~design
    BY <2>2 DEF PanelKey, ExtraKey, ListKey
  <2> QED
    BY <2>1, <2>2
<1>2. Abroad(scope, new, design) = Abroad(scope, old, design)
  BY <1>1 DEF Abroad
<1>3. Ground(scope, new, design) = Ground(scope, old, design)
  <2>1. CASE scope = "global"
    <3>0. /\ Below(scope, new)[1] = new /\ Below(scope, new)[2] = Empty
          /\ Below(scope, old)[1] = old /\ Below(scope, old)[2] = Empty
      BY <2>1 DEF Below
    <3>1. CASE ~design
      BY <1>1, <3>0, <3>1 DEF Ground, Base, CodeBase
    <3>2. CASE design
      <4>1. FitDesign(fit, new, Empty) = FitDesign(fit, old, Empty)
        BY <1>1 DEF FitDesign
      <4>2. Beside(new, Empty, FALSE) = Beside(old, Empty, FALSE)
        BY <1>1, <3>2 DEF Beside, ListKey, ExtraKey
      <4>3. CodePanel(fit, new, Empty) = CodePanel(fit, old, Empty)
        BY <1>1, <4>2 DEF CodePanel
      <4> QED
        BY <1>1, <3>0, <3>2, <4>1, <4>3 DEF Ground, Base, DesignBase
    <3> QED
      BY <3>1, <3>2
  <2>2. CASE scope = "project"
    <3> DEFINE g == file["global"]
    <3>0. /\ Below(scope, new)[1] = g /\ Below(scope, new)[2] = new
          /\ Below(scope, old)[1] = g /\ Below(scope, old)[2] = old
      BY <2>2 DEF Below
    <3> HIDE DEF g
    <3>1. CASE ~design
      BY <1>1, <3>0, <3>1 DEF Ground, Base, CodeBase
    <3>2. CASE design
      <4>1. FitDesign(fit, g, new) = FitDesign(fit, g, old)
        BY <1>1 DEF FitDesign
      <4>2. Beside(g, new, FALSE) = Beside(g, old, FALSE)
        BY <1>1, <3>2 DEF Beside, ListKey, ExtraKey
      <4>3. CodePanel(fit, g, new) = CodePanel(fit, g, old)
        BY <1>1, <4>2 DEF CodePanel
      <4> QED
        BY <1>1, <3>0, <3>2, <4>1, <4>3 DEF Ground, Base, DesignBase
    <3> QED
      BY <3>1, <3>2
  <2> QED
    BY <2>1, <2>2 DEF Scope
<1> QED
  BY <1>2, <1>3 DEF Before

\* The panel in force once a file is written.
LEMMA ForceNext ==
  ASSUME file \in [Scope -> LayerType], NEW scope \in Scope, NEW layer, NEW design \in BOOLEAN, NEW command,
         Write(scope, layer, command), command.scope = scope, command.design = design
  PROVE  InForce(last.scope, file[last.scope], last.design)' = InForce(scope, layer, design)
<1>1. file' = [file EXCEPT ![scope] = layer] /\ fit' = fit /\ last' = command
  BY DEF Write
<1>2. file'[scope] = layer /\ last'.scope = scope /\ last'.design = design
  BY <1>1
<1>3. PICK pair : pair = Below(last.scope, file[last.scope])'
  OBVIOUS
<1>4. InForce(last.scope, file[last.scope], last.design)' = Composed(fit', pair[1], pair[2], design)
  BY <1>2, <1>3 DEF InForce
<1>5. pair = Below(scope, layer)
  <2>1. CASE scope = "global"
    BY <1>2, <1>3, <2>1 DEF Below
  <2>2. CASE scope = "project"
    <3>1. file'["global"] = file["global"]
      BY <1>1, <2>2 DEF Scope
    <3> QED
      BY <1>2, <1>3, <2>2, <3>1 DEF Below
  <2> QED
    BY <2>1, <2>2 DEF Scope
<1> QED
  BY <1>1, <1>4, <1>5 DEF InForce

\* A file with another list under a key.
LEMMA PutKey ==
  ASSUME NEW old, old \in LayerType, NEW key, key \in PanelKey, NEW y, y \in Seq(Seat),
         NEW layer, layer = Put(old, key, y)
  PROVE  layer \in LayerType /\ layer[key] = y /\ \A k \in PanelKey : k # key => layer[k] = old[k]
<1>1. old \in [PanelKey -> SeatList] /\ y \in SeatList
  BY LayersAre DEF SeatList
<1>2. layer \in [PanelKey -> SeatList] /\ layer[key] = y /\ \A k \in PanelKey : k # key => layer[k] = old[k]
  BY <1>1 DEF Put
<1> QED
  BY <1>2, LayersAre

\* The same where an extra of the file is edited.
OwnEdit(panel, at, layer, scope, design, change) ==
  /\ panel = InForce(scope, file[scope], design) /\ at \in DOMAIN panel
  /\ OwnExtra(panel[at], scope, design)
  /\ layer = Put(file[scope], ExtraKey(design), Edited(file[scope][ExtraKey(design)], First({panel[at].at}), change))

LEMMA OwnEdited ==
  ASSUME SeatsTypeOK, NEW scope, scope \in Scope, NEW design, design \in BOOLEAN,
         NEW change, change \in Change, NEW panel, NEW at, NEW layer,
         OwnEdit(panel, at, layer, scope, design, change)
  PROVE  Faces(InForce(scope, layer, design)) = Nameless(AsAsked(SeatsOf(panel), at, change, {}))
<1>a. /\ panel = InForce(scope, file[scope], design) /\ at \in DOMAIN panel
      /\ OwnExtra(panel[at], scope, design)
      /\ layer = Put(file[scope], ExtraKey(design),
                     Edited(file[scope][ExtraKey(design)], First({panel[at].at}), change))
  BY DEF OwnEdit
<1>0. FitOK(fit) /\ file \in [Scope -> LayerType] /\ file[scope] \in LayerType
  BY FilesAre
<1>1. PICK old, key, A, e, s : /\ old = file[scope] /\ key = ExtraKey(design) /\ A = Before(scope, old, design)
                               /\ e = Extras(old, scope, design) /\ s = SeatsOf(panel)
  OBVIOUS
<1>2. PartsIn(panel, Ground(scope, old, design), A, e, scope, design)
  BY <1>0, <1>a, <1>1, PartsOf
<1>3. PICK n : n = Len(A)
  OBVIOUS
<1>4. /\ panel \in Seq(Entry) /\ A \in Seq(Face) /\ Faces(panel) = Cat(A, Faces(e))
      /\ \A i \in 1 .. n : ~OwnExtra(panel[i], scope, design)
      /\ \A i \in DOMAIN panel : i \in 1 .. n \/ \E k \in 1 .. Len(e) : i = n + k
      /\ \A k \in 1 .. Len(e) : panel[n + k].at = k
  BY <1>2, <1>3 DEF PartsIn
<1>5. PICK a \in 1 .. Len(e) : at = n + a /\ panel[at].at = a
  <2>1. \A i \in 1 .. n : i # at
    BY <1>a, <1>4
  <2>2. PICK a \in 1 .. Len(e) : at = n + a
    BY <1>a, <1>4, <2>1
  <2> QED
    BY <1>4, <2>2
<1>6. PICK x : x = old[key]
  OBVIOUS
<1>7. x # None
  <2>1. x = None => Len(e) = 0
    <3>1. old[key] = None => e = <<>>
      BY <1>0, <1>1, ExtraAt
    <3> QED
      BY <1>6, <3>1
  <2> QED
    BY <1>5, <2>1
<1>8. x \in Seq(Seat) /\ key \in PanelKey /\ old \in [PanelKey -> SeatList]
  BY <1>0, <1>1, <1>6, <1>7, ExtrasIs, LayersAre DEF SeatList
<1>9. Faces(e) = Nameless(x)
  BY <1>0, <1>1, <1>6, <1>7, ExtraAt
<1>10. a \in DOMAIN x
  <2>1. e \in Seq(Entry)
    BY <1>0, <1>1, ExtrasIs
  <2>2. Len(Faces(e)) = Len(e)
    BY <2>1, FacesIs
  <2>3. Len(Nameless(x)) = Len(x)
    BY <1>8, NamelessIs
  <2> QED
    BY <1>8, <1>9, <2>2, <2>3
<1>11. PICK y : y = Edited(x, a, change)
  OBVIOUS
<1>12. y \in Seq(Seat)
  BY <1>8, <1>10, <1>11, EditedIs
<1>13. First({panel[at].at}) = a
  <2>1. a \in Nat
    BY <1>8, <1>10
  <2> QED
    BY <1>5, <2>1 DEF First
<1>14. layer = Put(old, key, y)
  BY <1>a, <1>1, <1>6, <1>11, <1>13
<1>15. layer \in LayerType /\ layer[key] = y /\ \A k \in PanelKey : k # key => layer[k] = old[k]
  BY <1>0, <1>1, <1>8, <1>12, <1>14, PutKey
<1>16. Before(scope, layer, design) = A
  <2>1. \A k \in PanelKey : k # ExtraKey(design) => layer[k] = old[k]
    BY <1>1, <1>15
  <2>2. old \in LayerType /\ layer \in LayerType
    BY <1>0, <1>1, <1>15
  <2>3. Before(scope, layer, design) = Before(scope, old, design)
    BY <2>1, <2>2, BeforeSame
  <2> QED
    BY <1>1, <2>3
<1>17. Faces(Extras(layer, scope, design)) = Nameless(y)
  <2>1. layer \in LayerType /\ layer[ExtraKey(design)] = y
    BY <1>1, <1>15
  <2>2. y # None
    BY <1>12, SeatsConstantsOK
  <2>3. layer[ExtraKey(design)] # None => Faces(Extras(layer, scope, design)) = Nameless(layer[ExtraKey(design)])
    BY <2>1, ExtraAt
  <2> QED
    BY <2>1, <2>2, <2>3
<1>18. Faces(InForce(scope, layer, design)) = Cat(A, Nameless(y))
  <2>1. PartsIn(InForce(scope, layer, design), Ground(scope, layer, design), Before(scope, layer, design),
                Extras(layer, scope, design), scope, design)
    BY <1>0, <1>15, PartsOf
  <2> QED
    BY <1>16, <1>17, <2>1 DEF PartsIn
<1>19. Nameless(AsAsked(s, at, change, {})) = Cat(A, Nameless(Edited(x, a, change)))
  <2>1. s \in Seq(Seat)
    BY <1>1, <1>4, SeatsOfIs
  <2>2. Nameless(s) = Cat(A, Nameless(x))
    BY <1>1, <1>4, <1>9 DEF Faces
  <2> QED
    BY <1>3, <1>4, <1>5, <1>8, <1>10, <2>1, <2>2, OwnLands
<1> QED
  BY <1>1, <1>11, <1>18, <1>19

\* And where another seat is, in the list.
ListEdit(panel, at, layer, seeded, places, scope, design, change) ==
  /\ panel = InForce(scope, file[scope], design) /\ at \in DOMAIN panel
  /\ ~OwnExtra(panel[at], scope, design) /\ ~Shifted(scope, design)
  /\ seeded = Seeded(scope, design)
  /\ places = At(seeded[ListKey(design)], panel[at].seat.id) /\ places # {}
  /\ layer = Put(seeded, ListKey(design), Edited(seeded[ListKey(design)], First(places), change))

LEMMA ListEdited ==
  ASSUME SeatsTypeOK, ListsOnce, NEW scope, scope \in Scope, NEW design, design \in BOOLEAN,
         NEW change, change \in Change, NEW panel, NEW at, NEW layer, NEW seeded, NEW places,
         ListEdit(panel, at, layer, seeded, places, scope, design, change)
  PROVE  Faces(InForce(scope, layer, design))
           = Nameless(AsAsked(SeatsOf(panel), at, change, LeftOut(scope, design)))
<1>a. /\ panel = InForce(scope, file[scope], design) /\ at \in DOMAIN panel
      /\ ~OwnExtra(panel[at], scope, design) /\ ~Shifted(scope, design)
      /\ seeded = Seeded(scope, design)
      /\ places = At(seeded[ListKey(design)], panel[at].seat.id) /\ places # {}
      /\ layer = Put(seeded, ListKey(design), Edited(seeded[ListKey(design)], First(places), change))
  BY DEF ListEdit
<1>0. FitOK(fit) /\ file \in [Scope -> LayerType] /\ file[scope] \in LayerType
  BY FilesAre
<1>1. PICK old, key, A, C, s, left :
        /\ old = file[scope] /\ key = ListKey(design) /\ A = Before(scope, old, design)
        /\ C = Faces(Extras(old, scope, design)) /\ s = SeatsOf(panel) /\ left = LeftOut(scope, design)
  OBVIOUS
<1>2. PICK x : x = seeded[key]
  OBVIOUS
<1>3. /\ seeded \in LayerType /\ x \in Seq(Seat) /\ key \in PanelKey
      /\ \A k \in PanelKey : k # key => seeded[k] = old[k]
  BY <1>a, <1>1, <1>2, SeededIs
<1>4. PICK m, K : Covers(s, A, C, m, K, left, at) /\ x = Picked(m, K)
  BY <1>a, <1>1, <1>2, ListCovers
<1>5. places = At(x, s[at].id)
  <2>1. panel \in Seq(Entry)
    BY <1>a, <1>0, InForceIs
  <2>2. s[at] = panel[at].seat
    <3>1. at \in 1 .. Len(panel)
      BY <1>a, <2>1
    <3> QED
      BY <1>1, <2>1, <3>1, SeatsOfIs
  <2> QED
    BY <1>a, <1>1, <1>2, <2>2
<1>6. /\ First(places) \in DOMAIN x
      /\ Nameless(AsAsked(s, at, change, left)) = Cat(Nameless(Edited(x, First(places), change)), C)
  BY <1>a, <1>4, <1>5, ListLands
<1>7. PICK y : y = Edited(x, First(places), change)
  OBVIOUS
<1>8. y \in Seq(Seat) /\ y # None
  BY <1>3, <1>6, <1>7, EditedIs, SeatsConstantsOK
<1>9. layer = Put(seeded, key, y)
  BY <1>a, <1>1, <1>2, <1>7
<1>10. layer \in LayerType /\ layer[key] = y /\ \A k \in PanelKey : k # key => layer[k] = old[k]
  <2>1. layer \in LayerType /\ layer[key] = y /\ \A k \in PanelKey : k # key => layer[k] = seeded[k]
    BY <1>3, <1>8, <1>9, PutKey
  <2> QED
    BY <1>3, <2>1
<1>11. Before(scope, layer, design) = Nameless(y)
  <2>1. layer \in LayerType /\ layer[ListKey(design)] # None /\ layer[ListKey(design)] = y
    BY <1>1, <1>8, <1>10
  <2>2. Before(scope, layer, design) = Nameless(layer[ListKey(design)])
    BY <2>1, BeforeListed
  <2> QED
    BY <2>1, <2>2
<1>12. Extras(layer, scope, design) = Extras(old, scope, design)
  <2>1. ExtraKey(design) \in PanelKey /\ ExtraKey(design) # key
    BY <1>1 DEF ExtraKey, ListKey, PanelKey
  <2> QED
    BY <1>10, <2>1 DEF Extras
<1>13. Faces(InForce(scope, layer, design)) = Cat(Nameless(y), C)
  <2>1. PartsIn(InForce(scope, layer, design), Ground(scope, layer, design), Before(scope, layer, design),
                Extras(layer, scope, design), scope, design)
    BY <1>0, <1>10, PartsOf
  <2> QED
    BY <1>1, <1>11, <1>12, <2>1 DEF PartsIn
<1> QED
  BY <1>1, <1>6, <1>7, <1>13

LEMMA EditsStep == SeatsInv /\ EditsNamedSeat /\ [SeatsNext]_seatVars => EditsNamedSeat'
<1> SUFFICES ASSUME SeatsInv, EditsNamedSeat, [SeatsNext]_seatVars PROVE EditsNamedSeat'
  OBVIOUS
<1>0. SeatsTypeOK /\ ListsOnce /\ file \in [Scope -> LayerType]
  BY FilesAre DEF SeatsInv
<1>1. CASE UNCHANGED seatVars
  <2>1. file' = file /\ fit' = fit /\ last' = last
    BY <1>1 DEF seatVars
  <2>2. InForce(last.scope, file[last.scope], last.design)' = InForce(last.scope, file[last.scope], last.design)
    BY <2>1 DEF InForce, Below
  <2> QED
    BY <2>1, <2>2 DEF EditsNamedSeat
<1>2. ASSUME NEW scope \in Scope, NEW design \in BOOLEAN, NEW warned \in BOOLEAN, NEW cond \in BOOLEAN,
             NEW asked \in NewId \cup {None}, Add(scope, design, asked, warned, cond)
      PROVE  EditsNamedSeat'
  <2>1. last'.op = "add"
    BY <1>2 DEF Add, Write, Command
  <2> QED
    BY <2>1 DEF EditsNamedSeat
<1>3. ASSUME NEW scope \in Scope, NEW design \in BOOLEAN, NEW by,
             NEW at \in DOMAIN InForce(scope, file[scope], design), NEW change \in Change,
             EditSeat(scope, design, at, by, change)
      PROVE  EditsNamedSeat'
  <2>1. PICK panel : panel = InForce(scope, file[scope], design)
    OBVIOUS
  <2>2. PICK layer, left, moved :
          /\ Write(scope, layer, Command(change, scope, design, at, left, moved))
          /\ ~Shifted(scope, design) =>
               Faces(InForce(scope, layer, design)) = Nameless(AsAsked(SeatsOf(panel), at, change, left))
    <3>1. CASE OwnExtra(panel[at], scope, design)
      <4>0. file[scope] \in [PanelKey -> SeatList] /\ ExtraKey(design) \in PanelKey
        BY <1>0, LayersAre DEF ExtraKey, PanelKey
      <4>1. PICK layer : layer = [file[scope] EXCEPT ![ExtraKey(design)] = Edited(@, First({panel[at].at}), change)]
        OBVIOUS
      <4>2. Write(scope, layer, Command(change, scope, design, at, {}, FALSE))
        BY <1>3, <2>1, <3>1, <4>1 DEF EditSeat
      <4>3. OwnEdit(panel, at, layer, scope, design, change)
        BY <2>1, <3>1, <4>0, <4>1 DEF OwnEdit, Put
      <4>4. Faces(InForce(scope, layer, design)) = Nameless(AsAsked(SeatsOf(panel), at, change, {}))
        BY <1>0, <4>3, OwnEdited
      <4> QED
        BY <4>2, <4>4
    <3>2. CASE ~OwnExtra(panel[at], scope, design)
      <4>1. PICK seeded, places : /\ seeded = Seeded(scope, design)
                                  /\ places = At(seeded[ListKey(design)], panel[at].seat.id)
        OBVIOUS
      <4>2. PICK layer : layer = [seeded EXCEPT ![ListKey(design)] = Edited(@, First(places), change)]
        OBVIOUS
      <4>3. /\ places # {}
            /\ \E moved : Write(scope, layer, Command(change, scope, design, at, LeftOut(scope, design), moved))
        BY <1>3, <2>1, <3>2, <4>1, <4>2 DEF EditSeat
      <4>4. ASSUME ~Shifted(scope, design)
            PROVE  Faces(InForce(scope, layer, design))
                     = Nameless(AsAsked(SeatsOf(panel), at, change, LeftOut(scope, design)))
        <5>0. seeded \in [PanelKey -> SeatList] /\ ListKey(design) \in PanelKey
          BY <1>0, <4>1, SeededIs, LayersAre
        <5>1. ListEdit(panel, at, layer, seeded, places, scope, design, change)
          BY <2>1, <3>2, <4>1, <4>2, <4>3, <4>4, <5>0 DEF ListEdit, Put
        <5> QED
          BY <1>0, <5>1, ListEdited
      <4> QED
        BY <4>3, <4>4
    <3> QED
      BY <3>1, <3>2
  <2>3. PICK command : command = Command(change, scope, design, at, left, moved)
    OBVIOUS
  <2>4. /\ command.scope = scope /\ command.design = design /\ command.at = at /\ command.change = change
        /\ command.left = left /\ command.shifted = Shifted(scope, design) /\ command.panel = SeatsOf(panel)
    BY <2>1, <2>3 DEF Command
  <2>5. last' = command
    BY <2>2, <2>3 DEF Write
  <2>6. InForce(last.scope, file[last.scope], last.design)' = InForce(scope, layer, design)
    BY <1>0, <2>2, <2>3, <2>4, ForceNext
  <2> QED
    BY <2>2, <2>4, <2>5, <2>6 DEF EditsNamedSeat, Faces
<1>4. CASE (\E scope \in Scope : Reset(scope)) \/ SetupPreset \/ Refit
  <2>1. last'.op \in {"reset", "setup", "refit"}
    BY <1>4 DEF Reset, SetupPreset, Refit, NoCommand
  <2> QED
    BY <2>1 DEF EditsNamedSeat
<1> QED
  BY <1>1, <1>2, <1>3, <1>4 DEF SeatsNext

\* `reviewer set` and `remove` do what they were asked to the seat they were asked for, in place, and leave
\* everyone else as they were but for those they say they left out, for any panels a preset may come to
\* and any files to start with, unless the project's extras make a global extra go by another id than in
\* the panel that is copied (cli_config._find_seat, seed_panel).
THEOREM EditsWhatIsNamed == SeatsSpec => []EditsNamedSeat
<1>1. SeatsInit => EditsNamedSeat
  BY DEF SeatsInit, EditsNamedSeat, NoCommand
<1> QED
  BY <1>1, InitSeats, SeatsStep, EditsStep, PTL DEF SeatsSpec
=============================================================================
