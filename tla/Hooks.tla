------------------------------- MODULE Hooks -------------------------------
(***************************************************************************)
(* The reply-language hooks in the user's Claude Code settings, which the  *)
(* user, Claude Code and several dev-orchestra processes write.            *)
(*                                                                         *)
(* `hooks install` writes a relay script and the record of the checkout it *)
(* runs, then merges three entries that run the relay into the settings;   *)
(* `hooks uninstall` takes the entries out, then deletes both files.  A    *)
(* config command that sets or takes away language.reply does either on    *)
(* its own, and any command run inside Claude Code moves the record to its *)
(* checkout.  Every step may fail, and every process may be killed.        *)
(*                                                                         *)
(* What is the user's in the settings is a number, one more at each edit.  *)
(* Dry runs, `hooks status`, virtual environments, Store redirections and  *)
(* a relay of another version are left out.                                *)
(***************************************************************************)
EXTENDS Integers, FiniteSets

CONSTANTS
  Proc,        \* dev-orchestra processes
  Checkout,    \* copies of dev-orchestra a command may be run from
  Plugins,     \* those Claude Code installed
  Language,
  Configured,  \* languages the configuration files may hold at first
  MaxEdits,    \* bound: edits by the user
  MaxCalls,    \* bound: commands and pulls
  Unset

Layer == {"global", "project"}

ASSUME HooksConstantsOK ==
  /\ Plugins \subseteq Checkout /\ Unset \notin Language \cup Checkout
  /\ Configured \subseteq [Layer -> Language \cup {Unset}]
  /\ MaxEdits \in Nat /\ MaxCalls \in Nat

\* Entries of ours: none, for the relay of another configuration home, some for this one's, all.
Entries == {"none", "other", "some", "all"}
Settings == [text: Nat, ours: Entries, valid: BOOLEAN]

Ops == {"none", "install", "uninstall", "refresh", "config"}
Steps == {"idle", "start", "sync", "relay", "record", "read", "check", "rename",
          "unrelay", "unrecord", "undo", "unwrite"}

VARIABLES
  settings,   \* settings.json
  relay,      \* whether the relay script is there
  record,     \* the checkout the record beside it names
  lang,       \* language.reply in each configuration file
  job,        \* what each process is doing
  edits,      \* (history) the user's edits so far
  late,       \* (history) an edit came between a process's last look and its rename
  beside,     \* (history) a command that edits the settings had another, or a pull, beside it
  wanted,     \* (history) the user asked for the hooks, and they were not removed since
  chosen,     \* (history) the checkouts such commands were run from
  commands    \* commands and pulls so far

files == <<settings, relay, record>>
history == <<edits, late, beside, wanted, chosen, commands>>
hooksVars == <<settings, relay, record, lang, job, edits, late, beside, wanted, chosen, commands>>

\* A process: its step, its command, the checkout it runs from, the settings
\* it read, whether it has started over, the relay files it found, and of a config command the file
\* it wrote with the language that was in it.
Idle == [at |-> "idle", op |-> "none", from |-> Unset, seen |-> Unset, retried |-> FALSE,
         before |-> Unset, write |-> Unset]

\* Nothing of this home is installed, or everything is.
HooksInit ==
  /\ settings \in [text: {0}, ours: {"none", "other", "all"}, valid: BOOLEAN] /\ settings.valid
  /\ relay = (settings.ours = "all")
  /\ record \in IF relay THEN Checkout ELSE {Unset}
  /\ lang \in Configured
  /\ job = [p \in Proc |-> Idle]
  /\ edits = 0 /\ late = FALSE /\ beside = FALSE /\ wanted = (settings.ours # "none")
  /\ chosen = {record} \ {Unset} /\ commands = 0

-----------------------------------------------------------------------------
\* merged: our entries installed or taken out, everything else as it is.
Merged(s, install) == [s EXCEPT !.ours = IF install THEN "all" ELSE "none"]

\* status, and the reasons that make it stale.
Status(from) ==
  IF ~settings.valid THEN "unreadable"
  ELSE IF settings.ours = "none" THEN "not-installed"
  ELSE IF settings.ours = "all" /\ relay /\ record = from THEN "installed"
  ELSE "stale"

\* A process goes on as j, to a step, and forgets everything where it ends.
Goto(p, j, step) == job' = [job EXCEPT ![p] = IF step = "idle" THEN Idle ELSE [j EXCEPT !.at = step]]
Found == [relay |-> relay, record |-> record]

\* Processes that edit the settings, or may come to.
Editing == {p \in Proc : job[p].op \in {"install", "uninstall", "config"}}

\* A command starts.
Begin(p, j, step) ==
  /\ job[p] = Idle /\ commands < MaxCalls
  /\ commands' = commands + 1
  /\ Goto(p, j, step)

\* cmd_hooks_install
Install(p, from) ==
  /\ Begin(p, [Idle EXCEPT !.op = "install", !.from = from], "start")
  /\ beside' = (beside \/ Editing # {})
  /\ wanted' = TRUE /\ chosen' = chosen \cup {from}
  /\ UNCHANGED <<files, lang, edits, late>>

\* cmd_hooks_uninstall
Uninstall(p) ==
  /\ Begin(p, [Idle EXCEPT !.op = "uninstall"], "read")
  /\ beside' = (beside \/ Editing # {})
  /\ UNCHANGED <<files, lang, edits, late, wanted, chosen>>

\* cmd_config_set, _unset, _setup and _reset: the file is written, and the hooks follow it unless
\* that was asked against or the run is a delegated one (_sync_hooks).
ConfigWrite(p, from, layer, tag, sync) ==
  /\ Begin(p, [Idle EXCEPT !.op = "config", !.from = from, !.write = [layer |-> layer, was |-> lang[layer]]],
           IF sync THEN "sync" ELSE "idle")
  /\ beside' = (beside \/ Editing # {})
  /\ lang' = [lang EXCEPT ![layer] = tag]
  /\ wanted' = (wanted \/ (sync /\ lang[layer] = Unset /\ tag # Unset))
  /\ chosen' = IF sync /\ tag # Unset THEN chosen \cup {from} ELSE chosen
  /\ UNCHANGED <<files, edits, late>>

-----------------------------------------------------------------------------
(* sync, after a config command wrote its file. *)

\* A language where there was none, or hooks that are there but out of date.
SyncInstalls(j) ==
  /\ lang[j.write.layer] # Unset /\ Status(j.from) # "installed"
  /\ j.write.was = Unset \/ Status(j.from) = "stale"

\* The last language was taken away.
SyncRemoves(j) ==
  /\ lang[j.write.layer] = Unset /\ j.write.was # Unset
  /\ \A l \in Layer : lang[l] = Unset
  /\ Status(j.from) \in {"installed", "stale"}

\* Without Claude Code's settings directory nothing is created.
Sync(p, directory) ==
  /\ job[p].at = "sync"
  /\ \/ SyncInstalls(job[p]) /\ directory /\ Goto(p, [job[p] EXCEPT !.op = "install"], "start")
     \/ SyncRemoves(job[p]) /\ Goto(p, [job[p] EXCEPT !.op = "uninstall"], "read")
     \/ ~(SyncInstalls(job[p]) /\ directory) /\ ~SyncRemoves(job[p]) /\ Goto(p, job[p], "idle")
  /\ UNCHANGED <<files, lang, history>>

-----------------------------------------------------------------------------
(* install, uninstall and refresh, a step at a time. *)

\* Settings that would be refused are found before anything is written.
Install_Start(p) ==
  /\ job[p].at = "start"
  /\ Goto(p, [job[p] EXCEPT !.before = Found], IF settings.valid THEN "relay" ELSE "idle")
  /\ UNCHANGED <<files, lang, history>>

\* refresh, inside Claude Code and not in a delegated run: an installed relay is pointed at a
\* checkout Claude Code installed, or written again for the one it runs.
Refresh(p, from) ==
  /\ Begin(p, [Idle EXCEPT !.op = "refresh", !.from = from, !.before = Found], "relay")
  /\ relay /\ from \in Plugins \cup {record}
  /\ UNCHANGED <<files, lang, edits, late, beside, wanted, chosen>>

\* write_relay, the script.
WriteRelay(p) ==
  /\ job[p].at = "relay"
  /\ relay' = TRUE /\ Goto(p, job[p], "record")
  /\ UNCHANGED <<settings, record, lang, history>>

\* write_relay, the record.
WriteRecord(p) ==
  /\ job[p].at = "record" /\ record' = job[p].from
  /\ Goto(p, job[p], IF job[p].op = "refresh" THEN "idle" ELSE "read")
  /\ UNCHANGED <<settings, relay, lang, history>>

\* Where a step that failed leads, and where one that is done does: an install puts the relay files
\* back, an uninstall goes on to delete them.
Failed(p) == IF job[p].op = "install" THEN "undo" ELSE "idle"
Done(p) == IF job[p].op = "uninstall" THEN "unrelay" ELSE "idle"

\* _edit: read and merge; settings it does not understand are refused.
Read(p) ==
  /\ job[p].at = "read"
  /\ Goto(p, [job[p] EXCEPT !.seen = settings],
          IF ~settings.valid THEN Failed(p)
          ELSE IF Merged(settings, job[p].op = "install") = settings THEN Done(p) ELSE "check")
  /\ wanted' = (wanted /\ (job[p].op = "uninstall" => settings.ours # "none"))
  /\ UNCHANGED <<files, lang, edits, late, beside, chosen, commands>>

\* Mutant of Check: the settings are not looked at again.
CheckNothing(p) ==
  /\ job[p].at = "check"
  /\ Goto(p, job[p], "rename")
  /\ UNCHANGED <<files, lang, history>>

\* write_settings: settings that changed since they were read are read once more.
Check(p) ==
  /\ job[p].at = "check"
  /\ \/ settings = job[p].seen /\ Goto(p, job[p], "rename")
     \/ settings # job[p].seen /\ ~job[p].retried /\ Goto(p, [job[p] EXCEPT !.retried = TRUE], "read")
     \/ settings # job[p].seen /\ job[p].retried /\ Goto(p, job[p], Failed(p))
  /\ UNCHANGED <<files, lang, history>>

Rename(p) ==
  /\ job[p].at = "rename"
  /\ settings' = Merged(job[p].seen, job[p].op = "install")
  /\ wanted' = (wanted /\ job[p].op = "install")
  /\ Goto(p, job[p], Done(p))
  /\ UNCHANGED <<relay, record, lang, edits, late, beside, chosen, commands>>

\* remove_relay
Unrelay(p) ==
  /\ job[p].at = "unrelay"
  /\ relay' = FALSE /\ Goto(p, job[p], "unrecord")
  /\ UNCHANGED <<settings, record, lang, history>>
Unrecord(p) ==
  /\ job[p].at = "unrecord"
  /\ record' = Unset /\ Goto(p, job[p], "idle")
  /\ UNCHANGED <<settings, relay, lang, history>>

\* Mutant of Undo: the relay is deleted, whether it was there before or not.
UndoAll(p) ==
  /\ job[p].at = "undo"
  /\ relay' = FALSE /\ Goto(p, job[p], "unwrite")
  /\ UNCHANGED <<settings, record, lang, history>>

\* _put_back
Undo(p) ==
  /\ job[p].at = "undo"
  /\ relay' = job[p].before.relay /\ Goto(p, job[p], "unwrite")
  /\ UNCHANGED <<settings, record, lang, history>>
Unwrite(p) ==
  /\ job[p].at = "unwrite"
  /\ record' = job[p].before.record /\ Goto(p, job[p], "idle")
  /\ UNCHANGED <<settings, relay, lang, history>>

-----------------------------------------------------------------------------
(* What else happens to the files and the processes. *)

\* The user, an editor or Claude Code: some of our entries may go with it, and it may not parse.
Edit(ours, valid) ==
  /\ edits < MaxEdits /\ edits' = edits + 1
  /\ ours \in {settings.ours, "none"} \cup (IF settings.ours = "all" THEN {"some"} ELSE {})
  /\ settings' = [text |-> edits + 1, ours |-> ours, valid |-> valid]
  /\ late' = (late \/ \E p \in Proc : job[p].at = "rename")
  /\ wanted' = (wanted /\ (ours # "none" \/ Editing # {}))
  /\ UNCHANGED <<relay, record, lang, job, beside, chosen, commands>>

\* A project's file comes and goes with a checkout of the project.
Pull(tag) ==
  /\ commands < MaxCalls /\ commands' = commands + 1
  /\ lang' = [lang EXCEPT !["project"] = tag]
  /\ beside' = (beside \/ \E p \in Proc : job[p].at = "sync")
  /\ UNCHANGED <<files, job, edits, late, wanted, chosen>>

\* A write that fails.
Fail(p) ==
  /\ \/ /\ job[p].at \in {"relay", "record", "check", "rename"}
        /\ Goto(p, job[p], Failed(p))
     \/ job[p].at = "undo" /\ Goto(p, job[p], "unwrite")
     \/ job[p].at \in {"unrelay", "unrecord", "unwrite"} /\ Goto(p, job[p], "idle")
  /\ UNCHANGED <<files, lang, history>>

\* The process is killed.
Die(p) ==
  /\ job[p] # Idle /\ Goto(p, job[p], "idle")
  /\ UNCHANGED <<files, lang, history>>

HooksNext ==
  \/ \E p \in Proc :
       \/ \E from \in Checkout :
            \/ Install(p, from) \/ Refresh(p, from)
            \/ \E layer \in Layer, tag \in Language \cup {Unset}, sync \in BOOLEAN :
                 ConfigWrite(p, from, layer, tag, sync)
       \/ \E directory \in BOOLEAN : Sync(p, directory)
       \/ Uninstall(p) \/ Install_Start(p) \/ WriteRelay(p) \/ WriteRecord(p)
       \/ Read(p) \/ Check(p) \/ Rename(p)
       \/ Unrelay(p) \/ Unrecord(p) \/ Undo(p) \/ Unwrite(p)
       \/ Fail(p) \/ Die(p)
  \/ \E ours \in Entries, valid \in BOOLEAN : Edit(ours, valid)
  \/ \E tag \in Language \cup {Unset} : Pull(tag)

HooksSpec == HooksInit /\ [][HooksNext]_hooksVars

-----------------------------------------------------------------------------
OrUnset(S) == S \cup {Unset}
Job == [at: Steps, op: Ops, from: OrUnset(Checkout), seen: OrUnset(Settings), retried: BOOLEAN,
        before: OrUnset([relay: BOOLEAN, record: OrUnset(Checkout)]),
        write: OrUnset([layer: Layer, was: OrUnset(Language)])]

HooksTypeOK ==
  /\ settings \in Settings
  /\ relay \in BOOLEAN /\ record \in OrUnset(Checkout)
  /\ lang \in [Layer -> OrUnset(Language)]
  /\ job \in [Proc -> Job]
  /\ edits \in 0 .. MaxEdits /\ commands \in 0 .. MaxCalls
  /\ late \in BOOLEAN /\ beside \in BOOLEAN /\ wanted \in BOOLEAN /\ chosen \subseteq Checkout

\* No entry runs a relay that is not there, which Claude Code would show as an error at every prompt:
\* wherever an install or an uninstall failed or was killed, whatever was refreshed beside it, as
\* long as no other of them ran beside it (install, uninstall, _put_back).
RelayThere == ~beside /\ settings.ours \in {"some", "all"} => relay

\* Every edit of the settings is in them, unless it came after a command's last look at them
\* (_atomic_write).
EditsKept == settings.text = edits \/ late

\* The entries are there only where the user asked for them: a language in a project's file that a
\* checkout brought does not ask, nor a change of one that was set while the hooks were left out
\* (sync).
OnlyAskedFor == ~beside /\ settings.ours # "none" => wanted

\* The record names a checkout that Claude Code installed, or that the user ran a command from that
\* asks for the hooks: no command run once from a fork makes it the hook of later sessions (refresh).
RunsChosen == ~beside /\ record # Unset => record \in Plugins \cup chosen

\* The settings stay the user's: what is in them, and whether and whose hooks are (claude_hooks).
SettingsAreTheUsers == EditsKept /\ OnlyAskedFor /\ RunsChosen
=============================================================================
