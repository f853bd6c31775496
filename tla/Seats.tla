------------------------------- MODULE Seats -------------------------------
(***************************************************************************)
(* The reviewer panels as the two configuration files write them, as they  *)
(* are composed, and as `reviewer add`, `set` and `remove`, `config        *)
(* reset` and `config setup --preset` rewrite the files.                   *)
(*                                                                         *)
(* A file lists a panel, which replaces the one below it, or adds seats    *)
(* beside the panel it inherits; the panel below both files is what the    *)
(* preset fits to the CLIs that are installed.  The design review has a    *)
(* panel of its own or runs the code panel without its conditions.  An     *)
(* edit of an inherited seat copies its panel into the file first.         *)
(*                                                                         *)
(* A seat is who sits there, the id it goes by (a number: a suggested id   *)
(* is the least not taken), whether its provider is held to reading only   *)
(* with a warning, and whether it joins some rounds only.  Hand-written    *)
(* files, `config set` on a list, roles as selectors and the high-risk     *)
(* patterns are left out, and commands run one at a time: nothing locks    *)
(* the files.  One fit stands for both scopes: it is dealt around one      *)
(* implementer.                                                            *)
(***************************************************************************)
EXTENDS Integers, SequencesExt

CONSTANTS
  Fits,        \* what a preset may come to: a code panel, and a design panel or None
  Starts,      \* what earlier commands may have left in the two files
  NewId,       \* ids a user can ask for
  MaxCommands, \* bound: commands
  None

Scope == {"global", "project"}
Seat == [who: Int, id: Nat \ {0}, warned: BOOLEAN, cond: BOOLEAN]

\* A panel as expand deals it: somebody always runs, and each goes by an id not yet taken.
IdsOnce(seats) == \A i, j \in DOMAIN seats : seats[i].id = seats[j].id => i = j
Dealt(seats) == seats \in Seq(Seat) /\ IdsOnce(seats) /\ \E i \in DOMAIN seats : ~seats[i].cond

SeatList == Seq(Seat) \cup {None}
LayerType == [list: SeatList, extra: SeatList, dlist: SeatList, dextra: SeatList]

ASSUME SeatsConstantsOK ==
  /\ NewId \subseteq Nat \ {0} /\ MaxCommands \in Nat /\ None \notin Seq(Seat)
  /\ Starts \subseteq [Scope -> LayerType]
  /\ \A f \in Fits : Dealt(f.code) /\ (f.design # None => Dealt(f.design))

VARIABLES
  file,    \* what each file holds of the panels
  fit,     \* the panels of the preset in force, for the CLIs on PATH
  last,    \* the last command: what it was asked, what it said, and (history) the panels it found
  bare,    \* history: the project's design panel was copied while nobody was on its code panel
  steps    \* commands so far

seatVars == <<file, fit, last, bare, steps>>

Empty == [list |-> None, extra |-> None, dlist |-> None, dextra |-> None]
NoCommand == [op |-> "none", scope |-> "global", design |-> FALSE, at |-> 0,
              change |-> [op |-> "none"], left |-> {}, moved |-> FALSE, panel |-> <<>>, rounds |-> <<>>, shifted |-> FALSE,
              follows |-> FALSE]

ListKey(design) == IF design THEN "dlist" ELSE "list"
ExtraKey(design) == IF design THEN "dextra" ELSE "extra"

-----------------------------------------------------------------------------
(* The panels two files compose to. *)

Written(seats, layer, key) ==
  IF seats = None THEN <<>>
  ELSE [i \in DOMAIN seats |-> [seat |-> seats[i], layer |-> layer, key |-> key, at |-> i]]

IdsIn(panel) == {panel[i].seat.id : i \in DOMAIN panel}

\* suggest_reviewer_id
Suggest(taken) == CHOOSE n \in 1 .. Cardinality(taken) + 1 : n \notin taken /\ \A m \in 1 .. n - 1 : m \in taken

\* Mutant of Join: an extra keeps the id it was written with.
JoinAsWritten(panel, extra, reserved) == Append(panel, extra)

\* fold_extras, of one extra: the panel keeps every id, and a new name takes no id anybody wrote.
Join(panel, extra, reserved) ==
  Append(panel, IF extra.seat.id \in IdsIn(panel)
                  THEN [extra EXCEPT !.seat.id = Suggest(IdsIn(panel) \cup reserved)] ELSE extra)

Fold(base, extras) ==
  LET panel[n \in 0 .. Len(extras)] ==
        IF n = 0 THEN base ELSE Join(panel[n - 1], extras[n], IdsIn(extras))
  IN panel[Len(extras)]

Beside(g, p, design) ==
  (IF p[ListKey(design)] # None THEN <<>> ELSE Written(g[ExtraKey(design)], "global", ExtraKey(design)))
    \o Written(p[ExtraKey(design)], "project", ExtraKey(design))

CodePanel(f, g, p) ==
  Fold(IF p.list # None THEN Written(p.list, "project", "list")
       ELSE IF g.list # None THEN Written(g.list, "global", "list")
       ELSE Written(f.code, "default", "list"),
       Beside(g, p, FALSE))

\* without_when: a design round ignores the conditions of the code panel.
WithoutWhen(panel) == [i \in DOMAIN panel |-> [panel[i] EXCEPT !.seat.cond = FALSE]]

\* design_panel_follows_fit, where the fit has one.
FitDesign(f, g, p) == f.design # None /\ {g.list, p.list, g.dlist, p.dlist} = {None}

\* compose_design_panel: the code panel where no file and no fit gives the design rounds another.
DesignPanel(f, g, p) ==
  Fold(IF p.dlist # None THEN Written(p.dlist, "project", "dlist")
       ELSE IF g.dlist # None THEN Written(g.dlist, "global", "dlist")
       ELSE IF FitDesign(f, g, p) THEN Written(f.design, "default", "dlist")
       ELSE WithoutWhen(CodePanel(f, g, p)),
       Beside(g, p, TRUE))

\* _panel_in_force
Composed(f, g, p, design) == IF design THEN DesignPanel(f, g, p) ELSE CodePanel(f, g, p)

\* compose_preview: the global file is composed on its own, a project's over the global one.
Below(scope, layer) == IF scope = "global" THEN <<layer, Empty>> ELSE <<file["global"], layer>>
InForce(scope, layer, design) == Composed(fit, Below(scope, layer)[1], Below(scope, layer)[2], design)

\* The panel problems validate finds: nobody who always runs, or an id twice.
Conditional(panel) == panel # <<>> /\ \A i \in DOMAIN panel : panel[i].seat.cond
Repeated(panel) == {panel[i].seat.id : i \in {j \in DOMAIN panel : \E k \in 1 .. j - 1 :
                                                 panel[k].seat.id = panel[j].seat.id}}
Problems(scope, layer) ==
  {<<design, 0>> : design \in {d \in BOOLEAN : Conditional(InForce(scope, layer, d))}}
    \cup UNION {{design} \X Repeated(InForce(scope, layer, design)) : design \in BOOLEAN}

-----------------------------------------------------------------------------
(* How a command finds a seat and makes the file hold its panel. *)

At(seats, id) == {i \in DOMAIN seats : seats[i].id = id}
First(S) == CHOOSE i \in S : \A j \in S : i <= j

\* _own_extra: an extra of the file that is edited goes by its place there.
OwnExtra(entry, scope, design) == entry.layer = scope /\ entry.key = ExtraKey(design)

\* _renamed_own_extra: an id that an own extra is written with, but does not run under.
RenamedExtra(scope, design, id) ==
  LET panel == InForce(scope, file[scope], design) IN
  \E i \in DOMAIN panel :
    /\ OwnExtra(panel[i], scope, design) /\ panel[i].seat.id # id
    /\ file[scope][ExtraKey(design)][panel[i].at].id = id

\* A place in the panel in force, by id or by position.
MaySelect(scope, design, at, by) ==
  /\ at \in DOMAIN InForce(scope, file[scope], design)
  /\ by = "id" => ~RenamedExtra(scope, design, InForce(scope, file[scope], design)[at].seat.id)

Who(seats) == <<>> \o [i \in DOMAIN seats |-> seats[i].who]
SeatsOf(panel) == <<>> \o [i \in DOMAIN panel |-> panel[i].seat]

\* without_warned_seats: a project file takes a seat on a warned provider only where a file that
\* lists its panel chose it.
Chosen(e) == e.layer = "project" \/ file["global"][ListKey(e.key \in {"dlist", "dextra"})] # None
MayCopy(scope, panel) == {i \in DOMAIN panel : scope = "global" \/ ~panel[i].seat.warned \/ Chosen(panel[i])}

\* The seats of a panel at some of its places.
Picked(panel, places) ==
  LET picked[n \in 0 .. Len(panel)] ==
        IF n = 0 THEN <<>> ELSE IF n \in places THEN Append(picked[n - 1], panel[n]) ELSE picked[n - 1]
  IN picked[Len(panel)]

\* Mutant of CodeSeeds: the copy is of the panel in force, extras of the file among it.
CodeSeedsInForce(scope) == InForce(scope, file[scope], FALSE)

\* fitted_base: the code panel below the file.
CodeBelow(scope) ==
  IF scope = "global" THEN Written(fit.code, "default", "list") ELSE CodePanel(fit, file["global"], Empty)

\* seed_panel
CodeSeeds(scope) == Picked(CodeBelow(scope), MayCopy(scope, CodeBelow(scope)))

\* _seed_design_panel: the design panel in force but for the file's own extras.
OwnExtras(panel, scope, design) == {i \in DOMAIN panel : OwnExtra(panel[i], scope, design)}
DesignSeeds(scope) ==
  LET panel == InForce(scope, file[scope], TRUE)
  IN Picked(panel, MayCopy(scope, panel) \ OwnExtras(panel, scope, TRUE))

Seeds(scope, design) == IF design THEN DesignSeeds(scope) ELSE CodeSeeds(scope)

\* The file as it is once it holds the panel, and the places of those the copy leaves out.
Seeded(scope, design) ==
  IF file[scope][ListKey(design)] # None THEN file[scope]
  ELSE [file[scope] EXCEPT ![ListKey(design)] = SeatsOf(Seeds(scope, design))]
LeftOut(scope, design) ==
  IF file[scope][ListKey(design)] # None THEN {}
  ELSE LET panel == IF design THEN InForce(scope, file[scope], TRUE) ELSE CodeBelow(scope)
       IN DOMAIN panel \ (MayCopy(scope, panel) \cup OwnExtras(panel, scope, design))

\* Mutant of SaysMoved: it goes by what the global file lists.
SaysMovedInGlobal(scope, layer) ==
  scope = "global" /\ file["global"].list = None /\ fit.design # None /\ FitDesign(fit, [layer EXCEPT !.list = None], Empty)

\* _frozen_panel_note: listing the reviewers took the design rounds off the preset's own panel.
SaysMoved(scope, layer) ==
  /\ file[scope].list = None /\ file["global"].list = None
  /\ fit.design # None
  /\ IF scope = "global" THEN FitDesign(fit, [layer EXCEPT !.list = None], Empty)
     ELSE FitDesign(fit, file["global"], [layer EXCEPT !.list = None])

-----------------------------------------------------------------------------
(* The commands. *)

\* The project file's extras make a global extra go by another id than in the panel an edit copies.
Shifted(scope, design) ==
  /\ scope = "project" /\ ~design /\ file["project"].list = None
  /\ LET alone == CodePanel(fit, file["global"], Empty) IN
     \E i \in DOMAIN alone : InForce("project", file["project"], FALSE)[i].seat # alone[i].seat

\* The design rounds run the code panel.
FollowsCode(scope) ==
  LET below == Below(scope, file[scope]) IN
  ~FitDesign(fit, below[1], below[2]) /\ {below[1].dlist, below[2].dlist} = {None}

Command(change, scope, design, at, left, moved) ==
  [op |-> change.op, scope |-> scope, design |-> design, at |-> at, change |-> change, left |-> left, moved |-> moved,
   panel |-> SeatsOf(InForce(scope, file[scope], design)),
   rounds |-> SeatsOf(InForce(scope, file[scope], TRUE)),
   shifted |-> Shifted(scope, design), follows |-> FollowsCode(scope)]

SeatsInit ==
  /\ file \in Starts /\ fit \in Fits /\ last = NoCommand /\ bare = FALSE /\ steps = 0
  /\ \A scope \in Scope : Problems(scope, file[scope]) = {}

\* A design panel is copied into the project file of a project that has nobody on its code panel.
CopiesBare(scope, layer) ==
  /\ scope = "project" /\ file["project"].dlist = None /\ layer.dlist # None
  /\ InForce("project", file["project"], FALSE) = <<>>

\* panel_write_problems: a write that brings in a problem of a panel is refused.
Write(scope, layer, command) ==
  /\ Problems(scope, layer) \subseteq Problems(scope, file[scope])
  /\ file' = [file EXCEPT ![scope] = layer]
  /\ bare' = (bare \/ CopiesBare(scope, layer))
  /\ last' = command /\ steps' = steps + 1
  /\ UNCHANGED fit

\* reviewer add: into the list the file has, or beside the panel it inherits.  Who is added is told
\* apart by the command; those of the fits have negative numbers.
Add(scope, design, asked, warned, cond) ==
  LET taken == IdsIn(InForce(scope, file[scope], design))
      id == IF asked = None THEN Suggest(taken) ELSE asked
      key == IF file[scope][ListKey(design)] # None THEN ListKey(design) ELSE ExtraKey(design)
      held == IF file[scope][key] = None THEN <<>> ELSE file[scope][key]
      seat == [who |-> steps, id |-> id, warned |-> warned, cond |-> cond]
  IN /\ asked \notin taken /\ At(held, id) = {}
     /\ ~(scope = "project" /\ warned)
     /\ Write(scope, [file[scope] EXCEPT ![key] = Append(held, seat)],
              Command([op |-> "add"], scope, design, 0, {}, FALSE))

\* What an edit makes of a list: reviewer remove, or reviewer set --id, --when or --provider.
Change == [op: {"remove"}] \cup [op: {"set"}, field: {"id"}, to: NewId]
            \cup [op: {"set"}, field: {"cond", "warned"}, to: BOOLEAN]
Changed(seat, change) == [seat EXCEPT ![change.field] = change.to]
Edited(seats, i, change) ==
  IF change.op = "remove" THEN RemoveAt(seats, i) ELSE [seats EXCEPT ![i] = Changed(@, change)]

\* A name another seat of the panel has, and a provider a project file may not name, are refused.
MayChange(panel, scope, at, change) ==
  change.op = "set" =>
    /\ change.field = "id" => \A i \in DOMAIN panel : i # at => panel[i].seat.id # change.to
    /\ change.field = "warned" => ~(scope = "project" /\ change.to)

\* Where the edit of a seat lands: an own extra in its place, any other in the list, by its id.
EditSeat(scope, design, at, by, change) ==
  LET panel == InForce(scope, file[scope], design)
      entry == panel[at]
      own == OwnExtra(entry, scope, design)
      layer == IF own THEN file[scope] ELSE Seeded(scope, design)
      key == IF own THEN ExtraKey(design) ELSE ListKey(design)
      places == IF own THEN {entry.at} ELSE At(layer[key], entry.seat.id)
      new == [layer EXCEPT ![key] = Edited(@, First(places), change)]
  IN /\ MaySelect(scope, design, at, by) /\ MayChange(panel, scope, at, change)
     /\ places # {}
     /\ Write(scope, new, Command(change, scope, design, at, IF own THEN {} ELSE LeftOut(scope, design),
                               ~design /\ ~own /\ SaysMoved(scope, new)))

\* config reset, its --delete, and config setup --defaults: nothing of the panels is left, nor what
\* the preset was dealt around.
Reset(scope) ==
  /\ file' = [file EXCEPT ![scope] = Empty] /\ fit' \in Fits
  /\ last' = [NoCommand EXCEPT !.op = "reset", !.scope = scope] /\ steps' = steps + 1
  /\ bare' = (bare /\ scope = "global")

\* with_preset: the lists go, the extras stay, and what is fitted may be another panel.
SetupPreset ==
  /\ fit' \in Fits
  /\ file' = [file EXCEPT !["global"].list = None, !["global"].dlist = None]
  /\ last' = [NoCommand EXCEPT !.op = "setup"] /\ steps' = steps + 1
  /\ UNCHANGED bare

\* config set preset, another implementer, or a CLI installed or gone.
Refit ==
  /\ fit' \in Fits \ {fit} /\ last' = [NoCommand EXCEPT !.op = "refit"] /\ steps' = steps + 1
  /\ UNCHANGED <<file, bare>>

SeatsNext ==
  /\ steps < MaxCommands
  /\ \/ \E scope \in Scope, design, warned, cond \in BOOLEAN, asked \in NewId \cup {None} :
          Add(scope, design, asked, warned, cond)
     \/ \E scope \in Scope, design \in BOOLEAN, by \in {"id", "position"} :
          \E at \in DOMAIN InForce(scope, file[scope], design) : \E change \in Change : EditSeat(scope, design, at, by, change)
     \/ \E scope \in Scope : Reset(scope)
     \/ SetupPreset
     \/ Refit

SeatsSpec == SeatsInit /\ [][SeatsNext]_seatVars

-----------------------------------------------------------------------------
\* The files hold lists of seats.
SeatsTypeOK ==
  /\ file \in [Scope -> LayerType] /\ fit \in Fits
  /\ bare \in BOOLEAN /\ steps \in 0 .. MaxCommands

\* Nothing is written that a later command refuses to load, whatever the other file then makes of
\* it: no panel is left to seats that only sometimes run, and no two run under one id
\* (panel_write_problems, fold_extras).  Files that take everybody off a panel are excepted: that is
\* allowed, the global file is checked without the project's, and what an edit then copies from the
\* broken panel into the project file (bare) is no new problem of it.
StaysLoadable ==
  /\ InForce("global", file["global"], FALSE) # <<>> /\ InForce("global", file["global"], TRUE) # <<>>
  /\ InForce("project", file["project"], FALSE) # <<>> /\ ~bare
  => Problems("project", file["project"]) = {}

\* reviewer set and remove do to the seat they were asked for what they were asked, and leave everyone
\* else of the panel in force in place and as they were, but for the seats the command says it left
\* out (cli_config._find_seat, seed_panel).  What an extra is called may change with what is beside it.
Nameless(seats) == <<>> \o [i \in DOMAIN seats |-> [seats[i] EXCEPT !.id = 0]]
AsAsked(panel, at, change, left) ==
  LET kept == DOMAIN panel \ left
  IN IF change.op = "remove" THEN Picked(panel, kept \ {at})
     ELSE Picked([panel EXCEPT ![at] = Changed(@, change)], kept)

EditsNamedSeat ==
  last.op \in {"remove", "set"} /\ ~last.shifted =>
    Nameless(SeatsOf(InForce(last.scope, file[last.scope], last.design)))
      = Nameless(AsAsked(last.panel, last.at, last.change, last.left))

\* An edit of the code panel leaves the design rounds whom they had, unless they run the code panel,
\* or the command says that it moved them off the preset's own (reviewers_hold_design_panel).
DesignMovesAloud ==
  last.op \in {"add", "remove", "set"} /\ ~last.design =>
    \/ Who(SeatsOf(InForce(last.scope, file[last.scope], TRUE))) = Who(last.rounds)
    \/ last.follows \/ last.moved
=============================================================================
