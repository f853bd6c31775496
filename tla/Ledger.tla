------------------------------- MODULE Ledger -------------------------------
(***************************************************************************)
(* The budget ledger: what delegated runs have spent, which are in flight, *)
(* and whether another may start.                                          *)
(*                                                                         *)
(* Every command that delegates work opens the same ledger on disk.  A     *)
(* method that changes it reads and writes it under the state lock, and is *)
(* one action here; what a command reads before without the lock (the      *)
(* runs in flight, whether its budget is spent) is an action of its own.   *)
(* A run is a `run` command, in this process or in a worker, or a review   *)
(* round; only the former takes attempts.  Every measured run costs 1.     *)
(***************************************************************************)
EXTENDS Naturals, FiniteSets

CONSTANTS
  Run,          \* delegated runs and review rounds
  Helper,       \* processes that carry out status and budget reset
  Stage,        \* the stages runs are of
  Budgeted,     \* those that take attempts; a run of any other is a review round
  Limit,        \* Limit[s]: the attempts of stage s
  TotalLimit,   \* total_delegated_runs
  RuntimeLimit, \* max_runtime_seconds
  MaxRepeats,   \* max_repeats_without_progress
  Piece,        \* work units
  FreePieces,   \* FreePieces[s]: how many pieces may join a pass of s for nothing
  Key,          \* what a pass is keyed on: the digest of an approved plan
  Signature,    \* what a stage's outcome may look like
  MaxEpoch,     \* bound: the epochs there may be
  None          \* no piece, no pass, no signature

ASSUME LedgerConstantsOK ==
  /\ IsFiniteSet(Run) /\ Run \cap Helper = {}
  /\ Stage # {} /\ Budgeted \subseteq Stage
  /\ Limit \in [Budgeted -> Nat] /\ FreePieces \in [Stage -> Nat]
  /\ TotalLimit \in Nat \ {0} /\ RuntimeLimit \in Nat \ {0} /\ MaxRepeats \in Nat \ {0}
  /\ None \notin Piece \cup Key \cup Signature
  /\ MaxEpoch \in Nat \ {0}

VARIABLES
  ledger,   \* the ledger on disk
  stale,    \* whether it is idle past session_idle_reset_seconds, or not there yet
  pc,       \* where each run is
  stage,    \* the stage a run is of
  piece,    \* the piece of its pass a run is, or None
  key,      \* the key it read for its pass
  forced,   \* whether the user passed --force
  try,      \* 1, or 2 for the fresh run after a resumed one was rejected
  seen,     \* the entries in flight an actor found and has still to look at
  began,    \* the epoch in which each try of a run was entered in flight (history)
  measured, \* the tries whose CLI ran and was measured (history)
  used,     \* the tries whose usage has been recorded (history)
  granted   \* the epoch in which consume let each try go on (history)

ledgerVars  == <<ledger, stale>>
runVars     == <<stage, piece, key, forced, try>>
historyVars == <<began, measured, used, granted>>
vars == <<ledgerVars, pc, runVars, seen, historyVars>>

Actor == Run \cup Helper
Token == Run \X {1, 2}
Epoch == 0 .. MaxEpoch
Entry == [token: Token, epoch: Epoch]
Pass  == [key: Key \cup {None}, pieces: SUBSET Piece]
Sign  == [value: Signature \cup {None}, repeats: Nat]
LedgerType == [epoch: Epoch, attempts: [Stage -> Nat], passes: [Stage -> Pass], inFlight: SUBSET Entry,
               signatures: [Stage -> Sign], total: Nat, runtime: Nat, account: Nat]
Label == {"new", "check", "consume", "begin", "work", "usage", "sign", "end", "over", "dead"}
NoPass == [key |-> None, pieces |-> {}]
NoSign == [value |-> None, repeats |-> 0]
AnyStage == CHOOSE s \in Stage : TRUE

\* _fresh: new budgets, and the account of what the workflow has used carried over.
Fresh(old) ==
  [old EXCEPT !.epoch = @ + 1, !.attempts = [s \in Stage |-> 0], !.passes = [s \in Stage |-> NoPass],
              !.inFlight = {}, !.signatures = [s \in Stage |-> NoSign], !.total = 0, !.runtime = 0]

\* load: an idle ledger is read as a fresh one; it is written only by who changes it.
Load == IF stale THEN Fresh(ledger) ELSE ledger
Write(new) == ledger' = new /\ stale' = FALSE

Init ==
  /\ stale = TRUE
  /\ ledger = [epoch |-> 0, attempts |-> [s \in Stage |-> 0], passes |-> [s \in Stage |-> NoPass],
               inFlight |-> {}, signatures |-> [s \in Stage |-> NoSign],
               total |-> 0, runtime |-> 0, account |-> 0]
  /\ pc = [r \in Run |-> "new"] /\ stage = [r \in Run |-> AnyStage]
  /\ piece = [r \in Run |-> None] /\ key = [r \in Run |-> None]
  /\ forced = [r \in Run |-> FALSE] /\ try = [r \in Run |-> 1]
  /\ seen = [a \in Actor |-> {}]
  /\ began = [t \in Token |-> 0]
  /\ measured = {} /\ used = {}
  /\ granted = [t \in Token |-> 0]

-----------------------------------------------------------------------------
(* What the ledger says. *)

Goto(r, label) == pc' = [pc EXCEPT ![r] = label]
At(r, label) == pc[r] = label
TokenOf(r) == <<r, try[r]>>

\* Whether the process that entered a token may be alive: it is until its run is over, and one
\* that is over may not have exited yet.
Gone(r) == pc[r] \in {"over", "dead"}
MayLive(r) == pc[r] # "dead"

\* The fresh run after a rejected resume is no piece of the pass.
PieceOf(r) == IF try[r] = 1 THEN piece[r] ELSE None

\* _spends_attempt: one attempt per pass, and one for each rerun of a piece.
Spends(l, s, p, k) ==
  \/ p = None
  \/ l.passes[s].key # k
  \/ p \in l.passes[s].pieces
  \/ Cardinality(l.passes[s].pieces) >= FreePieces[s]

\* check, of a stage that takes attempts, or of a review round (the runtime alone).
Refuses(l, s, p, k) ==
  \/ l.runtime >= RuntimeLimit
  \/ /\ s \in Budgeted
     /\ \/ Spends(l, s, p, k) /\ l.attempts[s] >= Limit[s]
        \/ l.total >= TotalLimit
        \/ l.signatures[s].repeats >= MaxRepeats

\* What consume leaves of a stage's open pass.  Mutant: a pass is never opened.
PassNeverOpened(l, s, p, k) == l.passes[s]
PassWith(l, s, p, k) ==
  IF p = None THEN l.passes[s]
  ELSE [key |-> k, pieces |-> {p} \cup (IF l.passes[s].key = k THEN l.passes[s].pieces ELSE {})]

\* register_signature.
Signed(l, s, value, repeatable) ==
  [l EXCEPT !.signatures[s] =
     [value |-> value,
      repeats |-> IF repeatable /\ @.value = value THEN @.repeats + 1 ELSE 1]]

Entries(l, t) == {e \in l.inFlight : e.token = t}

\* end: the entry goes, and its charge counts only for the epoch it began in.  Mutant: a
\* second end, or one after a reset, is charged.
EndAlwaysCharges(l, t, charge) ==
  [l EXCEPT !.inFlight = @ \ Entries(l, t), !.runtime = @ + charge]
Ended(l, t, charge) ==
  [l EXCEPT !.inFlight = @ \ Entries(l, t),
            !.runtime = IF \E e \in Entries(l, t) : e.epoch = l.epoch THEN @ + charge ELSE @]

-----------------------------------------------------------------------------
(* A run. *)

\* cmd_run or a review round: clear_stalls reads what is in flight first.
Start(r) == \E s \in Stage, p \in Piece \cup {None}, k \in Key, force \in BOOLEAN :
  /\ At(r, "new") /\ (s \notin Budgeted => p = None)
  /\ stage' = [stage EXCEPT ![r] = s] /\ piece' = [piece EXCEPT ![r] = p]
  /\ key' = [key EXCEPT ![r] = k] /\ forced' = [forced EXCEPT ![r] = force]
  /\ seen' = [seen EXCEPT ![r] = {e.token : e \in Load.inFlight}]
  /\ Goto(r, "check")
  /\ UNCHANGED <<ledgerVars, try, historyVars>>

\* clear_stalls: each entry whose process is gone is ended, with no charge.
ClearStall(a) == \E t \in seen[a] :
  /\ seen' = [seen EXCEPT ![a] = @ \ {t}]
  /\ \/ MayLive(t[1]) /\ UNCHANGED ledgerVars
     \/ Gone(t[1]) /\ Write(Ended(Load, t, 0))
  /\ UNCHANGED <<pc, runVars, historyVars>>

\* _refuse_if_exhausted and _refuse_if_runtime_spent, outside the lock.  A round takes no attempt.
Check(r) ==
  /\ At(r, "check") /\ seen[r] = {}
  /\ Goto(r, IF ~forced[r] /\ Refuses(Load, stage[r], PieceOf(r), key[r]) THEN "over"
             ELSE IF stage[r] \in Budgeted THEN "consume" ELSE "begin")
  /\ UNCHANGED <<ledgerVars, runVars, seen, historyVars>>

\* consume: checked again and taken under one hold of the lock.  `budget consume` ends with it.
Take(r, l, next) ==
  LET s == stage[r]
      p == PieceOf(r)
      k == key[r] IN
  /\ Write([l EXCEPT !.attempts[s] = IF Spends(l, s, p, k) THEN @ + 1 ELSE @,
                     !.passes[s] = PassWith(l, s, p, k),
                     !.total = @ + 1])
  /\ granted' = [granted EXCEPT ![TokenOf(r)] = l.epoch]
  /\ Goto(r, next)

\* Mutant: what the check before the lock said still holds.
ConsumeUnchecked(r) == \E next \in {"begin", "over"} :
  /\ At(r, "consume") /\ Take(r, Load, next)
  /\ UNCHANGED <<runVars, seen, began, measured, used>>

Consume(r) ==
  /\ At(r, "consume")
  /\ IF ~forced[r] /\ Refuses(Load, stage[r], PieceOf(r), key[r])
     THEN Goto(r, "over") /\ UNCHANGED <<ledgerVars, granted>>
     ELSE \E next \in {"begin", "over"} : Take(r, Load, next)
  /\ UNCHANGED <<runVars, seen, began, measured, used>>

\* begin, stamped with the epoch it may be charged to.
Begin(r) ==
  LET l == Load IN
  /\ At(r, "begin") /\ Goto(r, "work")
  /\ Write([l EXCEPT !.inFlight = @ \cup {[token |-> TokenOf(r), epoch |-> l.epoch]}])
  /\ began' = [began EXCEPT ![TokenOf(r)] = l.epoch]
  /\ UNCHANGED <<runVars, seen, measured, used, granted>>

\* The provider gives a measured result, or none: no model, a refusal, an exception.
Return(r) ==
  /\ At(r, "work")
  /\ \/ measured' = measured \cup {TokenOf(r)} /\ Goto(r, "usage")
     \/ Goto(r, "end") /\ UNCHANGED measured
  /\ UNCHANGED <<ledgerVars, runVars, seen, began, used, granted>>

\* record_usage; a round registers what it found as well.
RecordUsage(r) ==
  /\ At(r, "usage") /\ Goto(r, IF stage[r] \in Budgeted THEN "end" ELSE "sign")
  /\ Write([Load EXCEPT !.account = @ + 1]) /\ used' = used \cup {TokenOf(r)}
  /\ UNCHANGED <<runVars, seen, began, measured, granted>>

RegisterSignature(r) == \E value \in Signature, repeatable \in BOOLEAN :
  /\ At(r, "sign") /\ Goto(r, "end")
  /\ Write(Signed(Load, stage[r], value, repeatable))
  /\ UNCHANGED <<runVars, seen, historyVars>>

\* Mutant of End: a run is retried as often as it is rejected.
EndRetriesAgain(r) ==
  /\ At(r, "end")
  /\ Write(Ended(Load, TokenOf(r), IF TokenOf(r) \in measured THEN 1 ELSE 0))
  /\ try' = [try EXCEPT ![r] = @ + 1] /\ Goto(r, "check")
  /\ UNCHANGED <<stage, piece, key, forced, seen, historyVars>>

\* end; a resumed run that was rejected is ended too, and runs fresh once: as another attempt
\* when its CLI was started, otherwise with the one it has.
End(r) ==
  /\ At(r, "end")
  /\ Write(Ended(Load, TokenOf(r), IF TokenOf(r) \in measured THEN 1 ELSE 0))
  /\ \/ Goto(r, "over") /\ UNCHANGED try
     \/ /\ stage[r] \in Budgeted /\ try[r] = 1
        /\ try' = [try EXCEPT ![r] = 2]
        /\ Goto(r, IF TokenOf(r) \in measured THEN "check" ELSE "begin")
  /\ UNCHANGED <<stage, piece, key, forced, seen, historyVars>>

-----------------------------------------------------------------------------
(* Others. *)

\* status: clear_stalls, by a process that does nothing else.
ReadStalls(h) ==
  /\ seen[h] = {} /\ Load.inFlight # {}
  /\ seen' = [seen EXCEPT ![h] = {e.token : e \in Load.inFlight}]
  /\ UNCHANGED <<ledgerVars, pc, runVars, historyVars>>

\* budget reset: from the ledger on disk, idle or not.
Reset ==
  /\ ledger.epoch < MaxEpoch /\ Write(Fresh(ledger))
  /\ UNCHANGED <<pc, runVars, seen, historyVars>>

\* workflow_id: a fresh ledger is settled on disk, so that its epoch can be counted on.
SettleEpoch ==
  /\ stale /\ Write(Load)
  /\ UNCHANGED <<pc, runVars, seen, historyVars>>

\* progress record.  Bound: not again once the stage is refused for it.
RecordProgress == \E s \in Budgeted, value \in Signature :
  /\ ledger.signatures[s].repeats < MaxRepeats /\ Write(Signed(Load, s, value, TRUE))
  /\ UNCHANGED <<pc, runVars, seen, historyVars>>

\* Nothing touches the ledger for session_idle_reset_seconds, a run in flight or not.
Idle ==
  /\ ~stale /\ ledger.epoch < MaxEpoch /\ stale' = TRUE
  /\ UNCHANGED <<ledger, pc, runVars, seen, historyVars>>

\* A run's process dies.
Kill(r) ==
  /\ pc[r] \notin {"new", "over", "dead"} /\ Goto(r, "dead")
  /\ seen' = [seen EXCEPT ![r] = {}]
  /\ UNCHANGED <<ledgerVars, runVars, historyVars>>

-----------------------------------------------------------------------------

Thread(r) == Check(r) \/ Consume(r) \/ Begin(r) \/ Return(r)
             \/ RecordUsage(r) \/ RegisterSignature(r) \/ End(r)
Next ==
  \/ \E r \in Run : Start(r) \/ Thread(r) \/ Kill(r)
  \/ \E a \in Actor : ClearStall(a)
  \/ \E h \in Helper : ReadStalls(h)
  \/ Reset \/ SettleEpoch \/ RecordProgress \/ Idle

Spec == Init /\ [][Next]_vars

-----------------------------------------------------------------------------
(* What should hold. *)

TypeOK ==
  /\ ledger \in LedgerType /\ stale \in BOOLEAN
  /\ pc \in [Run -> Label] /\ stage \in [Run -> Stage] /\ piece \in [Run -> Piece \cup {None}]
  /\ key \in [Run -> Key \cup {None}] /\ forced \in [Run -> BOOLEAN] /\ try \in [Run -> {1, 2}]
  /\ seen \in [Actor -> SUBSET Token]
  /\ began \in [Token -> Epoch] /\ granted \in [Token -> Epoch]
  /\ measured \subseteq Token /\ used \subseteq Token

\* A try of a run has been ended by the run itself.
Closed(t) == \/ began[t] # 0 /\ pc[t[1]] = "over"
             \/ t[2] = 1 /\ try[t[1]] = 2

\* The runtime charged is that of the runs of this epoch that were measured and ended their entry
\* themselves, each once: whatever was reset, went idle, died or was cleared meanwhile.
RuntimeIsSpent ==
  ledger.runtime = Cardinality({t \in measured : began[t] = ledger.epoch /\ Closed(t)})

\* The token account has every run that recorded its usage, resets or not.
AccountKept == ledger.account = Cardinality(used)

\* A running try of this epoch is in flight, where others can see it stall, and one that was
\* closed is not, so it is never taken for a stall.
InFlightIsOpen ==
  /\ \A e \in ledger.inFlight : ~Closed(e.token)
  /\ \A r \in Run : pc[r] \in {"work", "usage", "sign", "end"} /\ began[TokenOf(r)] = ledger.epoch
       => \E e \in ledger.inFlight : e.token = TokenOf(r)

\* What the ledger holds of this epoch is what its runs did: charged once, recorded, in flight while
\* they go (begin, end, record_usage, _fresh).
LedgerAddsUp == RuntimeIsSpent /\ AccountKept /\ InFlightIsOpen

GrantedNow(s) == {t \in Token : stage[t[1]] = s /\ granted[t] = ledger.epoch /\ granted[t] # 0}

\* No stage runs more often than its budget says, nor the workflow than its own, unless the user
\* forced one of the runs: two runs that start together do not share the last attempt.
WithinBudget ==
  \/ \E s \in Stage : \E t \in GrantedNow(s) : forced[t[1]]
  \/ /\ \A s \in Budgeted : ledger.attempts[s] <= Limit[s]
     /\ ledger.total <= TotalLimit

\* "One attempt per pass": the units of a plan, each run once, cost the stage a single attempt.
OneAttemptPerPass == \A s \in Budgeted :
  LET ts == GrantedNow(s) IN
  /\ \A t \in ts : t[2] = 1 /\ piece[t[1]] # None
  /\ \A t, o \in ts : key[t[1]] = key[o[1]] /\ (t # o => piece[t[1]] # piece[o[1]])
  /\ Cardinality(ts) <= FreePieces[s]
  => ledger.attempts[s] <= 1
=============================================================================
