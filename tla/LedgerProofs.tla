---------------------------- MODULE LedgerProofs ----------------------------
(***************************************************************************)
(* Proofs about Ledger, for any runs, stages, pieces and limits, and any   *)
(* order of ends, resets, deaths and cleared stalls: what is charged is    *)
(* what was spent, and no budget is passed unforced.                       *)
(***************************************************************************)
EXTENDS Ledger, FiniteSetTheorems, TLAPS

-----------------------------------------------------------------------------
(* The inductive invariant. *)

\* Room for a fresh epoch, and a ledger that was written has an epoch of its own.
Room == /\ stale => ledger.epoch < MaxEpoch
        /\ ~stale => ledger.epoch # 0

Active(r) == pc[r] \in {"work", "usage", "sign", "end"}

\* What a run has entered and recorded so far fits where it is.
FitsAt(r) ==
  /\ pc[r] = "new" => try[r] = 1 /\ granted[<<r, 1>>] = 0 /\ granted[<<r, 2>>] = 0
  /\ pc[r] = "consume" => stage[r] \in Budgeted
  /\ try[r] = 1 => began[<<r, 2>>] = 0 /\ <<r, 2>> \notin used
  /\ pc[r] \in {"new", "check", "consume", "begin"} => began[TokenOf(r)] = 0
  /\ pc[r] \in {"new", "check", "consume", "begin", "work", "usage"} => TokenOf(r) \notin used
  /\ Active(r) => began[TokenOf(r)] # 0
Fits == \A r \in Run : FitsAt(r)

\* The entries and charges of a ledger l, on disk or as it would be read, match the runs.
EntriesMatch(l) == \A e \in l.inFlight : e.epoch = l.epoch /\ began[e.token] = l.epoch /\ ~Closed(e.token)
ActiveEntered(l) == \A r \in Run : Active(r) /\ began[TokenOf(r)] = l.epoch
                      => \E e \in l.inFlight : e.token = TokenOf(r)
Spent(epoch) == {t \in measured : began[t] = epoch /\ Closed(t)}
ForcedOnce(epoch) == \E t \in Token : granted[t] = epoch /\ granted[t] # 0 /\ forced[t[1]]
InBudget(l) == (\A s \in Budgeted : l.attempts[s] <= Limit[s]) /\ l.total <= TotalLimit

Kept(l) ==
  /\ \A t \in Token : began[t] <= l.epoch
  /\ EntriesMatch(l) /\ ActiveEntered(l)
  /\ l.runtime = Cardinality(Spent(l.epoch))
  /\ l.account = Cardinality(used)
Sound(l) == Kept(l) /\ (ForcedOnce(l.epoch) \/ InBudget(l))

LInv == TypeOK /\ Room /\ Fits /\ Sound(ledger)

-----------------------------------------------------------------------------
(* The operators of Ledger. *)

\* The stage every run starts with is a stage.
LEMMA AnyStageType == AnyStage \in Stage
BY LedgerConstantsOK DEF AnyStage

\* The token of a run's current try is a token.
LEMMA TokenType == ASSUME TypeOK, NEW r \in Run PROVE TokenOf(r) \in Token
BY DEF TypeOK, TokenOf, Token

\* A fresh ledger is a ledger of the next epoch with nothing spent, and the account of the old one.
LEMMA FreshType ==
  ASSUME TypeOK, ledger.epoch < MaxEpoch
  PROVE /\ Fresh(ledger) \in LedgerType
        /\ Fresh(ledger).epoch = ledger.epoch + 1 /\ Fresh(ledger).inFlight = {}
        /\ Fresh(ledger).runtime = 0 /\ Fresh(ledger).total = 0
        /\ Fresh(ledger).account = ledger.account
        /\ \A s \in Stage : Fresh(ledger).attempts[s] = 0
<1>1. ledger \in LedgerType /\ ledger.epoch \in 0 .. MaxEpoch /\ MaxEpoch \in Nat
  BY LedgerConstantsOK DEF TypeOK, LedgerType, Epoch
<1>2. ledger.epoch + 1 \in Epoch
  BY <1>1 DEF Epoch
<1>3. NoPass \in Pass /\ NoSign \in Sign
  BY DEF NoPass, NoSign, Pass, Sign
<1> QED
  BY <1>1, <1>2, <1>3 DEF Fresh, LedgerType

\* What is read is the ledger on disk, or a fresh one when that is idle.
LEMMA LoadType ==
  ASSUME TypeOK, Room
  PROVE /\ Load \in LedgerType /\ Load.epoch >= ledger.epoch /\ Load.account = ledger.account
        /\ ~stale => Load = ledger
        /\ stale => /\ Load.epoch = ledger.epoch + 1 /\ Load.inFlight = {}
                    /\ Load.runtime = 0 /\ Load.total = 0
                    /\ \A s \in Stage : Load.attempts[s] = 0
<1>1. ledger \in LedgerType /\ ledger.epoch \in Nat
  BY DEF TypeOK, LedgerType, Epoch
<1>2. CASE stale
  BY <1>1, <1>2, FreshType DEF Load, Room
<1>3. CASE ~stale
  BY <1>1, <1>3 DEF Load
<1> QED
  BY <1>2, <1>3

\* end gives a ledger that has lost the entries of t, and changes the runtime alone besides.
LEMMA EndedType ==
  ASSUME NEW l \in LedgerType, NEW t, NEW charge \in Nat
  PROVE /\ Ended(l, t, charge) \in LedgerType
        /\ Ended(l, t, charge).inFlight = l.inFlight \ Entries(l, t)
        /\ Ended(l, t, charge).epoch = l.epoch /\ Ended(l, t, charge).account = l.account
        /\ Ended(l, t, charge).attempts = l.attempts /\ Ended(l, t, charge).total = l.total
        /\ Ended(l, t, charge).runtime = IF \E e \in Entries(l, t) : e.epoch = l.epoch
                                         THEN l.runtime + charge ELSE l.runtime
<1> DEFINE charged == IF \E e \in Entries(l, t) : e.epoch = l.epoch THEN l.runtime + charge ELSE l.runtime
           left    == l.inFlight \ Entries(l, t)
<1>1. l.runtime \in Nat /\ l.inFlight \subseteq Entry
  BY DEF LedgerType
<1>2. charged \in Nat
  BY <1>1
<1>3. left \subseteq Entry
  BY <1>1
<1>4. Ended(l, t, charge) = [l EXCEPT !.inFlight = left, !.runtime = charged]
  BY DEF Ended, LedgerType
<1> HIDE DEF charged, left
<1>5. /\ Ended(l, t, charge) \in LedgerType
      /\ Ended(l, t, charge).inFlight = left /\ Ended(l, t, charge).runtime = charged
      /\ Ended(l, t, charge).epoch = l.epoch /\ Ended(l, t, charge).account = l.account
      /\ Ended(l, t, charge).attempts = l.attempts /\ Ended(l, t, charge).total = l.total
  BY <1>2, <1>3, <1>4 DEF LedgerType
<1> QED
  BY <1>5 DEF charged, left

\* register_signature changes no field but the signatures.
LEMMA SignedType ==
  ASSUME NEW l \in LedgerType, NEW s \in Stage, NEW value \in Signature, NEW repeatable \in BOOLEAN
  PROVE /\ Signed(l, s, value, repeatable) \in LedgerType
        /\ Signed(l, s, value, repeatable).epoch = l.epoch
        /\ Signed(l, s, value, repeatable).inFlight = l.inFlight
        /\ Signed(l, s, value, repeatable).runtime = l.runtime
        /\ Signed(l, s, value, repeatable).account = l.account
        /\ Signed(l, s, value, repeatable).attempts = l.attempts
        /\ Signed(l, s, value, repeatable).total = l.total
<1>1. l.signatures[s] \in Sign
  BY DEF LedgerType
<1>2. [value |-> value, repeats |-> IF repeatable /\ l.signatures[s].value = value
                                    THEN l.signatures[s].repeats + 1 ELSE 1] \in Sign
  BY <1>1 DEF Sign
<1> QED
  BY <1>2 DEF Signed, LedgerType

\* The pass consume leaves is a pass.
LEMMA PassType ==
  ASSUME NEW l \in LedgerType, NEW s \in Stage, NEW p \in Piece \cup {None}, NEW k \in Key \cup {None}
  PROVE PassWith(l, s, p, k) \in Pass
<1>1. l.passes[s] \in Pass
  BY DEF LedgerType
<1> QED
  BY <1>1 DEF PassWith, Pass

\* There are finitely many tries, so what is counted has a size.
LEMMA TokensFinite == ASSUME TypeOK PROVE IsFiniteSet(Token) /\ IsFiniteSet(measured) /\ IsFiniteSet(used)
<1>1. IsFiniteSet({1, 2})
  <2>1. IsFiniteSet({1}) /\ IsFiniteSet({2})
    BY FS_Singleton
  <2>2. {1, 2} = {1} \cup {2}
    OBVIOUS
  <2> QED
    BY <2>1, <2>2, FS_Union
<1>2. IsFiniteSet(Token)
  BY <1>1, LedgerConstantsOK, FS_Product DEF Token
<1> QED
  BY <1>2, FS_Subset DEF TypeOK

\* What Sound says of a ledger is in six of its fields.
LEMMA SameFields ==
  ASSUME NEW l, NEW m, Sound(l), m.epoch = l.epoch, m.inFlight = l.inFlight, m.runtime = l.runtime,
         m.account = l.account, m.attempts = l.attempts, m.total = l.total
  PROVE Sound(m)
BY DEF Sound, Kept, EntriesMatch, ActiveEntered, InBudget

\* A fresh ledger is sound: its epoch is later than any a run began in.
LEMMA FreshSound ==
  ASSUME TypeOK, Sound(ledger), ledger.epoch < MaxEpoch
  PROVE Sound(Fresh(ledger))
<1> DEFINE l == Fresh(ledger)
<1>1. /\ l.epoch = ledger.epoch + 1 /\ l.inFlight = {} /\ l.runtime = 0 /\ l.total = 0
      /\ l.account = ledger.account /\ \A s \in Stage : l.attempts[s] = 0
  BY FreshType
<1>2. ledger.epoch \in Nat /\ began \in [Token -> Nat] /\ MaxEpoch \in Nat
  BY LedgerConstantsOK DEF TypeOK, LedgerType, Epoch
<1>3. \A t \in Token : began[t] <= ledger.epoch
  BY DEF Sound, Kept
<1>4. \A t \in Token : began[t] < l.epoch
  BY <1>1, <1>2, <1>3
<1>5. EntriesMatch(l)
  BY <1>1 DEF EntriesMatch
<1>6. \A r \in Run : TokenOf(r) \in Token
  BY TokenType
<1>7. ActiveEntered(l)
  BY <1>1, <1>2, <1>4, <1>6 DEF ActiveEntered
<1>8. l.runtime = Cardinality(Spent(l.epoch))
  <2>1. measured \subseteq Token
    BY DEF TypeOK
  <2>2. Spent(l.epoch) = {}
    BY <1>1, <1>2, <1>4, <2>1 DEF Spent
  <2> QED
    BY <1>1, <2>2, FS_EmptySet
<1>9. InBudget(l)
  BY <1>1, LedgerConstantsOK DEF InBudget
<1>10. l.account = Cardinality(used)
  BY <1>1 DEF Sound, Kept
<1>11. \A t \in Token : began[t] <= l.epoch
  BY <1>1, <1>2, <1>4
<1> QED
  BY <1>5, <1>7, <1>8, <1>9, <1>10, <1>11 DEF Sound, Kept

\* So is what a command reads.
LEMMA LoadSound == ASSUME LInv PROVE Load \in LedgerType /\ Load.epoch # 0 /\ Sound(Load)
<1>1. TypeOK /\ Room /\ Sound(ledger)
  BY DEF LInv
<1>2. ledger \in LedgerType /\ ledger.epoch \in Nat
  BY <1>1 DEF TypeOK, LedgerType, Epoch
<1>3. CASE stale
  BY <1>1, <1>2, <1>3, FreshSound, FreshType DEF Load, Room
<1>4. CASE ~stale
  BY <1>1, <1>2, <1>4 DEF Load, Room
<1> QED
  BY <1>3, <1>4

-----------------------------------------------------------------------------
(* What a step does to the runs, seen from a ledger l it does not change. *)

\* A step that closes no try and enters none leaves the entries and charges of a ledger right.
LEMMA Undisturbed ==
  ASSUME TypeOK, NEW l \in LedgerType, Kept(l),
         \A t \in Token : Closed(t)' <=> Closed(t),
         \A r \in Run : Active(r)' => Active(r) /\ TokenOf(r)' = TokenOf(r),
         \A t \in measured : t \in measured',
         \A t \in measured' : t \in Token /\ (t \in measured \/ ~Closed(t)),
         UNCHANGED <<began, used>>
  PROVE Kept(l)'
<1>1. measured \subseteq Token /\ l.inFlight \subseteq Entry
  BY DEF TypeOK, LedgerType
<1>2. Spent(l.epoch)' = Spent(l.epoch)
  BY <1>1 DEF Spent
<1>3. EntriesMatch(l)'
  <2> SUFFICES ASSUME NEW e \in l.inFlight
               PROVE e.epoch = l.epoch /\ began'[e.token] = l.epoch /\ ~Closed(e.token)'
    BY DEF EntriesMatch
  <2>1. e.token \in Token
    BY <1>1 DEF Entry
  <2>2. e.epoch = l.epoch /\ began[e.token] = l.epoch /\ ~Closed(e.token)
    BY DEF Kept, EntriesMatch
  <2> QED
    BY <2>1, <2>2
<1>4. ActiveEntered(l)'
  BY DEF Kept, ActiveEntered
<1> QED
  BY <1>2, <1>3, <1>4 DEF Kept

\* Who was granted an attempt by force stays so, if no granted try changes hands.
LEMMA ForcedStays ==
  ASSUME NEW l, UNCHANGED granted, \A t \in Token : granted[t] # 0 => forced'[t[1]] = forced[t[1]],
         ForcedOnce(l.epoch) \/ InBudget(l)
  PROVE (ForcedOnce(l.epoch) \/ InBudget(l))'
BY DEF ForcedOnce, InBudget

\* Whether a try is closed does not change when its run moves on, unless the run is over with it.
LEMMA ClosedStays ==
  ASSUME TypeOK, Fits, NEW r \in Run, NEW label \in Label, Goto(r, label), pc[r] # "over",
         label = "over" => pc[r] \in {"new", "check", "consume", "begin"},
         UNCHANGED <<try, began>>
  PROVE \A t \in Token : Closed(t)' <=> Closed(t)
<1>1. pc' = [pc EXCEPT ![r] = label] /\ pc \in [Run -> Label] /\ try \in [Run -> {1, 2}]
  BY DEF Goto, TypeOK
<1> SUFFICES ASSUME NEW t \in Token PROVE Closed(t)' <=> Closed(t)
  OBVIOUS
<1>2. PICK s \in Run, i \in {1, 2} : t = <<s, i>>
  BY DEF Token
<1>3. t[1] = s /\ t[2] = i
  BY <1>2
<1>4. CASE s # r
  BY <1>1, <1>3, <1>4 DEF Closed
<1>5. CASE s = r /\ label # "over"
  BY <1>1, <1>3, <1>5 DEF Closed
<1>6. CASE s = r /\ label = "over"
  <2>1. began[TokenOf(r)] = 0 /\ (try[r] = 1 => began[<<r, 2>>] = 0)
    BY <1>6 DEF Fits, FitsAt
  <2>2. (i = 1 /\ try[r] = 2) \/ began[t] = 0
    BY <1>1, <1>2, <1>6, <2>1 DEF TokenOf
  <2> QED
    BY <1>1, <1>3, <1>6, <2>2 DEF Closed
<1> QED
  BY <1>4, <1>5, <1>6

\* The entries and charges stay right when a run r only moves on.
LEMMA MovesOn ==
  ASSUME TypeOK, Fits, NEW l \in LedgerType, Kept(l), NEW r \in Run, NEW label \in Label,
         Goto(r, label), pc[r] # "over",
         label = "over" => pc[r] \in {"new", "check", "consume", "begin"},
         Active(r)' => Active(r),
         UNCHANGED <<try, began, used>>,
         \A t \in measured : t \in measured',
         \A t \in measured' : t \in Token /\ (t \in measured \/ ~Closed(t))
  PROVE Kept(l)'
<1>1. pc' = [pc EXCEPT ![r] = label] /\ pc \in [Run -> Label]
  BY DEF Goto, TypeOK
<1>2. \A t \in Token : Closed(t)' <=> Closed(t)
  BY ClosedStays
<1>3. \A q \in Run : Active(q)' => Active(q) /\ TokenOf(q)' = TokenOf(q)
  BY <1>1 DEF Active, TokenOf
<1> QED
  BY <1>2, <1>3, Undisturbed

\* A step that changes no run leaves all of it right.
LEMMA RunsStay ==
  ASSUME TypeOK, NEW l \in LedgerType, Sound(l),
         UNCHANGED <<pc, forced, try, began, used, granted, measured>>
  PROVE Sound(l)'
<1>1. measured \subseteq Token
  BY DEF TypeOK
<1>2. \A t \in Token : Closed(t)' <=> Closed(t)
  BY DEF Closed
<1>3. \A r \in Run : Active(r)' => Active(r) /\ TokenOf(r)' = TokenOf(r)
  BY DEF Active, TokenOf
<1>4. Kept(l)'
  BY <1>1, <1>2, <1>3, Undisturbed DEF Sound
<1>5. (ForcedOnce(l.epoch) \/ InBudget(l))'
  BY ForcedStays DEF Sound
<1> QED
  BY <1>4, <1>5 DEF Sound

\* A ledger found right is right when it is the one written.
LEMMA OnDisk ==
  ASSUME NEW l, Sound(l)', ledger' = l
  PROVE Sound(ledger)'
BY DEF Sound, Kept, EntriesMatch, ActiveEntered, Spent, ForcedOnce, InBudget, Closed, Active, TokenOf

-----------------------------------------------------------------------------
(* The type invariant, with room for a fresh epoch. *)

\* Writing a ledger with an epoch of its own keeps the type and the room.
LEMMA WriteType ==
  ASSUME NEW new \in LedgerType, new.epoch # 0, Write(new)
  PROVE ledger' \in LedgerType /\ stale' \in BOOLEAN /\ Room'
BY DEF Write, Room

\* Moving a run to a label keeps the labels' type.
LEMMA GotoType ==
  ASSUME TypeOK, NEW r \in Run, NEW label \in Label, Goto(r, label)
  PROVE pc' \in [Run -> Label]
BY DEF TypeOK, Goto

\* What is left of TypeOK when the ledger and the labels are set aside.
Rest == /\ stage \in [Run -> Stage] /\ piece \in [Run -> Piece \cup {None}]
        /\ key \in [Run -> Key \cup {None}] /\ forced \in [Run -> BOOLEAN] /\ try \in [Run -> {1, 2}]
        /\ seen \in [Actor -> SUBSET Token]
        /\ began \in [Token -> Epoch] /\ granted \in [Token -> Epoch]
        /\ measured \subseteq Token /\ used \subseteq Token

\* What taking an attempt writes.
LEMMA TakeType ==
  ASSUME LInv, NEW r \in Run, NEW next \in Label, Take(r, Load, next)
  PROVE /\ ledger' \in LedgerType /\ ledger'.epoch = Load.epoch /\ stale' = FALSE /\ Room'
        /\ ledger'.inFlight = Load.inFlight /\ ledger'.runtime = Load.runtime
        /\ ledger'.account = Load.account
        /\ ledger'.total = Load.total + 1
        /\ ledger'.attempts = [Load.attempts EXCEPT ![stage[r]] =
             IF Spends(Load, stage[r], PieceOf(r), key[r]) THEN @ + 1 ELSE @]
        /\ ledger'.passes = [Load.passes EXCEPT ![stage[r]] = PassWith(Load, stage[r], PieceOf(r), key[r])]
        /\ granted' = [granted EXCEPT ![TokenOf(r)] = Load.epoch]
        /\ granted' \in [Token -> Epoch] /\ pc' = [pc EXCEPT ![r] = next]
<1> DEFINE s == stage[r]
           p == PieceOf(r)
           k == key[r]
<1>1. PICK l : l = Load
  OBVIOUS
<1>2. l \in LedgerType /\ l.epoch # 0
  BY <1>1, LoadSound
<1>3. s \in Stage /\ p \in Piece \cup {None} /\ k \in Key \cup {None}
  BY DEF LInv, TypeOK, PieceOf
<1>4. PassWith(l, s, p, k) \in Pass
  BY <1>2, <1>3, PassType
<1> DEFINE spent == [l.attempts EXCEPT ![s] = IF Spends(l, s, p, k) THEN @ + 1 ELSE @]
           opened == [l.passes EXCEPT ![s] = PassWith(l, s, p, k)]
<1>5. spent \in [Stage -> Nat] /\ opened \in [Stage -> Pass] /\ l.total + 1 \in Nat
  BY <1>2, <1>3, <1>4 DEF LedgerType
<1>6. /\ ledger' = [l EXCEPT !.attempts = spent, !.passes = opened, !.total = l.total + 1]
      /\ stale' = FALSE /\ granted' = [granted EXCEPT ![TokenOf(r)] = l.epoch]
      /\ pc' = [pc EXCEPT ![r] = next]
  BY <1>1, <1>2 DEF Take, Write, Goto, LedgerType
<1>7. spent = [Load.attempts EXCEPT ![stage[r]] =
                 IF Spends(Load, stage[r], PieceOf(r), key[r]) THEN @ + 1 ELSE @]
      /\ opened = [Load.passes EXCEPT ![stage[r]] = PassWith(Load, stage[r], PieceOf(r), key[r])]
  BY <1>1
<1> HIDE DEF spent, opened
<1>8. /\ ledger' \in LedgerType /\ ledger'.epoch = l.epoch
      /\ ledger'.inFlight = l.inFlight /\ ledger'.runtime = l.runtime /\ ledger'.account = l.account
      /\ ledger'.total = l.total + 1 /\ ledger'.attempts = spent /\ ledger'.passes = opened
  BY <1>2, <1>5, <1>6 DEF LedgerType
<1>9. granted' \in [Token -> Epoch]
  BY <1>2, <1>6, TokenType DEF LInv, TypeOK, LedgerType
<1>10. Room'
  BY <1>2, <1>6, <1>8 DEF Room
<1> QED
  BY <1>1, <1>6, <1>7, <1>8, <1>9, <1>10

\* Every step keeps the type, and the room.
LEMMA TypeStep == ASSUME LInv, [Next]_vars PROVE TypeOK' /\ Room'
<1>0. TypeOK /\ Room /\ Rest /\ ledger \in LedgerType
  BY DEF LInv, TypeOK, Rest
<1>1. PICK l : l = Load
  OBVIOUS
<1>2. l \in LedgerType /\ l.epoch # 0 /\ l.epoch \in Epoch /\ l.inFlight \subseteq Entry
  BY <1>1, LoadSound DEF LedgerType
<1>3. \A r \in Run : TokenOf(r) \in Token
  BY <1>0, TokenType
<1>4. {e.token : e \in l.inFlight} \subseteq Token
  BY <1>2 DEF Entry
<1>5. ASSUME NEW r \in Run, Start(r)
      PROVE TypeOK' /\ Room'
  <2>1. PICK s \in Stage, p \in Piece \cup {None}, k \in Key, force \in BOOLEAN :
          /\ stage' = [stage EXCEPT ![r] = s] /\ piece' = [piece EXCEPT ![r] = p]
          /\ key' = [key EXCEPT ![r] = k] /\ forced' = [forced EXCEPT ![r] = force]
          /\ seen' = [seen EXCEPT ![r] = {e.token : e \in l.inFlight}]
          /\ Goto(r, "check") /\ UNCHANGED <<ledgerVars, try, historyVars>>
    BY <1>1, <1>5 DEF Start
  <2>2. pc' \in [Run -> Label]
    BY <1>0, <2>1, GotoType DEF Label
  <2>3. Rest'
    BY <1>0, <1>4, <2>1 DEF Rest, historyVars, Actor
  <2> QED
    BY <1>0, <2>1, <2>2, <2>3 DEF TypeOK, Rest, Room, ledgerVars
<1>6. ASSUME NEW r \in Run, Check(r)
      PROVE TypeOK' /\ Room'
  <2>1. pc' \in [Run -> Label]
    BY <1>0, <1>6, GotoType DEF Check, Label
  <2> QED
    BY <1>0, <1>6, <2>1 DEF Check, TypeOK, Room, ledgerVars, runVars, historyVars
<1>7. ASSUME NEW r \in Run, Consume(r)
      PROVE TypeOK' /\ Room'
  <2>1. CASE Goto(r, "over") /\ UNCHANGED <<ledgerVars, granted>>
    <3>1. pc' \in [Run -> Label]
      BY <1>0, <2>1, GotoType DEF Label
    <3> QED
      BY <1>0, <1>7, <2>1, <3>1 DEF Consume, TypeOK, Room, ledgerVars, runVars
  <2>2. ASSUME NEW next \in {"begin", "over"}, Take(r, Load, next)
        PROVE TypeOK' /\ Room'
    <3>1. next \in Label
      BY DEF Label
    <3>2. ledger' \in LedgerType /\ stale' = FALSE /\ Room' /\ granted' \in [Token -> Epoch]
      BY <2>2, <3>1, TakeType
    <3>3. pc' \in [Run -> Label]
      BY <1>0, <2>2, <3>1, GotoType DEF Take
    <3> QED
      BY <1>0, <1>7, <3>2, <3>3 DEF Consume, TypeOK, runVars
  <2> QED
    BY <1>7, <2>1, <2>2 DEF Consume
<1>8. ASSUME NEW r \in Run, Begin(r)
      PROVE TypeOK' /\ Room'
  <2> DEFINE entry == [token |-> TokenOf(r), epoch |-> l.epoch]
  <2>1. entry \in Entry
    BY <1>2, <1>3 DEF Entry
  <2>2. l.inFlight \cup {entry} \subseteq Entry
    BY <1>2, <2>1
  <2>3. /\ Write([l EXCEPT !.inFlight = l.inFlight \cup {entry}])
        /\ began' = [began EXCEPT ![TokenOf(r)] = l.epoch] /\ Goto(r, "work")
        /\ UNCHANGED <<runVars, seen, measured, used, granted>>
    BY <1>1, <1>2, <1>8 DEF Begin, LedgerType
  <2> HIDE DEF entry
  <2>4. ledger' \in LedgerType /\ stale' \in BOOLEAN /\ Room'
    <3>1. /\ [l EXCEPT !.inFlight = l.inFlight \cup {entry}] \in LedgerType
          /\ [l EXCEPT !.inFlight = l.inFlight \cup {entry}].epoch # 0
      BY <1>2, <2>2 DEF LedgerType
    <3> QED
      BY <2>3, <3>1, WriteType
  <2>5. pc' \in [Run -> Label]
    BY <1>0, <2>3, GotoType DEF Label
  <2>6. began' \in [Token -> Epoch]
    BY <1>0, <1>2, <1>3, <2>3 DEF Rest
  <2> QED
    BY <1>0, <2>3, <2>4, <2>5, <2>6 DEF TypeOK, runVars
<1>9. ASSUME NEW r \in Run, Return(r)
      PROVE TypeOK' /\ Room'
  <2>1. pc' \in [Run -> Label]
    BY <1>0, <1>9, GotoType DEF Return, Label
  <2>2. measured' \subseteq Token
    BY <1>0, <1>3, <1>9 DEF Return, Rest
  <2> QED
    BY <1>0, <1>9, <2>1, <2>2 DEF Return, TypeOK, Room, ledgerVars, runVars
<1>10. ASSUME NEW r \in Run, RecordUsage(r)
       PROVE TypeOK' /\ Room'
  <2>1. pc' \in [Run -> Label]
    BY <1>0, <1>10, GotoType DEF RecordUsage, Label
  <2>2. Write([l EXCEPT !.account = l.account + 1])
    BY <1>1, <1>2, <1>10 DEF RecordUsage, LedgerType
  <2>3. ledger' \in LedgerType /\ stale' \in BOOLEAN /\ Room'
    <3>1. /\ [l EXCEPT !.account = l.account + 1] \in LedgerType
          /\ [l EXCEPT !.account = l.account + 1].epoch # 0
      BY <1>2 DEF LedgerType
    <3> QED
      BY <2>2, <3>1, WriteType
  <2>4. used' \subseteq Token
    BY <1>0, <1>3, <1>10 DEF RecordUsage, Rest
  <2> QED
    BY <1>0, <1>10, <2>1, <2>3, <2>4 DEF RecordUsage, TypeOK, runVars
<1>11. ASSUME NEW r \in Run, RegisterSignature(r)
       PROVE TypeOK' /\ Room'
  <2>1. pc' \in [Run -> Label]
    BY <1>0, <1>11, GotoType DEF RegisterSignature, Label
  <2>2. PICK value \in Signature, repeatable \in BOOLEAN : Write(Signed(l, stage[r], value, repeatable))
    BY <1>1, <1>11 DEF RegisterSignature
  <2>3. stage[r] \in Stage
    BY <1>0 DEF Rest
  <2>4. ledger' \in LedgerType /\ stale' \in BOOLEAN /\ Room'
    BY <1>2, <2>2, <2>3, SignedType DEF Write, Room
  <2> QED
    BY <1>0, <1>11, <2>1, <2>4 DEF RegisterSignature, TypeOK, runVars, historyVars
<1>12. ASSUME NEW r \in Run, End(r)
       PROVE TypeOK' /\ Room'
  <2>1. pc' \in [Run -> Label]
    BY <1>0, <1>12, GotoType DEF End, Label
  <2>2. PICK charge \in {0, 1} : Write(Ended(l, TokenOf(r), charge))
    BY <1>1, <1>12 DEF End
  <2>3. ledger' \in LedgerType /\ stale' \in BOOLEAN /\ Room'
    <3>1. Ended(l, TokenOf(r), charge) \in LedgerType /\ Ended(l, TokenOf(r), charge).epoch # 0
      BY <1>2, EndedType
    <3> QED
      BY <2>2, <3>1, WriteType
  <2>4. try' \in [Run -> {1, 2}]
    BY <1>0, <1>12 DEF End, Rest
  <2> QED
    BY <1>0, <1>12, <2>1, <2>3, <2>4 DEF End, TypeOK, historyVars
<1>13. ASSUME NEW r \in Run, Kill(r)
       PROVE TypeOK' /\ Room'
  <2>1. pc' \in [Run -> Label]
    BY <1>0, <1>13, GotoType DEF Kill, Label
  <2>2. seen' \in [Actor -> SUBSET Token]
    BY <1>0, <1>13 DEF Kill, Rest
  <2> QED
    BY <1>0, <1>13, <2>1, <2>2 DEF Kill, TypeOK, Room, ledgerVars, runVars, historyVars
<1>14. ASSUME NEW a \in Actor, ClearStall(a)
       PROVE TypeOK' /\ Room'
  <2>1. PICK t \in seen[a] : /\ seen' = [seen EXCEPT ![a] = @ \ {t}]
                             /\ UNCHANGED ledgerVars \/ Write(Ended(l, t, 0))
    BY <1>1, <1>14 DEF ClearStall
  <2>2. seen' \in [Actor -> SUBSET Token]
    BY <1>0, <2>1 DEF Rest
  <2>3. ledger' \in LedgerType /\ stale' \in BOOLEAN /\ Room'
    <3>1. CASE UNCHANGED ledgerVars
      BY <1>0, <3>1 DEF ledgerVars, TypeOK, Room
    <3>2. CASE Write(Ended(l, t, 0))
      <4>1. Ended(l, t, 0) \in LedgerType /\ Ended(l, t, 0).epoch # 0
        BY <1>2, EndedType
      <4> QED
        BY <3>2, <4>1, WriteType
    <3> QED
      BY <2>1, <3>1, <3>2
  <2> QED
    BY <1>0, <1>14, <2>2, <2>3 DEF ClearStall, TypeOK, runVars, historyVars
<1>15. ASSUME NEW h \in Helper, ReadStalls(h)
       PROVE TypeOK' /\ Room'
  <2>1. seen' \in [Actor -> SUBSET Token]
    BY <1>0, <1>1, <1>4, <1>15 DEF ReadStalls, Rest
  <2> QED
    BY <1>0, <1>15, <2>1 DEF ReadStalls, TypeOK, Room, ledgerVars, runVars, historyVars
<1>16. ASSUME Reset
       PROVE TypeOK' /\ Room'
  <2>1. ledger' \in LedgerType /\ stale' \in BOOLEAN /\ Room'
    <3>1. Fresh(ledger) \in LedgerType /\ Fresh(ledger).epoch = ledger.epoch + 1 /\ ledger.epoch \in Nat
      BY <1>0, <1>16, FreshType DEF Reset, LedgerType, Epoch
    <3> QED
      <4>1. PICK new : new = Fresh(ledger)
        OBVIOUS
      <4>2. new \in LedgerType /\ new.epoch # 0 /\ Write(new)
        BY <1>16, <3>1, <4>1 DEF Reset
      <4> QED
        BY <4>2, WriteType
  <2> QED
    BY <1>0, <1>16, <2>1 DEF Reset, TypeOK, runVars, historyVars
<1>17. ASSUME SettleEpoch
       PROVE TypeOK' /\ Room'
  BY <1>0, <1>1, <1>2, <1>17 DEF SettleEpoch, Write, Room, TypeOK, runVars, historyVars
<1>18. ASSUME RecordProgress
       PROVE TypeOK' /\ Room'
  <2>1. PICK s \in Budgeted, value \in Signature : Write(Signed(l, s, value, TRUE))
    BY <1>1, <1>18 DEF RecordProgress
  <2>2. s \in Stage
    BY LedgerConstantsOK
  <2>3. ledger' \in LedgerType /\ stale' \in BOOLEAN /\ Room'
    BY <1>2, <2>1, <2>2, SignedType DEF Write, Room
  <2> QED
    BY <1>0, <1>18, <2>3 DEF RecordProgress, TypeOK, runVars, historyVars
<1>19. ASSUME Idle
       PROVE TypeOK' /\ Room'
  BY <1>0, <1>19 DEF Idle, Room, TypeOK, runVars, historyVars
<1>20. ASSUME UNCHANGED vars
       PROVE TypeOK' /\ Room'
  BY <1>0, <1>20 DEF vars, Room, TypeOK, ledgerVars, runVars, historyVars
<1> QED
  BY <1>5, <1>6, <1>7, <1>8, <1>9, <1>10, <1>11, <1>12, <1>13, <1>14, <1>15, <1>16, <1>17, <1>18,
     <1>19, <1>20 DEF Next, Thread

-----------------------------------------------------------------------------
(* Each run stays where it fits. *)

\* Every step leaves what each run entered and recorded fitting where it is.
LEMMA FitsStep == ASSUME LInv, [Next]_vars PROVE Fits'
<1> DEFINE Elsewhere(r) ==
             \A q \in Run \ {r} :
               /\ pc'[q] = pc[q] /\ try'[q] = try[q] /\ stage'[q] = stage[q]
               /\ \A i \in {1, 2} :
                    /\ began'[<<q, i>>] = began[<<q, i>>]
                    /\ granted'[<<q, i>>] = granted[<<q, i>>]
                    /\ (<<q, i>> \in used') <=> (<<q, i>> \in used)
<1>0. /\ Fits /\ pc \in [Run -> Label] /\ stage \in [Run -> Stage] /\ try \in [Run -> {1, 2}]
      /\ began \in [Token -> Epoch] /\ granted \in [Token -> Epoch]
      /\ \A q \in Run : <<q, 1>> \in Token /\ <<q, 2>> \in Token /\ TokenOf(q) \in Token
      /\ \A q \in Run : TokenOf(q) = <<q, try[q]>>
  BY DEF LInv, TypeOK, Token, TokenOf
<1>t. \A r, q \in Run : q # r => \A i \in {1, 2} : <<q, i>> # TokenOf(r) /\ <<q, i>> \in Token
  <2> SUFFICES ASSUME NEW r \in Run, NEW q \in Run, q # r, NEW i \in {1, 2}
               PROVE <<q, i>> # TokenOf(r) /\ <<q, i>> \in Token
    OBVIOUS
  <2>1. <<q, i>> \in Token
    BY DEF Token
  <2>2. <<q, i>> # <<r, try[r]>>
    OBVIOUS
  <2> QED
    BY <1>0, <2>1, <2>2
<1>1. ASSUME NEW r \in Run, Elsewhere(r), FitsAt(r)'
      PROVE Fits'
  <2> SUFFICES ASSUME NEW q \in Run, q # r PROVE FitsAt(q)'
    BY <1>1 DEF Fits
  <2>1. FitsAt(q) /\ try[q] \in {1, 2}
    BY <1>0 DEF Fits
  <2>2. /\ pc'[q] = pc[q] /\ try'[q] = try[q] /\ stage'[q] = stage[q]
        /\ began'[<<q, 1>>] = began[<<q, 1>>] /\ began'[<<q, 2>>] = began[<<q, 2>>]
        /\ granted'[<<q, 1>>] = granted[<<q, 1>>] /\ granted'[<<q, 2>>] = granted[<<q, 2>>]
        /\ <<q, 1>> \in used' <=> <<q, 1>> \in used
        /\ <<q, 2>> \in used' <=> <<q, 2>> \in used
    BY <1>1
  <2> QED
    BY <2>1, <2>2 DEF FitsAt, Active, TokenOf
<1>2. PICK l : l = Load
  OBVIOUS
<1>3. l \in LedgerType /\ l.epoch # 0 /\ l.epoch \in Epoch
  BY <1>2, LoadSound DEF LedgerType
<1>4. \A r \in Run : FitsAt(r)
  BY <1>0 DEF Fits
<1>5. ASSUME NEW r \in Run, Start(r)
      PROVE Fits'
  <2>1. /\ pc[r] = "new" /\ pc' = [pc EXCEPT ![r] = "check"]
        /\ \E s \in Stage : stage' = [stage EXCEPT ![r] = s]
        /\ UNCHANGED <<try, began, granted, used>>
    BY <1>5 DEF Start, At, Goto, historyVars
  <2>2. Elsewhere(r)
    BY <1>0, <2>1
  <2>3. FitsAt(r)'
    BY <1>0, <1>4, <2>1 DEF FitsAt, Active, TokenOf
  <2> QED
    BY <1>1, <2>2, <2>3
<1>6. ASSUME NEW r \in Run, Check(r)
      PROVE Fits'
  <2>1. /\ pc[r] = "check" /\ UNCHANGED <<stage, try, began, granted, used>>
        /\ \E label \in {"over", "consume", "begin"} :
             pc' = [pc EXCEPT ![r] = label] /\ (label = "consume" => stage[r] \in Budgeted)
    BY <1>6 DEF Check, At, Goto, runVars, historyVars
  <2>2. Elsewhere(r)
    BY <1>0, <2>1
  <2>3. FitsAt(r)'
    BY <1>0, <1>4, <2>1 DEF FitsAt, Active, TokenOf
  <2> QED
    BY <1>1, <2>2, <2>3
<1>7. ASSUME NEW r \in Run, Consume(r)
      PROVE Fits'
  <2>1. /\ pc[r] = "consume" /\ UNCHANGED <<stage, try, began, used>>
        /\ \E label \in {"over", "begin"} : pc' = [pc EXCEPT ![r] = label]
        /\ granted' = granted \/ \E epoch : granted' = [granted EXCEPT ![TokenOf(r)] = epoch]
    BY <1>7 DEF Consume, Take, At, Goto, runVars
  <2>2. Elsewhere(r)
    <3>1. \A q \in Run \ {r} : \A i \in {1, 2} : granted'[<<q, i>>] = granted[<<q, i>>]
      BY <1>0, <1>t, <2>1
    <3> QED
      BY <1>0, <2>1, <3>1
  <2>3. FitsAt(r)'
    BY <1>0, <1>4, <2>1 DEF FitsAt, Active, TokenOf
  <2> QED
    BY <1>1, <2>2, <2>3
<1>8. ASSUME NEW r \in Run, Begin(r)
      PROVE Fits'
  <2>1. /\ pc[r] = "begin" /\ UNCHANGED <<stage, try, granted, used>>
        /\ pc' = [pc EXCEPT ![r] = "work"] /\ began' = [began EXCEPT ![TokenOf(r)] = l.epoch]
    BY <1>2, <1>8 DEF Begin, At, Goto, runVars
  <2>2. Elsewhere(r)
    BY <1>0, <1>t, <2>1
  <2>3. FitsAt(r)'
    <3>1. began'[TokenOf(r)] = l.epoch /\ (try[r] = 1 => began'[<<r, 2>>] = began[<<r, 2>>])
      <4>1. began'[TokenOf(r)] = l.epoch
        BY <1>0, <2>1
      <4>2. ASSUME try[r] = 1 PROVE began'[<<r, 2>>] = began[<<r, 2>>]
        <5>1. TokenOf(r) = <<r, 1>> /\ <<r, 1>> # <<r, 2>> /\ <<r, 2>> \in Token
          BY <1>0, <4>2
        <5> QED
          BY <1>0, <2>1, <5>1
      <4> QED
        BY <4>1, <4>2
    <3>2. pc'[r] = "work" /\ TokenOf(r)' = TokenOf(r)
      BY <1>0, <2>1 DEF TokenOf
    <3>3. FitsAt(r)
      BY <1>4
    <3> QED
      BY <1>3, <2>1, <3>1, <3>2, <3>3 DEF FitsAt
  <2> QED
    BY <1>1, <2>2, <2>3
<1>9. ASSUME NEW r \in Run, Return(r)
      PROVE Fits'
  <2>1. /\ pc[r] = "work" /\ UNCHANGED <<stage, try, began, granted, used>>
        /\ \E label \in {"usage", "end"} : pc' = [pc EXCEPT ![r] = label]
    BY <1>9 DEF Return, At, Goto, runVars
  <2>2. Elsewhere(r)
    BY <1>0, <2>1
  <2>3. FitsAt(r)'
    BY <1>0, <1>4, <2>1 DEF FitsAt, Active, TokenOf
  <2> QED
    BY <1>1, <2>2, <2>3
<1>10. ASSUME NEW r \in Run, RecordUsage(r)
       PROVE Fits'
  <2>1. /\ pc[r] = "usage" /\ UNCHANGED <<stage, try, began, granted>>
        /\ \E label \in {"end", "sign"} : pc' = [pc EXCEPT ![r] = label]
        /\ used' = used \cup {TokenOf(r)}
    BY <1>10 DEF RecordUsage, At, Goto, runVars
  <2>2. Elsewhere(r)
    BY <1>0, <1>t, <2>1
  <2>3. FitsAt(r)'
    BY <1>0, <1>4, <2>1 DEF FitsAt, Active, TokenOf
  <2> QED
    BY <1>1, <2>2, <2>3
<1>11. ASSUME NEW r \in Run, RegisterSignature(r)
       PROVE Fits'
  <2>1. /\ pc[r] = "sign" /\ UNCHANGED <<stage, try, began, granted, used>>
        /\ pc' = [pc EXCEPT ![r] = "end"]
    BY <1>11 DEF RegisterSignature, At, Goto, runVars, historyVars
  <2>2. Elsewhere(r)
    BY <1>0, <2>1
  <2>3. FitsAt(r)'
    BY <1>0, <1>4, <2>1 DEF FitsAt, Active, TokenOf
  <2> QED
    BY <1>1, <2>2, <2>3
<1>12. ASSUME NEW r \in Run, End(r)
       PROVE Fits'
  <2>1. /\ pc[r] = "end" /\ UNCHANGED <<stage, began, granted, used>>
        /\ \/ pc' = [pc EXCEPT ![r] = "over"] /\ try' = try
           \/ /\ try[r] = 1 /\ try' = [try EXCEPT ![r] = 2]
              /\ \E label \in {"check", "begin"} : pc' = [pc EXCEPT ![r] = label]
    BY <1>12 DEF End, At, Goto, historyVars
  <2>2. Elsewhere(r)
    BY <1>0, <2>1
  <2>3. FitsAt(r)'
    BY <1>0, <1>4, <2>1 DEF FitsAt, Active, TokenOf
  <2> QED
    BY <1>1, <2>2, <2>3
<1>13. ASSUME NEW r \in Run, Kill(r)
       PROVE Fits'
  <2>1. pc' = [pc EXCEPT ![r] = "dead"] /\ UNCHANGED <<stage, try, began, granted, used>>
    BY <1>13 DEF Kill, Goto, runVars, historyVars
  <2>2. Elsewhere(r)
    BY <1>0, <2>1
  <2>3. FitsAt(r)'
    BY <1>0, <1>4, <2>1 DEF FitsAt, Active, TokenOf
  <2> QED
    BY <1>1, <2>2, <2>3
<1>14. ASSUME UNCHANGED <<pc, stage, try, began, granted, used>>
       PROVE Fits'
  BY <1>0, <1>14 DEF Fits, FitsAt, Active, TokenOf
<1> QED
  BY <1>5, <1>6, <1>7, <1>8, <1>9, <1>10, <1>11, <1>12, <1>13, <1>14
     DEF Next, Thread, ClearStall, ReadStalls, Reset, SettleEpoch, RecordProgress, Idle,
         vars, runVars, historyVars

-----------------------------------------------------------------------------
(* Every step leaves the ledger sound. *)

\* begin adds an entry for a try that is open, and closes none.
LEMMA BeginSound ==
  ASSUME LInv, NEW r \in Run, Begin(r)
  PROVE Sound(ledger)'
<1>0. TypeOK /\ Fits /\ TokenOf(r) \in Token
  BY TokenType DEF LInv
<1>1. PICK l : l = Load
  OBVIOUS
<1>2. l \in LedgerType /\ l.epoch # 0 /\ l.epoch \in Epoch /\ Sound(l)
  BY <1>1, LoadSound DEF LedgerType
<1>t. PICK tok : tok = TokenOf(r)
  OBVIOUS
<1> DEFINE entry == [token |-> tok, epoch |-> l.epoch]
<1>3. PICK m : m = [l EXCEPT !.inFlight = l.inFlight \cup {entry}]
  OBVIOUS
<1>4. /\ pc[r] = "begin" /\ Goto(r, "work") /\ ledger' = m
      /\ began' = [began EXCEPT ![tok] = l.epoch]
      /\ UNCHANGED <<stage, piece, key, forced, try, measured, used, granted>>
  BY <1>1, <1>2, <1>3, <1>t DEF Begin, At, Write, runVars, LedgerType
<1>5. /\ m.epoch = l.epoch /\ m.inFlight = l.inFlight \cup {entry} /\ m.runtime = l.runtime
      /\ m.account = l.account /\ m.attempts = l.attempts /\ m.total = l.total
  BY <1>2, <1>3 DEF LedgerType
<1>6. /\ pc' = [pc EXCEPT ![r] = "work"] /\ pc \in [Run -> Label] /\ try \in [Run -> {1, 2}]
      /\ began \in [Token -> Epoch] /\ measured \subseteq Token /\ l.inFlight \subseteq Entry
  BY <1>0, <1>2, <1>4 DEF Goto, TypeOK, LedgerType
<1>7. began[tok] = 0
  BY <1>0, <1>4, <1>t DEF Fits, FitsAt
<1>8. \A t \in Token : t # tok => began'[t] = began[t] /\ (Closed(t)' <=> Closed(t))
  <2> SUFFICES ASSUME NEW t \in Token, t # tok
               PROVE began'[t] = began[t] /\ (Closed(t)' <=> Closed(t))
    OBVIOUS
  <2>1. PICK s \in Run, i \in {1, 2} : t = <<s, i>> /\ t[1] = s /\ t[2] = i
    BY DEF Token
  <2>2. began'[t] = began[t]
    BY <1>4, <1>6
  <2> QED
    BY <1>4, <1>6, <2>1, <2>2 DEF Closed
<1>9. began'[tok] = l.epoch /\ ~Closed(tok) /\ ~Closed(tok)'
  <2>1. tok = <<r, try[r]>> /\ tok \in Token /\ tok[1] = r /\ tok[2] = try[r]
    BY <1>0, <1>t DEF TokenOf
  <2> QED
    BY <1>4, <1>6, <1>7, <2>1 DEF Closed
<1>10. \A t \in Token : began'[t] <= l.epoch
  BY <1>2, <1>8, <1>9 DEF Sound, Kept, Epoch
<1>11. EntriesMatch(m)'
  <2> SUFFICES ASSUME NEW e \in m.inFlight
               PROVE e.epoch = m.epoch /\ began'[e.token] = m.epoch /\ ~Closed(e.token)'
    BY DEF EntriesMatch
  <2>1. CASE e = entry
    BY <1>5, <1>9, <2>1
  <2>2. CASE e \in l.inFlight
    <3>1. e.epoch = l.epoch /\ began[e.token] = l.epoch /\ ~Closed(e.token) /\ e.token \in Token
      BY <1>2, <1>6, <2>2 DEF Sound, Kept, EntriesMatch, Entry
    <3>2. e.token # tok
      BY <1>2, <1>7, <3>1
    <3> QED
      BY <1>5, <1>8, <3>1, <3>2
  <2> QED
    BY <1>5, <2>1, <2>2
<1>12. ActiveEntered(m)'
  <2> SUFFICES ASSUME NEW q \in Run, Active(q)', began'[TokenOf(q)'] = m.epoch
               PROVE \E e \in m.inFlight : e.token = TokenOf(q)'
    BY DEF ActiveEntered
  <2>1. TokenOf(q)' = TokenOf(q) /\ TokenOf(q) \in Token
    BY <1>0, <1>4, TokenType DEF TokenOf
  <2>2. CASE q = r
    <3>1. entry \in m.inFlight /\ entry.token = tok
      BY <1>5
    <3>2. tok = TokenOf(q)'
      BY <1>t, <2>1, <2>2
    <3> QED
      BY <3>1, <3>2
  <2>3. CASE q # r
    <3>1. TokenOf(q) # tok /\ Active(q)
      BY <1>4, <1>6, <1>t, <2>3 DEF TokenOf, Active
    <3>2. began[TokenOf(q)] = l.epoch
      BY <1>5, <1>8, <2>1, <3>1
    <3> QED
      BY <1>2, <1>5, <2>1, <3>1, <3>2 DEF Sound, Kept, ActiveEntered
  <2> QED
    BY <2>2, <2>3
<1>13. Spent(m.epoch)' = Spent(l.epoch)
  <2>1. Spent(m.epoch)' = {t \in measured : began'[t] = l.epoch /\ Closed(t)'}
    BY <1>4, <1>5 DEF Spent
  <2>2. \A t \in measured : (began'[t] = l.epoch /\ Closed(t)') <=> (began[t] = l.epoch /\ Closed(t))
    BY <1>6, <1>8, <1>9
  <2> QED
    BY <2>1, <2>2 DEF Spent
<1>14. (ForcedOnce(m.epoch) \/ InBudget(m))'
  BY <1>2, <1>4, <1>5 DEF Sound, ForcedOnce, InBudget
<1>15. Sound(m)'
  BY <1>2, <1>4, <1>5, <1>10, <1>11, <1>12, <1>13, <1>14 DEF Sound, Kept
<1> QED
  BY <1>4, <1>15, OnDisk

\* The end of a run closes its try, and that alone: it is charged for it if it is still entered.
LEMMA EndSound ==
  ASSUME LInv, NEW r \in Run, End(r)
  PROVE Sound(ledger)'
<1>0. TypeOK /\ Fits /\ TokenOf(r) \in Token
  BY TokenType DEF LInv
<1>1. PICK l : l = Load
  OBVIOUS
<1>2. l \in LedgerType /\ l.epoch # 0 /\ l.runtime \in Nat /\ Sound(l)
  BY <1>1, LoadSound DEF LedgerType
<1> DEFINE charge == IF TokenOf(r) \in measured THEN 1 ELSE 0
<1>3. PICK m : m = Ended(l, TokenOf(r), charge)
  OBVIOUS
<1>4. /\ pc[r] = "end" /\ ledger' = m
      /\ UNCHANGED <<stage, forced, began, measured, used, granted>>
      /\ \/ pc' = [pc EXCEPT ![r] = "over"] /\ try' = try
         \/ /\ try[r] = 1 /\ try' = [try EXCEPT ![r] = 2]
            /\ \E label \in {"check", "begin"} : pc' = [pc EXCEPT ![r] = label]
  BY <1>1, <1>3 DEF End, At, Goto, Write, historyVars
<1>5. /\ m.epoch = l.epoch /\ m.account = l.account /\ m.attempts = l.attempts /\ m.total = l.total
      /\ m.inFlight = l.inFlight \ Entries(l, TokenOf(r))
      /\ m.runtime = IF \E e \in Entries(l, TokenOf(r)) : e.epoch = l.epoch
                     THEN l.runtime + charge ELSE l.runtime
  BY <1>2, <1>3, EndedType
<1>6. /\ pc \in [Run -> Label] /\ try \in [Run -> {1, 2}] /\ began \in [Token -> Epoch]
      /\ measured \subseteq Token /\ l.inFlight \subseteq Entry
  BY <1>0, <1>2 DEF TypeOK, LedgerType
<1>7. began[TokenOf(r)] # 0 /\ (try[r] = 1 => began[<<r, 2>>] = 0)
  BY <1>0, <1>4 DEF Fits, FitsAt, Active
<1>8. \A t \in Token : Closed(t)' <=> Closed(t) \/ t = TokenOf(r)
  <2> SUFFICES ASSUME NEW t \in Token
               PROVE Closed(t)' <=> Closed(t) \/ t = TokenOf(r)
    OBVIOUS
  <2>1. PICK s \in Run, i \in {1, 2} : t = <<s, i>> /\ t[1] = s /\ t[2] = i
    BY DEF Token
  <2>2. CASE s # r
    BY <1>4, <1>6, <2>1, <2>2 DEF Closed, TokenOf
  <2>3. CASE s = r /\ i = try[r]
    BY <1>4, <1>6, <1>7, <2>1, <2>3 DEF Closed, TokenOf
  <2>4. CASE s = r /\ i # try[r]
    BY <1>4, <1>6, <1>7, <2>1, <2>4 DEF Closed, TokenOf
  <2> QED
    BY <2>2, <2>3, <2>4
<1>9. ~Closed(TokenOf(r))
  BY <1>4, <1>6 DEF Closed, TokenOf
<1>10. EntriesMatch(m)'
  <2> SUFFICES ASSUME NEW e \in m.inFlight
               PROVE e.epoch = m.epoch /\ began'[e.token] = m.epoch /\ ~Closed(e.token)'
    BY DEF EntriesMatch
  <2>1. e \in l.inFlight /\ e.token # TokenOf(r) /\ e.token \in Token
    BY <1>5, <1>6 DEF Entries, Entry
  <2>2. e.epoch = l.epoch /\ began[e.token] = l.epoch /\ ~Closed(e.token)
    BY <1>2, <2>1 DEF Sound, Kept, EntriesMatch
  <2> QED
    BY <1>4, <1>5, <1>8, <2>1, <2>2
<1>11. ActiveEntered(m)'
  <2> SUFFICES ASSUME NEW q \in Run, Active(q)', began'[TokenOf(q)'] = m.epoch
               PROVE \E e \in m.inFlight : e.token = TokenOf(q)'
    BY DEF ActiveEntered
  <2>1. q # r
    BY <1>4, <1>6 DEF Active
  <2>2. Active(q) /\ TokenOf(q)' = TokenOf(q) /\ TokenOf(q) # TokenOf(r)
    BY <1>4, <1>6, <2>1 DEF Active, TokenOf
  <2>3. PICK e \in l.inFlight : e.token = TokenOf(q)
    BY <1>2, <1>4, <1>5, <2>2 DEF Sound, Kept, ActiveEntered
  <2> QED
    BY <1>5, <2>2, <2>3 DEF Entries
<1>12. Spent(m.epoch)' = {t \in measured : began[t] = l.epoch /\ (Closed(t) \/ t = TokenOf(r))}
  BY <1>4, <1>5, <1>6, <1>8 DEF Spent
<1>13. IsFiniteSet(Spent(l.epoch)) /\ TokenOf(r) \notin Spent(l.epoch)
  BY <1>0, <1>9, TokensFinite, FS_Subset DEF Spent
<1>14. l.runtime = Cardinality(Spent(l.epoch))
  BY <1>2 DEF Sound, Kept
<1>15. m.runtime = Cardinality(Spent(m.epoch)')
  <2>1. CASE began[TokenOf(r)] = l.epoch /\ TokenOf(r) \in measured
    <3>1. PICK e \in l.inFlight : e.token = TokenOf(r)
      BY <1>2, <1>4, <2>1 DEF Sound, Kept, ActiveEntered, Active
    <3>2. e.epoch = l.epoch
      BY <1>2 DEF Sound, Kept, EntriesMatch
    <3>3. m.runtime = l.runtime + 1
      BY <1>5, <2>1, <3>1, <3>2 DEF Entries
    <3>4. Spent(m.epoch)' = Spent(l.epoch) \cup {TokenOf(r)}
      BY <1>12, <2>1 DEF Spent
    <3> QED
      BY <1>13, <1>14, <3>3, <3>4, FS_AddElement
  <2>2. CASE ~(began[TokenOf(r)] = l.epoch /\ TokenOf(r) \in measured)
    <3>1. Spent(m.epoch)' = Spent(l.epoch)
      BY <1>12, <2>2 DEF Spent
    <3>2. began[TokenOf(r)] # l.epoch => Entries(l, TokenOf(r)) = {}
      BY <1>2 DEF Sound, Kept, EntriesMatch, Entries
    <3>3. m.runtime = l.runtime
      BY <1>2, <1>5, <2>2, <3>2
    <3> QED
      BY <1>14, <3>1, <3>3
  <2> QED
    BY <2>1, <2>2
<1>16. (ForcedOnce(m.epoch) \/ InBudget(m))'
  BY <1>2, <1>4, <1>5 DEF Sound, ForcedOnce, InBudget
<1>17. Sound(m)'
  BY <1>2, <1>4, <1>5, <1>10, <1>11, <1>15, <1>16 DEF Sound, Kept
<1> QED
  BY <1>4, <1>17, OnDisk

\* An attempt is taken by force, or while the budget has one left.
LEMMA ConsumeSound ==
  ASSUME LInv, NEW r \in Run, NEW next \in {"begin", "over"}, Consume(r), Take(r, Load, next),
         forced[r] \/ ~Refuses(Load, stage[r], PieceOf(r), key[r])
  PROVE Sound(ledger)'
<1>0. TypeOK /\ Fits /\ TokenOf(r) \in Token /\ next \in Label
  BY TokenType DEF LInv, Label
<1>1. PICK l : l = Load
  OBVIOUS
<1>2. l \in LedgerType /\ l.epoch # 0 /\ Sound(l)
  BY <1>1, LoadSound
<1>3. PICK m : m = ledger'
  OBVIOUS
<1>4. /\ m.epoch = l.epoch /\ m.inFlight = l.inFlight /\ m.runtime = l.runtime
      /\ m.account = l.account /\ m.total = l.total + 1
      /\ m.attempts = [l.attempts EXCEPT ![stage[r]] =
           IF Spends(l, stage[r], PieceOf(r), key[r]) THEN l.attempts[stage[r]] + 1 ELSE l.attempts[stage[r]]]
      /\ granted' = [granted EXCEPT ![TokenOf(r)] = l.epoch] /\ Goto(r, next)
  BY <1>0, <1>1, <1>3, TakeType DEF Goto
<1>5. /\ pc[r] = "consume" /\ stage[r] \in Budgeted
      /\ UNCHANGED <<stage, piece, key, forced, try, began, measured, used>>
  BY <1>0 DEF Consume, At, runVars, Fits, FitsAt
<1>6. Kept(l)'
  <2>1. pc' = [pc EXCEPT ![r] = next] /\ pc \in [Run -> Label] /\ measured \subseteq Token
    BY <1>0, <1>4 DEF Goto, TypeOK
  <2>2. Active(r)' => Active(r)
    BY <2>1 DEF Active
  <2> QED
    BY <1>0, <1>2, <1>4, <1>5, <2>1, <2>2, MovesOn DEF Sound
<1>7. Kept(m)'
  BY <1>4, <1>6 DEF Kept, EntriesMatch, ActiveEntered
<1>8. granted \in [Token -> Epoch] /\ l.attempts \in [Stage -> Nat] /\ l.total \in Nat
  BY <1>0, <1>2 DEF TypeOK, LedgerType
<1>9. CASE forced[r]
  <2>1. granted'[TokenOf(r)] = l.epoch /\ TokenOf(r)[1] = r
    BY <1>0, <1>4, <1>8 DEF TokenOf
  <2>2. PICK t \in Token : t = TokenOf(r)
    BY <1>0
  <2>3. granted'[t] = m.epoch /\ granted'[t] # 0 /\ forced'[t[1]]
    BY <1>2, <1>4, <1>5, <1>9, <2>1, <2>2
  <2>4. ForcedOnce(m.epoch)'
    BY <2>3 DEF ForcedOnce
  <2> QED
    BY <1>3, <1>7, <2>4, OnDisk DEF Sound
<1>10. CASE ~forced[r] /\ ForcedOnce(l.epoch)
  <2>1. PICK t \in Token : granted[t] = l.epoch /\ granted[t] # 0 /\ forced[t[1]]
    BY <1>10 DEF ForcedOnce
  <2>2. granted'[t] = l.epoch
    BY <1>4, <1>8, <2>1
  <2>3. ForcedOnce(m.epoch)'
    BY <1>4, <1>5, <2>1, <2>2 DEF ForcedOnce
  <2> QED
    BY <1>3, <1>7, <2>3, OnDisk DEF Sound
<1>11. CASE ~forced[r] /\ InBudget(l)
  <2>1. ~Refuses(l, stage[r], PieceOf(r), key[r])
    BY <1>1, <1>11
  <2>2. /\ Spends(l, stage[r], PieceOf(r), key[r]) => ~(l.attempts[stage[r]] >= Limit[stage[r]])
        /\ ~(l.total >= TotalLimit)
    BY <1>5, <2>1 DEF Refuses
  <2>3. Limit \in [Budgeted -> Nat] /\ TotalLimit \in Nat /\ Budgeted \subseteq Stage
    BY LedgerConstantsOK
  <2>4. m.total <= TotalLimit
    BY <1>4, <1>8, <2>2, <2>3
  <2>5. ASSUME NEW s \in Budgeted PROVE m.attempts[s] <= Limit[s]
    <3>1. l.attempts[s] <= Limit[s] /\ l.attempts[s] \in Nat /\ Limit[s] \in Nat /\ s \in Stage
      BY <1>8, <1>11, <2>3 DEF InBudget
    <3>2. CASE s = stage[r] /\ Spends(l, stage[r], PieceOf(r), key[r])
      BY <1>4, <1>8, <2>2, <3>1, <3>2
    <3>3. CASE ~(s = stage[r] /\ Spends(l, stage[r], PieceOf(r), key[r]))
      BY <1>4, <1>8, <3>1, <3>3
    <3> QED
      BY <3>2, <3>3
  <2>6. InBudget(m)'
    BY <2>4, <2>5 DEF InBudget
  <2> QED
    BY <1>3, <1>7, <2>6, OnDisk DEF Sound
<1> QED
  BY <1>2, <1>9, <1>10, <1>11 DEF Sound

\* Every step leaves the ledger on disk sound: the one read is, and so is what is written.
LEMMA SoundStep == ASSUME LInv, [Next]_vars PROVE Sound(ledger)'
<1>0. /\ TypeOK /\ Fits /\ pc \in [Run -> Label] /\ forced \in [Run -> BOOLEAN]
      /\ measured \subseteq Token /\ \A r \in Run : TokenOf(r) \in Token
  BY TokenType DEF LInv, TypeOK
<1>1. PICK l : l = Load
  OBVIOUS
<1>2. l \in LedgerType /\ Sound(l) /\ Kept(l)
  BY <1>1, LoadSound DEF Sound
<1>3. PICK d : d = ledger
  OBVIOUS
<1>4. d \in LedgerType /\ Sound(d) /\ Kept(d)
  BY <1>0, <1>3 DEF LInv, TypeOK, Sound
<1>5. ASSUME NEW r \in Run, Start(r)
      PROVE Sound(ledger)'
  <2>1. /\ pc[r] = "new" /\ Goto(r, "check") /\ \E force \in BOOLEAN : forced' = [forced EXCEPT ![r] = force]
        /\ ledger' = d /\ UNCHANGED <<try, began, measured, used, granted>>
    BY <1>3, <1>5 DEF Start, At, ledgerVars, historyVars
  <2>2. "check" \in Label /\ ~Active(r)'
    BY <1>0, <2>1 DEF Label, Goto, Active
  <2>3. Kept(d)'
    BY <1>0, <1>4, <2>1, <2>2, MovesOn
  <2>4. ASSUME NEW t \in Token, granted[t] # 0 PROVE forced'[t[1]] = forced[t[1]]
    <3>1. PICK s \in Run, i \in {1, 2} : t = <<s, i>> /\ t[1] = s
      BY DEF Token
    <3>2. s # r
      BY <1>0, <2>1, <2>4, <3>1 DEF Fits, FitsAt
    <3> QED
      BY <1>0, <2>1, <3>1, <3>2
  <2>5. (ForcedOnce(d.epoch) \/ InBudget(d))'
    BY <1>4, <2>1, <2>4, ForcedStays DEF Sound
  <2> QED
    BY <2>1, <2>3, <2>5, OnDisk DEF Sound
<1>6. ASSUME NEW r \in Run, NEW m \in LedgerType, Sound(m), NEW label \in Label, Goto(r, label),
             pc[r] # "over", label = "over" => pc[r] \in {"check", "consume"},
             label \in {"work", "usage", "sign", "end"} => Active(r),
             UNCHANGED <<try, began, used, granted, forced>>, ledger' = m,
             pc[r] # "work" => measured' = measured,
             pc[r] = "work" => measured' \in {measured, measured \cup {TokenOf(r)}}
      PROVE Sound(ledger)'
  <2>1. Kept(m)
    BY <1>6 DEF Sound
  <2>2. ASSUME pc[r] = "work" PROVE ~Closed(TokenOf(r))
    BY <1>0, <2>2 DEF Closed, TokenOf, TypeOK
  <2>3. /\ \A t \in measured : t \in measured'
        /\ \A t \in measured' : t \in Token /\ (t \in measured \/ ~Closed(t))
    BY <1>0, <1>6, <2>2
  <2>4. Kept(m)'
    <3>1. Active(r)' => Active(r)
      BY <1>0, <1>6 DEF Goto, Active
    <3> QED
      BY <1>0, <1>6, <2>1, <2>3, <3>1, MovesOn
  <2>5. (ForcedOnce(m.epoch) \/ InBudget(m))'
    BY <1>6, ForcedStays DEF Sound
  <2> QED
    BY <1>6, <2>4, <2>5, OnDisk DEF Sound
<1>7. ASSUME NEW r \in Run, Check(r)
      PROVE Sound(ledger)'
  <2>1. /\ pc[r] = "check" /\ ledger' = d
        /\ UNCHANGED <<try, began, used, granted, forced>> /\ measured' = measured
        /\ \E label \in {"over", "consume", "begin"} : Goto(r, label)
    BY <1>3, <1>7 DEF Check, At, ledgerVars, runVars, historyVars
  <2>2. PICK label \in {"over", "consume", "begin"} : Goto(r, label)
    BY <2>1
  <2>3. label \in Label /\ label \notin {"work", "usage", "sign", "end"}
    BY DEF Label
  <2> QED
    BY <1>4, <1>6, <2>1, <2>2, <2>3
<1>8. ASSUME NEW r \in Run, Consume(r)
      PROVE Sound(ledger)'
  <2>1. CASE Goto(r, "over") /\ UNCHANGED <<ledgerVars, granted>>
    <3>1. /\ pc[r] = "consume" /\ ledger' = d
          /\ UNCHANGED <<try, began, used, granted, forced>> /\ measured' = measured
      BY <1>3, <1>8, <2>1 DEF Consume, At, ledgerVars, runVars
    <3>2. PICK label \in Label : label = "over" /\ Goto(r, label)
      BY <2>1 DEF Label
    <3> QED
      BY <1>4, <1>6, <2>1, <3>1, <3>2
  <2>2. CASE ~(Goto(r, "over") /\ UNCHANGED <<ledgerVars, granted>>)
    <3>1. PICK next \in {"begin", "over"} : Take(r, Load, next)
      BY <1>8, <2>2 DEF Consume
    <3>2. forced[r] \/ ~Refuses(Load, stage[r], PieceOf(r), key[r])
      BY <1>8, <2>2 DEF Consume
    <3> QED
      BY <1>8, <3>1, <3>2, ConsumeSound
  <2> QED
    BY <2>1, <2>2
<1>9. ASSUME NEW r \in Run, Return(r)
      PROVE Sound(ledger)'
  <2>1. /\ pc[r] = "work" /\ ledger' = d /\ UNCHANGED <<try, began, used, granted, forced>>
        /\ measured' \in {measured, measured \cup {TokenOf(r)}}
        /\ \E label \in {"usage", "end"} : Goto(r, label)
    BY <1>3, <1>9 DEF Return, At, ledgerVars, runVars
  <2>2. PICK label \in {"usage", "end"} : Goto(r, label)
    BY <2>1
  <2>3. label \in Label /\ Active(r)
    BY <2>1 DEF Label, Active
  <2> QED
    BY <1>4, <1>6, <2>1, <2>2, <2>3
<1>10. ASSUME NEW r \in Run, RecordUsage(r)
       PROVE Sound(ledger)'
  <2>1. PICK m : m = [l EXCEPT !.account = l.account + 1]
    OBVIOUS
  <2>2. /\ pc[r] = "usage" /\ ledger' = m /\ used' = used \cup {TokenOf(r)}
        /\ UNCHANGED <<try, began, granted, forced, measured>>
        /\ \E label \in {"end", "sign"} : Goto(r, label)
    BY <1>1, <1>2, <1>10, <2>1 DEF RecordUsage, At, Write, runVars, LedgerType
  <2>3. PICK label \in {"end", "sign"} : Goto(r, label)
    BY <2>2
  <2>4. label \in Label /\ Active(r)
    BY <2>2 DEF Label, Active
  <2>5. /\ m.epoch = l.epoch /\ m.inFlight = l.inFlight /\ m.runtime = l.runtime
        /\ m.account = l.account + 1 /\ m.attempts = l.attempts /\ m.total = l.total
    BY <1>2, <2>1 DEF LedgerType
  <2>6. Cardinality(used') = Cardinality(used) + 1
    <3>1. TokenOf(r) \notin used
      BY <1>0, <2>2 DEF Fits, FitsAt
    <3> QED
      BY <1>0, <2>2, <3>1, TokensFinite, FS_AddElement
  <2>7. \A t \in Token : Closed(t)' <=> Closed(t)
    BY <1>0, <2>2, <2>3, <2>4, ClosedStays
  <2>8. \A q \in Run : Active(q)' => Active(q) /\ TokenOf(q)' = TokenOf(q)
    BY <1>0, <2>2, <2>3, <2>4 DEF Goto, Active, TokenOf
  <2>9. EntriesMatch(m)'
    <3> SUFFICES ASSUME NEW e \in m.inFlight
                 PROVE e.epoch = m.epoch /\ began'[e.token] = m.epoch /\ ~Closed(e.token)'
      BY DEF EntriesMatch
    <3>1. e \in l.inFlight /\ e.token \in Token
      BY <1>2, <2>5 DEF LedgerType, Entry
    <3> QED
      BY <1>2, <2>2, <2>5, <2>7, <3>1 DEF Kept, EntriesMatch
  <2>10. ActiveEntered(m)'
    BY <1>2, <2>2, <2>5, <2>8 DEF Kept, ActiveEntered
  <2>11. Spent(m.epoch)' = Spent(l.epoch)
    BY <1>0, <2>2, <2>5, <2>7 DEF Spent
  <2>12. Kept(m)'
    BY <1>2, <2>2, <2>5, <2>6, <2>9, <2>10, <2>11 DEF Kept
  <2>13. (ForcedOnce(m.epoch) \/ InBudget(m))'
    BY <1>2, <2>2, <2>5 DEF Sound, ForcedOnce, InBudget
  <2> QED
    BY <2>2, <2>12, <2>13, OnDisk DEF Sound
<1>11. ASSUME NEW r \in Run, RegisterSignature(r)
       PROVE Sound(ledger)'
  <2>1. PICK value \in Signature, repeatable \in BOOLEAN : ledger' = Signed(l, stage[r], value, repeatable)
    BY <1>1, <1>11 DEF RegisterSignature, Write
  <2>2. PICK m : m = Signed(l, stage[r], value, repeatable)
    OBVIOUS
  <2>3. stage[r] \in Stage
    BY <1>0 DEF TypeOK
  <2>4. m \in LedgerType /\ Sound(m)
    BY <1>2, <2>2, <2>3, SignedType, SameFields
  <2>5. /\ pc[r] = "sign" /\ Goto(r, "end")
        /\ UNCHANGED <<try, began, used, granted, forced>> /\ measured' = measured
    BY <1>11 DEF RegisterSignature, At, runVars, historyVars
  <2>6. PICK label \in Label : label = "end" /\ Goto(r, label)
    BY <2>5 DEF Label
  <2>7. Active(r)
    BY <2>5 DEF Active
  <2> QED
    BY <1>6, <2>1, <2>2, <2>4, <2>5, <2>6, <2>7
<1>12. ASSUME NEW r \in Run, Kill(r)
       PROVE Sound(ledger)'
  <2>1. /\ pc[r] # "over" /\ Goto(r, "dead") /\ ledger' = d
        /\ UNCHANGED <<try, began, used, granted, forced>> /\ measured' = measured
    BY <1>3, <1>12 DEF Kill, ledgerVars, runVars, historyVars
  <2>2. PICK label \in Label : label = "dead" /\ Goto(r, label)
    BY <2>1 DEF Label
  <2> QED
    BY <1>4, <1>6, <2>1, <2>2
<1>13. ASSUME NEW m \in LedgerType, Sound(m), ledger' = m,
              UNCHANGED <<pc, forced, try, began, used, granted, measured>>
       PROVE Sound(ledger)'
  BY <1>0, <1>13, RunsStay, OnDisk
<1>14. ASSUME NEW a \in Actor, ClearStall(a)
       PROVE Sound(ledger)'
  <2>1. UNCHANGED <<pc, forced, try, began, used, granted, measured>>
    BY <1>14 DEF ClearStall, runVars, historyVars
  <2>2. CASE ledger' = d
    BY <1>4, <1>13, <2>1, <2>2
  <2>3. CASE ledger' # d
    <3>1. PICK t \in seen[a] : Gone(t[1]) /\ ledger' = Ended(l, t, 0)
      BY <1>1, <1>3, <1>14, <2>3 DEF ClearStall, ledgerVars, Write
    <3>2. PICK m : m = Ended(l, t, 0)
      OBVIOUS
    <3>3. /\ m \in LedgerType /\ m.epoch = l.epoch /\ m.account = l.account
          /\ m.attempts = l.attempts /\ m.total = l.total
          /\ m.inFlight = l.inFlight \ Entries(l, t) /\ m.runtime = l.runtime
      <4>1. l.runtime \in Nat /\ l.runtime + 0 = l.runtime
        BY <1>2 DEF LedgerType
      <4> QED
        BY <1>2, <3>2, <4>1, EndedType
    <3>4. EntriesMatch(m)
      BY <1>2, <3>3 DEF Kept, EntriesMatch
    <3>5. ActiveEntered(m)
      <4> SUFFICES ASSUME NEW q \in Run, Active(q), began[TokenOf(q)] = m.epoch
                   PROVE \E e \in m.inFlight : e.token = TokenOf(q)
        BY DEF ActiveEntered
      <4>1. TokenOf(q)[1] = q
        BY DEF TokenOf
      <4>2. TokenOf(q) # t
        BY <3>1, <4>1 DEF Gone, Active
      <4>3. PICK e \in l.inFlight : e.token = TokenOf(q)
        BY <1>2, <3>3 DEF Kept, ActiveEntered
      <4> QED
        BY <3>3, <4>2, <4>3 DEF Entries
    <3>6. Sound(m)
      BY <1>2, <3>3, <3>4, <3>5 DEF Sound, Kept, InBudget
    <3> QED
      BY <1>13, <2>1, <3>1, <3>2, <3>3, <3>6
  <2> QED
    BY <2>2, <2>3
<1>15. ASSUME NEW h \in Helper, ReadStalls(h)
       PROVE Sound(ledger)'
  <2>1. ledger' = d /\ UNCHANGED <<pc, forced, try, began, used, granted, measured>>
    BY <1>3, <1>15 DEF ReadStalls, ledgerVars, runVars, historyVars
  <2> QED
    BY <1>4, <1>13, <2>1
<1>16. ASSUME Reset
       PROVE Sound(ledger)'
  <2>1. PICK m : m = Fresh(ledger)
    OBVIOUS
  <2>2. m \in LedgerType /\ Sound(m)
    BY <1>0, <1>3, <1>4, <1>16, <2>1, FreshType, FreshSound DEF Reset
  <2>3. ledger' = m /\ UNCHANGED <<pc, forced, try, began, used, granted, measured>>
    BY <1>16, <2>1 DEF Reset, Write, runVars, historyVars
  <2> QED
    BY <1>13, <2>2, <2>3
<1>17. ASSUME SettleEpoch
       PROVE Sound(ledger)'
  <2>1. ledger' = l /\ UNCHANGED <<pc, forced, try, began, used, granted, measured>>
    BY <1>1, <1>17 DEF SettleEpoch, Write, runVars, historyVars
  <2> QED
    BY <1>2, <1>13, <2>1
<1>18. ASSUME RecordProgress
       PROVE Sound(ledger)'
  <2>1. PICK s \in Budgeted, value \in Signature : ledger' = Signed(l, s, value, TRUE)
    BY <1>1, <1>18 DEF RecordProgress, Write
  <2>2. PICK m : m = Signed(l, s, value, TRUE)
    OBVIOUS
  <2>3. s \in Stage /\ TRUE \in BOOLEAN
    BY LedgerConstantsOK
  <2>4. m \in LedgerType /\ Sound(m)
    <3>1. /\ m \in LedgerType /\ m.epoch = l.epoch /\ m.inFlight = l.inFlight /\ m.runtime = l.runtime
          /\ m.account = l.account /\ m.attempts = l.attempts /\ m.total = l.total
      BY <1>2, <2>2, <2>3, SignedType
    <3> QED
      BY <1>2, <3>1, SameFields
  <2>5. UNCHANGED <<pc, forced, try, began, used, granted, measured>>
    BY <1>18 DEF RecordProgress, runVars, historyVars
  <2> QED
    BY <1>13, <2>1, <2>2, <2>4, <2>5
<1>19. ASSUME Idle
       PROVE Sound(ledger)'
  <2>1. ledger' = d /\ UNCHANGED <<pc, forced, try, began, used, granted, measured>>
    BY <1>3, <1>19 DEF Idle, runVars, historyVars
  <2> QED
    BY <1>4, <1>13, <2>1
<1>20. ASSUME UNCHANGED vars
       PROVE Sound(ledger)'
  <2>1. ledger' = d /\ UNCHANGED <<pc, forced, try, began, used, granted, measured>>
    BY <1>3, <1>20 DEF vars, ledgerVars, runVars, historyVars
  <2> QED
    BY <1>4, <1>13, <2>1
<1> QED
  BY <1>5, <1>7, <1>8, <1>9, <1>10, <1>11, <1>12, <1>14, <1>15, <1>16, <1>17, <1>18, <1>19, <1>20,
     BeginSound, EndSound DEF Next, Thread

-----------------------------------------------------------------------------
(* The theorems. *)

\* The initial states satisfy the invariant.
LEMMA LInvInit == ASSUME Init PROVE LInv
<1>1. \A r \in Run : <<r, 1>> \in Token /\ <<r, 2>> \in Token
  BY DEF Token
<1>2. TypeOK
  <2>1. 0 \in Epoch /\ MaxEpoch \in Nat \ {0}
    BY LedgerConstantsOK DEF Epoch
  <2>2. NoPass \in Pass /\ NoSign \in Sign
    BY DEF NoPass, NoSign, Pass, Sign
  <2>3. ledger \in LedgerType
    BY <2>1, <2>2 DEF Init, LedgerType
  <2> QED
    BY <2>1, <2>3, AnyStageType DEF Init, TypeOK, Label
<1>3. Room
  BY LedgerConstantsOK DEF Init, Room
<1>4. Fits
  BY <1>1 DEF Init, Fits, FitsAt, Active, TokenOf
<1>5. Sound(ledger)
  <2>1. Spent(ledger.epoch) = {} /\ used = {}
    BY DEF Init, Spent
  <2>2. InBudget(ledger)
    BY LedgerConstantsOK DEF Init, InBudget
  <2>3. ActiveEntered(ledger)
    BY DEF Init, ActiveEntered, Active
  <2>4. EntriesMatch(ledger)
    BY DEF Init, EntriesMatch
  <2> QED
    <3>1. Cardinality({}) = 0
      BY FS_EmptySet
    <3>2. ledger.epoch = 0 /\ ledger.runtime = 0 /\ ledger.account = 0
      BY DEF Init
    <3>3. \A t \in Token : began[t] <= ledger.epoch
      BY <3>2 DEF Init
    <3> QED
      BY <2>1, <2>2, <2>3, <2>4, <3>1, <3>2, <3>3 DEF Sound, Kept
<1> QED
  BY <1>2, <1>3, <1>4, <1>5 DEF LInv

\* The invariant holds in every reachable state.
LEMMA LInvInductive == Spec => []LInv
<1>1. LInv /\ [Next]_vars => LInv'
  BY TypeStep, FitsStep, SoundStep DEF LInv
<1> QED
  BY <1>1, LInvInit, PTL DEF Spec

\* Every field of the ledger, and of each run, keeps its type (ledger.py: load and _write).
THEOREM LedgerTypeCorrect == Spec => []TypeOK
<1>1. LInv => TypeOK
  BY DEF LInv
<1> QED
  BY <1>1, LInvInductive, PTL

\* The runtime of an epoch is that of its measured runs that ended, each counted once: an end after
\* a reset, a second end, or one of a stall, is charged nothing (ledger.py: end).
THEOREM ChargedAsSpent == Spec => []RuntimeIsSpent
<1>1. LInv => RuntimeIsSpent
  BY DEF LInv, Sound, Kept, Spent, RuntimeIsSpent
<1> QED
  BY <1>1, LInvInductive, PTL

\* No reset or idle time loses the usage a run recorded (ledger.py: _fresh and record_usage).
THEOREM AccountIsKept == Spec => []AccountKept
<1>1. LInv => AccountKept
  BY DEF LInv, Sound, Kept, AccountKept
<1> QED
  BY <1>1, LInvInductive, PTL

\* The runs in flight are those that were entered in this epoch and not ended, so that none is
\* missed as a stall and none taken for one after its end (ledger.py: begin, end, clear_stalls).
THEOREM VisibleInFlight == Spec => []InFlightIsOpen
<1>1. LInv => InFlightIsOpen
  BY DEF LInv, Sound, Kept, EntriesMatch, ActiveEntered, Active, InFlightIsOpen
<1> QED
  BY <1>1, LInvInductive, PTL

\* The three together: what the ledger holds of an epoch is what the runs of that epoch did (ledger.py).
THEOREM LedgerSound == Spec => []LedgerAddsUp
<1>1. RuntimeIsSpent /\ AccountKept /\ InFlightIsOpen => LedgerAddsUp
  BY DEF LedgerAddsUp
<1> QED
  BY <1>1, ChargedAsSpent, AccountIsKept, VisibleInFlight, PTL

\* No budget of attempts is passed without --force, however many commands check it at once before
\* they take the lock (ledger.py: check and consume; cli_common.py: _refuse_if_exhausted).
THEOREM BudgetHolds == Spec => []WithinBudget
<1>1. LInv => WithinBudget
  <2> SUFFICES ASSUME LInv PROVE WithinBudget
    OBVIOUS
  <2>1. CASE InBudget(ledger)
    BY <2>1 DEF InBudget, WithinBudget
  <2>2. CASE ForcedOnce(ledger.epoch)
    <3>1. PICK t \in Token : granted[t] = ledger.epoch /\ granted[t] # 0 /\ forced[t[1]]
      BY <2>2 DEF ForcedOnce
    <3>2. stage[t[1]] \in Stage
      BY DEF LInv, TypeOK, Token
    <3>3. t \in GrantedNow(stage[t[1]])
      BY <3>1 DEF GrantedNow
    <3> QED
      BY <3>1, <3>2, <3>3 DEF WithinBudget
  <2> QED
    BY <2>1, <2>2 DEF LInv, Sound
<1> QED
  BY <1>1, LInvInductive, PTL

-----------------------------------------------------------------------------
(* One attempt per pass. *)

\* The tries granted in an epoch to a stage, and whether they make one pass of it.
GrantedIn(s, epoch) == {t \in Token : stage[t[1]] = s /\ granted[t] = epoch /\ granted[t] # 0}
InOnePass(s, epoch) ==
  /\ \A t \in GrantedIn(s, epoch) : t[2] = 1 /\ piece[t[1]] # None
  /\ \A t, o \in GrantedIn(s, epoch) :
       key[t[1]] = key[o[1]] /\ (t # o => piece[t[1]] # piece[o[1]])
  /\ Cardinality(GrantedIn(s, epoch)) <= FreePieces[s]

\* While they do, the pass that is open is theirs, holds no piece but theirs, and was paid for once.
PassPaid(s, l) ==
  /\ IsFiniteSet(l.passes[s].pieces)
  /\ Cardinality(l.passes[s].pieces) <= Cardinality(GrantedIn(s, l.epoch))
  /\ \A p \in l.passes[s].pieces : \E t \in GrantedIn(s, l.epoch) : piece[t[1]] = p
  /\ \A t \in GrantedIn(s, l.epoch) : l.passes[s].key = key[t[1]]
  /\ l.attempts[s] <= 1 /\ (GrantedIn(s, l.epoch) = {} => l.attempts[s] = 0)
PassFits(s, l) == InOnePass(s, l.epoch) => PassPaid(s, l)

\* A try is granted once at most.
Ungranted ==
  \A r \in Run :
    /\ pc[r] \in {"new", "check", "consume"} => granted[TokenOf(r)] = 0
    /\ try[r] = 1 => granted[<<r, 2>>] = 0

PInv ==
  /\ \A t \in Token : granted[t] <= ledger.epoch
  /\ Ungranted
  /\ \A s \in Budgeted : PassFits(s, ledger)

\* Two ledgers that agree on their epoch, passes and attempts.
SamePasses(l, m) == m.epoch = l.epoch /\ m.passes = l.passes /\ m.attempts = l.attempts

\* In a fresh epoch nothing is granted, and no pass is open.
LEMMA FreshPass ==
  ASSUME LInv, PInv, ledger.epoch < MaxEpoch, NEW s \in Budgeted
  PROVE  PassFits(s, Fresh(ledger))
<1>1. PICK l : l = Fresh(ledger)
  OBVIOUS
<1>2. l.epoch = ledger.epoch + 1 /\ l.attempts[s] = 0
  BY <1>1, FreshType, LedgerConstantsOK DEF LInv
<1>3. l.passes[s] = NoPass
  BY <1>1, LedgerConstantsOK DEF Fresh, LInv, TypeOK, LedgerType
<1>4. GrantedIn(s, l.epoch) = {}
  BY <1>2 DEF GrantedIn, PInv, LInv, TypeOK, LedgerType, Epoch
<1>5. Cardinality({}) = 0 /\ IsFiniteSet({})
  BY FS_EmptySet
<1>6. PassPaid(s, l)
  BY <1>2, <1>3, <1>4, <1>5 DEF PassPaid, NoPass
<1> QED
  BY <1>1, <1>6 DEF PassFits

\* So is what a command reads.
LEMMA LoadPass ==
  ASSUME LInv, PInv, NEW s \in Budgeted
  PROVE  PassFits(s, Load)
<1>1. CASE stale
  BY <1>1, FreshPass DEF Load, LInv, Room
<1>2. CASE ~stale
  BY <1>2 DEF Load, PInv
<1> QED
  BY <1>1, <1>2

\* A ledger with the same passes, while no grant changes hands, fits as before.
LEMMA PassStays ==
  ASSUME NEW s, NEW l, PassFits(s, l), UNCHANGED granted, SamePasses(l, ledger'),
         \A t \in Token : granted[t] # 0 =>
           stage'[t[1]] = stage[t[1]] /\ piece'[t[1]] = piece[t[1]] /\ key'[t[1]] = key[t[1]]
  PROVE  PassFits(s, ledger)'
<1>1. GrantedIn(s, l.epoch)' = GrantedIn(s, l.epoch)
  BY DEF GrantedIn
<1>2. \A t \in GrantedIn(s, l.epoch) : piece'[t[1]] = piece[t[1]] /\ key'[t[1]] = key[t[1]]
  BY DEF GrantedIn
<1>3. PICK ts : ts = GrantedIn(s, l.epoch)
  OBVIOUS
<1>4. ledger'.epoch = l.epoch /\ GrantedIn(s, ledger.epoch)' = ts
  BY <1>1, <1>3 DEF SamePasses, GrantedIn
<1>5. InOnePass(s, ledger.epoch)' => InOnePass(s, l.epoch)
  BY <1>2, <1>3, <1>4 DEF InOnePass
<1>6. PassPaid(s, l) => PassPaid(s, ledger)'
  BY <1>2, <1>3, <1>4 DEF PassPaid, SamePasses
<1> QED
  BY <1>5, <1>6 DEF PassFits

\* The token a run takes its attempt with has none yet, and one that has keeps its run's piece and key.
LEMMA TakesOnce ==
  ASSUME LInv, PInv, NEW r \in Run, pc[r] = "consume"
  PROVE  TokenOf(r) \in Token /\ granted[TokenOf(r)] = 0 /\ TokenOf(r) = <<r, try[r]>>
BY TokenType DEF LInv, PInv, Ungranted, TokenOf

\* consume takes one attempt for the first piece of a pass, and none for a further one.
LEMMA TakePass ==
  ASSUME LInv, PInv, NEW r \in Run, pc[r] = "consume", NEW next \in Label, Take(r, Load, next),
         UNCHANGED <<stage, piece, key, try>>, NEW s \in Budgeted
  PROVE  PassFits(s, ledger)'
<1>a. PICK l : l = Load
  OBVIOUS
<1>b. PICK t : t = TokenOf(r)
  OBVIOUS
<1>c. t \in Token /\ granted[t] = 0 /\ t[1] = r /\ t[2] = try[r]
  BY <1>b, TakesOnce
<1>d. l \in LedgerType /\ l.epoch # 0 /\ PassFits(s, l) /\ s \in Stage
  BY <1>a, LoadSound, LoadPass, LedgerConstantsOK
<1>e. /\ ledger'.epoch = l.epoch /\ granted' = [granted EXCEPT ![t] = l.epoch]
      /\ ledger'.attempts = [l.attempts EXCEPT ![stage[r]] = IF Spends(l, stage[r], PieceOf(r), key[r]) THEN @ + 1 ELSE @]
      /\ ledger'.passes = [l.passes EXCEPT ![stage[r]] = PassWith(l, stage[r], PieceOf(r), key[r])]
  BY <1>a, <1>b, TakeType
<1>f. PICK ts : ts = GrantedIn(s, l.epoch)
  OBVIOUS
<1>g. \A o \in Token : granted'[o] = IF o = t THEN l.epoch ELSE granted[o]
  BY <1>c, <1>e DEF LInv, TypeOK
<1>h. l.passes \in [Stage -> Pass] /\ l.attempts \in [Stage -> Nat] /\ stage[r] \in Stage
  BY <1>d DEF LedgerType, LInv, TypeOK
<1>1. CASE s # stage[r]
  <2>1. GrantedIn(s, ledger.epoch)' = ts
    BY <1>1, <1>c, <1>e, <1>f, <1>g DEF GrantedIn
  <2>2. ledger'.passes[s] = l.passes[s] /\ ledger'.attempts[s] = l.attempts[s]
    BY <1>1, <1>d, <1>e, <1>h
  <2>3. InOnePass(s, ledger.epoch)' => InOnePass(s, l.epoch)
    BY <1>f, <2>1 DEF InOnePass
  <2>4. PassPaid(s, l) => PassPaid(s, ledger)'
    BY <1>e, <1>f, <2>1, <2>2 DEF PassPaid
  <2> QED
    BY <1>d, <2>3, <2>4 DEF PassFits
<1>2. CASE s = stage[r]
  <2> SUFFICES ASSUME InOnePass(s, ledger.epoch)' PROVE PassPaid(s, ledger)'
    BY DEF PassFits
  <2>1. GrantedIn(s, ledger.epoch)' = ts \cup {t} /\ t \notin ts
    BY <1>2, <1>c, <1>d, <1>e, <1>f, <1>g DEF GrantedIn
  <2>2. /\ \A o \in ts \cup {t} : o[2] = 1 /\ piece[o[1]] # None
        /\ \A o, q \in ts \cup {t} : key[o[1]] = key[q[1]] /\ (o # q => piece[o[1]] # piece[q[1]])
        /\ Cardinality(ts \cup {t}) <= FreePieces[s]
    BY <2>1 DEF InOnePass
  <2>3. IsFiniteSet(ts) /\ Cardinality(ts) \in Nat /\ Cardinality(ts \cup {t}) = Cardinality(ts) + 1
    <3>1. IsFiniteSet(ts)
      BY <1>f, TokensFinite, FS_Subset DEF LInv, GrantedIn
    <3> QED
      BY <2>1, <3>1, FS_CardinalityType, FS_AddElement
  <2>4. InOnePass(s, l.epoch)
    BY <1>d, <1>f, <2>2, <2>3, LedgerConstantsOK DEF InOnePass
  <2>5. PassPaid(s, l)
    BY <1>d, <2>4 DEF PassFits
  <2>6. PICK p, k : p = piece[r] /\ k = key[r] /\ p # None /\ PieceOf(r) = p
    BY <1>c, <2>2 DEF PieceOf
  <2>7. PICK pieces : pieces = l.passes[s].pieces
    OBVIOUS
  <2>8. /\ IsFiniteSet(pieces) /\ Cardinality(pieces) \in Nat /\ Cardinality(pieces) <= Cardinality(ts)
        /\ \A x \in pieces : \E o \in ts : piece[o[1]] = x
        /\ \A o \in ts : l.passes[s].key = key[o[1]]
        /\ l.attempts[s] \in Nat /\ l.attempts[s] <= 1 /\ (ts = {} => l.attempts[s] = 0)
    BY <1>d, <1>f, <1>h, <2>5, <2>7, FS_CardinalityType DEF PassPaid
  <2>9. /\ ledger'.attempts[s] = IF Spends(l, s, p, k) THEN l.attempts[s] + 1 ELSE l.attempts[s]
        /\ ledger'.passes[s] = PassWith(l, s, p, k)
    BY <1>2, <1>e, <1>h, <2>6
  <2>10. p \notin pieces
    BY <1>c, <2>1, <2>2, <2>6, <2>8
  <2>11. pieces # {} => l.passes[s].key = k
    BY <1>c, <2>1, <2>2, <2>6, <2>8
  <2>12. PassWith(l, s, p, k) = [key |-> k, pieces |-> {p} \cup pieces]
    BY <2>6, <2>7, <2>11 DEF PassWith
  <2>13. ts # {} => ~Spends(l, s, p, k)
    <3>1. SUFFICES ASSUME ts # {} PROVE ~Spends(l, s, p, k)
      OBVIOUS
    <3>2. l.passes[s].key = k
      BY <1>c, <2>1, <2>2, <2>6, <2>8, <3>1
    <3>3. Cardinality(pieces) < FreePieces[s]
      BY <1>d, <2>2, <2>3, <2>8, LedgerConstantsOK
    <3>4. ~(Cardinality(pieces) >= FreePieces[s])
      BY <1>d, <2>8, <3>3, LedgerConstantsOK
    <3> QED
      BY <2>6, <2>7, <2>10, <3>2, <3>4 DEF Spends
  <2>14. ledger'.attempts[s] <= 1
    BY <2>8, <2>9, <2>13
  <2>15. IsFiniteSet({p} \cup pieces) /\ Cardinality({p} \cup pieces) = Cardinality(pieces) + 1
    <3>1. {p} \cup pieces = pieces \cup {p}
      OBVIOUS
    <3> QED
      BY <2>8, <2>10, <3>1, FS_AddElement
  <2>16. ledger'.passes[s].key = k /\ ledger'.passes[s].pieces = {p} \cup pieces
    BY <2>9, <2>12
  <2>17. \A x \in {p} \cup pieces : \E o \in ts \cup {t} : piece'[o[1]] = x
    BY <1>c, <2>6, <2>8
  <2>18. \A o \in ts \cup {t} : k = key'[o[1]]
    BY <1>c, <2>2, <2>6
  <2>19. Cardinality({p} \cup pieces) <= Cardinality(ts \cup {t})
    BY <2>3, <2>8, <2>15
  <2> QED
    BY <2>1, <2>14, <2>15, <2>16, <2>17, <2>18, <2>19 DEF PassPaid
<1> QED
  BY <1>1, <1>2

\* Every step leaves what the stages have granted in one pass paid for once.
LEMMA PassStep ==
  ASSUME LInv, PInv, [Next]_vars
  PROVE  /\ \A s \in Budgeted : PassFits(s, ledger)'
         /\ \A t \in Token : granted'[t] <= ledger'.epoch
<1> DEFINE AllPaid == /\ \A s \in Budgeted : PassFits(s, ledger)'
                      /\ \A t \in Token : granted'[t] <= ledger'.epoch
           Granted == \A t \in Token : granted[t] # 0 =>
             stage'[t[1]] = stage[t[1]] /\ piece'[t[1]] = piece[t[1]] /\ key'[t[1]] = key[t[1]]
<1>a. PICK l : l = Load
  OBVIOUS
<1>b. l \in LedgerType /\ ledger \in LedgerType
  BY <1>a, LoadSound DEF LInv, TypeOK
<1>c. \A s \in Budgeted : PassFits(s, l) /\ PassFits(s, ledger)
  BY <1>a, LoadPass DEF PInv
<1>h. /\ granted \in [Token -> Nat] /\ ledger.epoch \in Nat /\ l.epoch \in Nat /\ l.epoch >= ledger.epoch
      /\ \A t \in Token : granted[t] <= ledger.epoch
  BY <1>a, <1>b, LoadType DEF LInv, PInv, TypeOK, LedgerType, Epoch
<1>d. ASSUME Granted, UNCHANGED granted, SamePasses(l, ledger') \/ SamePasses(ledger, ledger') PROVE AllPaid
  <2>1. ledger'.epoch \in Nat /\ ledger'.epoch >= ledger.epoch
    BY <1>d, <1>h DEF SamePasses
  <2>2. \A t \in Token : granted'[t] <= ledger'.epoch
    BY <1>d, <1>h, <2>1
  <2>3. \A s \in Budgeted : PassFits(s, ledger)'
    BY <1>c, <1>d, PassStays
  <2> QED
    BY <2>2, <2>3
<1>e. UNCHANGED ledger => SamePasses(ledger, ledger')
  BY DEF SamePasses
<1>f. \A t, charge : SamePasses(l, Ended(l, t, charge))
  BY <1>b DEF SamePasses, Ended, LedgerType
<1>g. UNCHANGED <<stage, piece, key>> => Granted
  OBVIOUS
<1>1. ASSUME NEW r \in Run, Start(r) PROVE AllPaid
  <2>1. granted[<<r, 1>>] = 0 /\ granted[<<r, 2>>] = 0
    BY <1>1 DEF Start, At, LInv, Fits, FitsAt
  <2>2. \A t \in Token : granted[t] # 0 => t[1] \in Run /\ t[1] # r
    BY <2>1 DEF Token
  <2>3. Granted
    BY <1>1, <2>2 DEF Start, LInv, TypeOK
  <2> QED
    BY <1>1, <1>d, <1>e, <2>3 DEF Start, ledgerVars, historyVars
<1>2. ASSUME NEW r \in Run, Check(r) \/ Return(r) \/ Kill(r) PROVE AllPaid
  BY <1>2, <1>d, <1>e, <1>g DEF Check, Return, Kill, ledgerVars, historyVars, runVars
<1>3. ASSUME NEW r \in Run, Consume(r) PROVE AllPaid
  <2>1. CASE UNCHANGED <<ledgerVars, granted>>
    BY <1>3, <1>d, <1>e, <1>g, <2>1 DEF Consume, ledgerVars, runVars
  <2>2. CASE \E next \in {"begin", "over"} : Take(r, Load, next)
    <3>1. PICK next \in {"begin", "over"} : Take(r, Load, next)
      BY <2>2
    <3>2. pc[r] = "consume" /\ UNCHANGED <<stage, piece, key, try>> /\ next \in Label
      BY <1>3 DEF Consume, At, Label, runVars
    <3>3. \A s \in Budgeted : PassFits(s, ledger)'
      BY <3>1, <3>2, TakePass
    <3>4. ledger'.epoch = l.epoch /\ granted' = [granted EXCEPT ![TokenOf(r)] = l.epoch]
      BY <1>a, <3>1, <3>2, TakeType
    <3>5. \A t \in Token : granted'[t] <= ledger'.epoch
      BY <1>h, <3>4
    <3> QED
      BY <3>3, <3>5
  <2> QED
    BY <1>3, <2>1, <2>2 DEF Consume
<1>4. ASSUME NEW r \in Run, Begin(r) PROVE AllPaid
  <2>1. ledger' = [l EXCEPT !.inFlight = @ \cup {[token |-> TokenOf(r), epoch |-> l.epoch]}]
    BY <1>4, <1>a DEF Begin, Write
  <2>2. SamePasses(l, ledger')
    BY <1>b, <2>1 DEF SamePasses, LedgerType
  <2> QED
    BY <1>4, <1>d, <1>g, <2>2 DEF Begin, runVars
<1>5. ASSUME NEW r \in Run, RecordUsage(r) PROVE AllPaid
  <2>1. ledger' = [l EXCEPT !.account = @ + 1]
    BY <1>5, <1>a DEF RecordUsage, Write
  <2>2. SamePasses(l, ledger')
    BY <1>b, <2>1 DEF SamePasses, LedgerType
  <2> QED
    BY <1>5, <1>d, <1>g, <2>2 DEF RecordUsage, runVars
<1>6. ASSUME NEW r \in Run, RegisterSignature(r) PROVE AllPaid
  <2>1. \E value, repeatable : ledger' = Signed(l, stage[r], value, repeatable)
    BY <1>6, <1>a DEF RegisterSignature, Write
  <2>2. SamePasses(l, ledger')
    BY <1>b, <2>1 DEF SamePasses, LedgerType, Signed
  <2> QED
    BY <1>6, <1>d, <1>g, <2>2 DEF RegisterSignature, runVars, historyVars
<1>7. ASSUME NEW r \in Run, End(r) PROVE AllPaid
  <2>1. \E charge : ledger' = Ended(l, TokenOf(r), charge)
    BY <1>7, <1>a DEF End, Write
  <2> QED
    BY <1>7, <1>d, <1>f, <1>g, <2>1 DEF End, historyVars
<1>8. ASSUME NEW a \in Actor, ClearStall(a) PROVE AllPaid
  <2>1. UNCHANGED ledger \/ \E t : ledger' = Ended(l, t, 0)
    BY <1>8, <1>a DEF ClearStall, Write, ledgerVars
  <2> QED
    BY <1>8, <1>d, <1>e, <1>f, <1>g, <2>1 DEF ClearStall, runVars, historyVars
<1>9. CASE Reset
  <2>1. ledger' = Fresh(ledger) /\ ledger.epoch < MaxEpoch
    BY <1>9 DEF Reset, Write
  <2>2. PICK m : m = Fresh(ledger)
    OBVIOUS
  <2>3. (\A s \in Budgeted : PassFits(s, m)) /\ SamePasses(m, ledger')
    BY <2>1, <2>2, FreshPass DEF SamePasses
  <2>4. Granted /\ UNCHANGED granted
    BY <1>9 DEF Reset, runVars, historyVars
  <2>5. ledger'.epoch = ledger.epoch + 1
    BY <2>1, FreshType DEF LInv
  <2>6. \A t \in Token : granted'[t] <= ledger'.epoch
    BY <1>h, <2>4, <2>5
  <2>7. \A s \in Budgeted : PassFits(s, ledger)'
    BY <2>3, <2>4, PassStays
  <2> QED
    BY <2>6, <2>7
<1>10. CASE SettleEpoch
  BY <1>10, <1>a, <1>d, <1>g DEF SettleEpoch, Write, SamePasses, runVars, historyVars
<1>11. CASE RecordProgress
  <2>1. \E s, value : ledger' = Signed(l, s, value, TRUE)
    BY <1>11, <1>a DEF RecordProgress, Write
  <2>2. SamePasses(l, ledger')
    BY <1>b, <2>1 DEF SamePasses, LedgerType, Signed
  <2> QED
    BY <1>11, <1>d, <1>g, <2>2 DEF RecordProgress, runVars, historyVars
<1>12. CASE Idle
  BY <1>12, <1>d, <1>e, <1>g DEF Idle, runVars, historyVars
<1>13. ASSUME NEW h \in Helper, ReadStalls(h) PROVE AllPaid
  BY <1>13, <1>d, <1>e, <1>g DEF ReadStalls, ledgerVars, runVars, historyVars
<1>14. CASE UNCHANGED vars
  BY <1>14, <1>d, <1>e, <1>g DEF vars, ledgerVars, runVars, historyVars
<1> HIDE DEF AllPaid, Granted
<1>15. ASSUME NEW r \in Run, Thread(r) PROVE AllPaid
  BY <1>2, <1>3, <1>4, <1>5, <1>6, <1>7, <1>15 DEF Thread
<1>16. Reset \/ SettleEpoch \/ RecordProgress \/ Idle \/ UNCHANGED vars => AllPaid
  BY <1>9, <1>10, <1>11, <1>12, <1>14 DEF AllPaid
<1>17. AllPaid
  BY <1>1, <1>2, <1>8, <1>13, <1>15, <1>16 DEF Next
<1> QED
  BY <1>17 DEF AllPaid


\* A try is granted before its run goes on, and once at most.
LEMMA UngrantedStep ==
  ASSUME LInv, PInv, [Next]_vars
  PROVE  Ungranted'
<1>a. /\ pc \in [Run -> Label] /\ try \in [Run -> {1, 2}] /\ granted \in [Token -> Epoch]
      /\ \A r \in Run : <<r, 1>> \in Token /\ <<r, 2>> \in Token
  BY DEF LInv, TypeOK, Token
<1>b. Ungranted
  BY DEF PInv
<1>c. UNCHANGED <<pc, try, granted>> => Ungranted'
  BY <1>b DEF Ungranted, TokenOf
<1>d. ASSUME NEW r \in Run, NEW label, Goto(r, label), UNCHANGED <<try, granted>>,
             label \in {"check", "consume"} => pc[r] \in {"new", "check"}, label # "new"
      PROVE  Ungranted'
  BY <1>a, <1>b, <1>d DEF Ungranted, TokenOf, Goto
<1>1. ASSUME NEW r \in Run, Start(r) \/ Check(r) \/ Return(r) \/ RecordUsage(r) \/ RegisterSignature(r) \/ Kill(r)
      PROVE  Ungranted'
  <2>1. CASE Start(r) \/ Check(r)
    BY <1>d, <2>1 DEF Start, Check, At, historyVars, runVars
  <2>2. CASE Return(r) \/ RecordUsage(r) \/ RegisterSignature(r) \/ Kill(r)
    BY <1>d, <2>2 DEF Return, RecordUsage, RegisterSignature, Kill, historyVars, runVars
  <2> QED
    BY <1>1, <2>1, <2>2
<1>2. ASSUME NEW r \in Run, Begin(r) PROVE Ungranted'
  BY <1>d, <1>2 DEF Begin, runVars
<1>3. ASSUME NEW r \in Run, Consume(r) PROVE Ungranted'
  <2>1. CASE UNCHANGED granted
    BY <1>d, <1>3, <2>1 DEF Consume, Take, runVars
  <2>2. CASE \E next \in {"begin", "over"} : Take(r, Load, next)
    <3>n. PICK next \in {"begin", "over"} : \E e : granted' = [granted EXCEPT ![TokenOf(r)] = e] /\ Goto(r, next)
      BY <2>2 DEF Take
    <3>1. PICK e : granted' = [granted EXCEPT ![TokenOf(r)] = e] /\ Goto(r, next)
      BY <3>n
    <3>2. UNCHANGED try
      BY <1>3 DEF Consume, runVars
    <3>3. \A q \in Run : /\ pc'[q] \in {"new", "check", "consume"} => pc[q] = pc'[q] /\ q # r
                           /\ TokenOf(q)' = TokenOf(q) /\ <<q, 2>> \in Token /\ TokenOf(q) \in Token
      BY <1>a, <3>1, <3>2 DEF TokenOf, Goto
    <3>4. \A q \in Run : q # r => granted'[TokenOf(q)] = granted[TokenOf(q)] /\ granted'[<<q, 2>>] = granted[<<q, 2>>]
      BY <1>a, <3>1, <3>3 DEF TokenOf
    <3>5. try[r] = 1 => granted'[<<r, 2>>] = granted[<<r, 2>>]
      BY <1>a, <3>1 DEF TokenOf
    <3> QED
      BY <1>b, <3>2, <3>3, <3>4, <3>5 DEF Ungranted
  <2> QED
    BY <1>3, <2>1, <2>2 DEF Consume
<1>4. ASSUME NEW r \in Run, End(r) PROVE Ungranted'
  <2>1. UNCHANGED granted
    BY <1>4 DEF End, historyVars
  <2>2. CASE UNCHANGED try /\ Goto(r, "over")
    BY <1>d, <2>1, <2>2
  <2>3. CASE try[r] = 1 /\ try' = [try EXCEPT ![r] = 2] /\ \E label : Goto(r, label)
    BY <1>a, <1>b, <2>1, <2>3 DEF Ungranted, TokenOf, Goto
  <2> QED
    BY <1>4, <2>2, <2>3 DEF End
<1>5. ASSUME NEW a \in Actor, ClearStall(a) PROVE Ungranted'
  BY <1>c, <1>5 DEF ClearStall, runVars, historyVars
<1>6. ASSUME NEW h \in Helper, ReadStalls(h) PROVE Ungranted'
  BY <1>c, <1>6 DEF ReadStalls, runVars, historyVars
<1>7. CASE Reset \/ SettleEpoch \/ RecordProgress \/ Idle \/ UNCHANGED vars
  BY <1>c, <1>7 DEF Reset, SettleEpoch, RecordProgress, Idle, vars, runVars, historyVars
<1> QED
  BY <1>1, <1>2, <1>3, <1>4, <1>5, <1>6, <1>7 DEF Next, Thread

\* "One attempt per pass": the units of a plan, each run once, cost the stage a single attempt,
\* in whatever order they start and whatever else resets, dies or is cleared (ledger.py: consume).
THEOREM PassCostsOne == Spec => []OneAttemptPerPass
<1>1. Init => PInv
  <2> SUFFICES ASSUME Init PROVE PInv
    OBVIOUS
  <2>1. Ungranted /\ \A t \in Token : granted[t] <= ledger.epoch
    BY DEF Init, Ungranted, TokenOf, Token
  <2>2. ASSUME NEW s \in Budgeted PROVE PassPaid(s, ledger)
    <3>1. GrantedIn(s, ledger.epoch) = {}
      BY DEF Init, GrantedIn
    <3>2. ledger.passes[s].pieces = {} /\ ledger.attempts[s] = 0
      BY LedgerConstantsOK DEF Init, NoPass
    <3> QED
      BY <3>1, <3>2, FS_EmptySet DEF PassPaid
  <2> QED
    BY <2>1, <2>2 DEF PInv, PassFits
<1>2. LInv /\ PInv /\ [Next]_vars => PInv'
  BY PassStep, UngrantedStep DEF PInv
<1>3. PInv => OneAttemptPerPass
  <2> SUFFICES ASSUME PInv, NEW s \in Budgeted, InOnePass(s, ledger.epoch) PROVE ledger.attempts[s] <= 1
    <3>1. \A x : GrantedNow(x) = GrantedIn(x, ledger.epoch)
      BY DEF GrantedNow, GrantedIn
    <3> QED
      BY <3>1 DEF OneAttemptPerPass, InOnePass
  <2> QED
    BY DEF PInv, PassFits, PassPaid
<1> QED
  BY <1>1, <1>2, <1>3, LInvInductive, PTL DEF Spec
=============================================================================
