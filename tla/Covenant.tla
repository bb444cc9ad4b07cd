------------------------------ MODULE Covenant ------------------------------
(***************************************************************************)
(* Covenant destinations: an address made for one payment, whose outputs   *)
(* only this server can move on to the recipient, through the emulator.    *)
(* The watcher settles the record of a payment; the sweeper forwards every *)
(* output, or renews it when that fails near its expiry, and records where *)
(* the receipt went; the late sweep looks after addresses whose window is  *)
(* over. Outputs are of version 3, which can be renewed.                   *)
(*                                                                         *)
(* The main and the late sweep run the same code at the same time. A pass  *)
(* is cut at its awaits: what it saw of the outputs may be old by the time *)
(* it acts on it, and what it submitted may land after it gave up.         *)
(***************************************************************************)
EXTENDS Integers, FiniteSets

CONSTANTS
  Scripts,      (* destinations, each with a record                        *)
  Rank,         (* the order of their records by age and script            *)
  Payments,     (* payments that may be made to them                       *)
  ScriptOf,     (* [Payments -> Scripts]                                    *)
  Covers,       (* the payments worth their record's amount                *)
  Txids, TxOf,  (* [Payments -> Txids]: the transaction of a payment        *)
  Budget,       (* LATE_SWEEP_PER_PASS                                     *)
  MaxRenewals,  (* bound: [Payments -> Nat], how often its output is renewed *)
  None

ASSUME CovenantAssumption ==
  /\ Rank \in [Scripts -> Nat] /\ \A s, t \in Scripts : Rank[s] = Rank[t] => s = t
  /\ ScriptOf \in [Payments -> Scripts] /\ Covers \subseteq Payments
  /\ TxOf \in [Payments -> Txids]
  /\ Budget \in Nat \ {0} /\ MaxRenewals \in [Payments -> Nat]
  /\ None \notin Scripts /\ None \notin Payments /\ None \notin Txids
  /\ Txids \cap (Payments \X Nat) = {} /\ None \notin Payments \X Nat

VARIABLES
  state,        (* of a payment's latest output: absent, live, swept, taken *)
  gen,          (* how often it was renewed                                *)
  age,          (* of its batch: young, near its expiry or expired         *)
  submitted,    (* sweeps the emulator has, of outputs that are live       *)
  intents,      (* renewals registered for the next batch                  *)
  phase,        (* a record is open, lapsed (in the tail) or past the tail *)
  row,          (* settlements: pending or settled                         *)
  reference, outpoint, payout,       (* its columns of these names          *)
  pass,         (* of each sweep                                           *)
  cursor        (* of the late sweep: the last row of its last page        *)

chain == <<state, gen, age, submitted, intents>>
db    == <<row, reference, outpoint, payout>>
vars  == <<chain, phase, db, pass, cursor>>

Sweeps == {"main", "late"}
States == {"absent", "live", "swept", "taken"}

(* The g-th renewal of payment p; a renewal's transaction is its own.       *)
Coins  == UNION {{<<p, g>> : g \in 0..MaxRenewals[p]} : p \in Payments}
Tx(c)  == IF c[2] = 0 THEN TxOf[c[1]] ELSE c

Idle == [at |-> "idle", scripts |-> {}, todo |-> {}, coin |-> None,
         saw |-> [p \in Payments |-> [state |-> "absent", gen |-> 0]]]

Passes ==
  [at : {"idle", "lookup", "resolve", "script", "coin", "sweeping", "joining"},
   scripts : SUBSET Scripts, todo : SUBSET Payments, coin : Payments \cup {None},
   saw : [Payments -> [state : States, gen : Nat]]]

TypeOK ==
  /\ state \in [Payments -> States]
  /\ gen \in [Payments -> Nat] /\ \A p \in Payments : gen[p] <= MaxRenewals[p]
  /\ age \in [Payments -> {"young", "near", "expired"}]
  /\ submitted \subseteq Payments /\ intents \subseteq Payments
  /\ phase \in [Scripts -> {"open", "lapsed", "gone"}]
  /\ row \in [Scripts -> {"pending", "settled"}]
  /\ reference \in [Scripts -> Txids \cup {c \in Coins : c[2] > 0} \cup {None}]
  /\ outpoint \in [Scripts -> Coins \cup {None}]
  /\ payout \in [Scripts -> Coins \cup {None}]
  /\ pass \in [Sweeps -> Passes]
  /\ cursor \in Scripts \cup {None}

-----------------------------------------------------------------------------
(* The records.                                                            *)

(* Mutant of Active: a settled record leaves the scope with its window.    *)
ActiveOpen(s) == payout[s] = None /\ phase[s] = "open"

(* listActiveCovenantScripts: unswept, and settled or inside its window.   *)
Active(s) == payout[s] = None /\ (row[s] = "settled" \/ phase[s] = "open")

(* Never paid, out of its window, and after the cursor; the tail bounds    *)
(* only a page that starts over.                                           *)
Lapsed(s) ==
  /\ row[s] = "pending" /\ phase[s] # "open"
  /\ IF cursor = None THEN phase[s] = "lapsed" ELSE Rank[cursor] < Rank[s]

(* listLapsedCovenantScripts: the oldest, as many as one pass takes.       *)
Page ==
  {s \in Scripts : Lapsed(s) /\ Cardinality({t \in Scripts : Lapsed(t) /\ Rank[t] < Rank[s]}) < Budget}

At(s) == {p \in Payments : ScriptOf[p] = s}

(* Mutant of Settle: the output is stored in place of its transaction.     *)
SettleByOutput(s) ==
  /\ row[s] = "pending" /\ phase[s] = "open"
  /\ \E p \in At(s) \cap Covers : \E g \in 0..gen[p] :
       /\ state[p] # "absent"
       /\ reference' = [reference EXCEPT ![s] = <<p, g>>]
  /\ row' = [row EXCEPT ![s] = "settled"]
  /\ UNCHANGED <<chain, phase, outpoint, payout, pass, cursor>>

(* The watcher, by an event or its catch-up, settles the record from an    *)
(* output of the address, of any age and spent or not, that covers it.     *)
Settle(s) ==
  /\ row[s] = "pending" /\ phase[s] = "open"
  /\ \E p \in At(s) \cap Covers : \E g \in 0..gen[p] :
       /\ state[p] # "absent"
       /\ reference' = [reference EXCEPT ![s] = Tx(<<p, g>>)]
  /\ row' = [row EXCEPT ![s] = "settled"]
  /\ UNCHANGED <<chain, phase, outpoint, payout, pass, cursor>>

-----------------------------------------------------------------------------
(* A pass: on to the next output, the next script, or the end.             *)

Set(w, r) == pass' = [pass EXCEPT ![w] = r]

Move(w, scripts, todo) ==
  IF scripts = {} /\ todo = {} THEN Set(w, Idle)
  ELSE Set(w, [at |-> IF todo # {} THEN "coin" ELSE "script", scripts |-> scripts, todo |-> todo,
               coin |-> None,
               saw |-> [p \in Payments |->
                          IF p \in todo \/ ScriptOf[p] \in scripts THEN pass[w].saw[p] ELSE Idle.saw[p]]])

NextCoin(w) == Move(w, pass[w].scripts, pass[w].todo \ {pass[w].coin})

MainStarts ==
  LET scope == {s \in Scripts : Active(s)} IN
  /\ pass["main"].at = "idle" /\ scope # {}
  /\ Set("main", [Idle EXCEPT !.at = "resolve", !.scripts = scope])
  /\ UNCHANGED <<chain, phase, db, cursor>>

(* Mutant of Turn: the cursor stays at the end of the tail.                *)
TurnNever(page) == IF page = {} THEN {cursor} ELSE {s \in page : \A t \in page : Rank[t] <= Rank[s]}

(* A page that is not full is the end of the tail: the next starts over.   *)
Turn(page) ==
  IF Cardinality(page) < Budget THEN {None} ELSE {s \in page : \A t \in page : Rank[t] <= Rank[s]}

LateStarts ==
  /\ pass["late"].at = "idle"
  /\ cursor' \in Turn(Page)
  /\ IF Page = {} THEN UNCHANGED pass ELSE Set("late", [Idle EXCEPT !.at = "lookup", !.scripts = Page])
  /\ UNCHANGED <<chain, phase, db>>

(* The indexer says which of the page still hold something.                *)
Lookup ==
  LET funded == {s \in pass["late"].scripts : \E p \in At(s) : state[p] = "live"} IN
  /\ pass["late"].at = "lookup"
  /\ Set("late", IF funded = {} THEN Idle ELSE [pass["late"] EXCEPT !.at = "resolve", !.scripts = funded])
  /\ UNCHANGED <<chain, phase, db, cursor>>

(* The contract manager shows the outputs at the scripts, for the whole    *)
(* pass: sweep, resolveCovenants.                                          *)
Resolve(w) ==
  /\ pass[w].at = "resolve"
  /\ Set(w, [pass[w] EXCEPT !.at = "script",
               !.saw = [p \in Payments |->
                          IF ScriptOf[p] \in pass[w].scripts THEN [state |-> state[p], gen |-> gen[p]]
                          ELSE Idle.saw[p]]])
  /\ UNCHANGED <<chain, phase, db, cursor>>

(* A read that fails ends the pass.                                        *)
ReadFails(w) ==
  /\ pass[w].at \in {"lookup", "resolve"}
  /\ Set(w, Idle)
  /\ UNCHANGED <<chain, phase, db, cursor>>

(* The outputs in view that may be the receipt of a record.                *)
Received(w, s) ==
  {c \in Coins : c[1] \in At(s) \cap Covers /\
     LET saw == pass[w].saw[c[1]] IN
     saw.state # "absent" /\ c[2] <= saw.gen /\ Tx(c) = reference[s]}

(* Mutant of From: a spent output of the transaction, as for version 2.    *)
FromSpent(w, s) ==
  {c \in Coins : c[1] \in At(s) /\ Tx(c) = reference[s] /\ pass[w].saw[c[1]].state = "swept"}

(* reconcileCovenantForwarding of a settled record that is not paid out:   *)
(* from the outpoint on record, or the one receipt, along the renewals in  *)
(* view. It throws when there is no telling.                               *)
From(w, s) == IF outpoint[s] # None THEN {outpoint[s]} ELSE Received(w, s)

Reconcile(w, s, c) ==
  LET saw == pass[w].saw[c[1]]
      tip == <<c[1], saw.gen>>
  IN
  /\ saw.state # "absent" /\ c[2] <= saw.gen
  /\ outpoint' = [outpoint EXCEPT ![s] = tip]
  /\ \/ saw.state = "live" /\ payout' = payout
     \/ saw.state = "swept" /\ payout' = [payout EXCEPT ![s] = tip]
     \/ saw.state \in {"swept", "taken"} /\ payout' = payout     \* unread, or elsewhere

Owing(s) == row[s] = "settled" /\ payout[s] = None

(* Throwing, or nothing to do, the pass leaves the script alone. What it   *)
(* saw decides which outputs it will try to move.                          *)
Script(w) ==
  /\ pass[w].at = "script"
  /\ \E s \in pass[w].scripts :
       LET rest == pass[w].scripts \ {s}
           todo == {p \in At(s) : pass[w].saw[p].state = "live"}
       IN
       \/ row[s] = "pending" /\ UNCHANGED <<outpoint, payout>> /\ Move(w, rest, todo)
       \/ payout[s] # None /\ UNCHANGED <<outpoint, payout>> /\ Move(w, rest, {})
       \/ /\ Owing(s) /\ Cardinality(From(w, s)) = 1
          /\ \E c \in From(w, s) :
               /\ Reconcile(w, s, c)
               /\ Move(w, rest, IF pass[w].saw[c[1]].state = "live" THEN todo ELSE {})
       \/ /\ Owing(s)
          /\ \/ Cardinality(From(w, s)) # 1
             \/ \E c \in From(w, s) :
                  pass[w].saw[c[1]].state = "absent" \/ pass[w].saw[c[1]].gen < c[2]
          /\ UNCHANGED <<outpoint, payout>> /\ Move(w, rest, {})
  /\ UNCHANGED <<chain, phase, row, reference, cursor>>

-----------------------------------------------------------------------------
(* One output.                                                             *)

(* Is the output that the pass saw still there?                            *)
Fresh(w, p) == state[p] = "live" /\ gen[p] = pass[w].saw[p].gen

(* sweepOne hands the sweep over. The pass waits for the answer only as    *)
(* far as it matters: a failure near the expiry leads to a renewal. A pass *)
(* that finds no path, or fails before, is one whose submission is lost.   *)
Submit(w) ==
  /\ pass[w].at = "coin"
  /\ \E p \in pass[w].todo :
       /\ age[p] # "expired" \/ ~Fresh(w, p)
       /\ submitted' = IF Fresh(w, p) THEN submitted \cup {p} ELSE submitted
       /\ IF age[p] = "near" THEN Set(w, [pass[w] EXCEPT !.at = "sweeping", !.coin = p])
          ELSE Move(w, pass[w].scripts, pass[w].todo \ {p})
  /\ UNCHANGED <<state, gen, age, intents, phase, db, cursor>>

(* The emulator's reply says nothing of what arkd did with it.             *)
Replied(w) ==
  /\ pass[w].at = "sweeping"
  /\ NextCoin(w)
  /\ UNCHANGED <<chain, phase, db, cursor>>

(* An expired output, or one near its expiry whose sweep failed.           *)
Renewable(w) ==
  IF pass[w].at = "sweeping" THEN {pass[w].coin}
  ELSE {p \in pass[w].todo : pass[w].at = "coin" /\ age[p] = "expired"}

(* renew reads the output afresh, and gives up on one that was spent.      *)
Register(w, p) ==
  /\ p \in Renewable(w) /\ Fresh(w, p)
  /\ intents' = intents \cup {p}
  /\ Set(w, [pass[w] EXCEPT !.at = "joining", !.coin = p])
  /\ UNCHANGED <<state, gen, age, submitted, phase, db, cursor>>

RenewRefused(w) ==
  /\ \E p \in Renewable(w) : Move(w, pass[w].scripts, pass[w].todo \ {p})
  /\ UNCHANGED <<chain, phase, db, cursor>>

(* The batch is joined, or the renewal fails or times out: its intent is   *)
(* withdrawn, or stays when that fails as well.                            *)
RenewEnds(w) ==
  /\ pass[w].at = "joining"
  /\ NextCoin(w)
  /\ intents' \in {intents, intents \ {pass[w].coin}}
  /\ UNCHANGED <<state, gen, age, submitted, phase, db, cursor>>

-----------------------------------------------------------------------------
(* External: payers, arkd with its batches, the emulator, the recipient.   *)

Spend(p, to) ==
  /\ state' = [state EXCEPT ![p] = to]
  /\ submitted' = submitted \ {p} /\ intents' = intents \ {p}
  /\ UNCHANGED <<gen, age>>

Pay(p) ==
  /\ state[p] = "absent"
  /\ state' = [q \in Payments |-> IF TxOf[q] = TxOf[p] THEN "live" ELSE state[q]]
  /\ UNCHANGED <<gen, age, submitted, intents, phase, db, pass, cursor>>

SweepLands(p) ==
  /\ p \in submitted /\ age[p] # "expired"
  /\ Spend(p, "swept")
  /\ UNCHANGED <<phase, db, pass, cursor>>

SweepLost(p) ==
  /\ p \in submitted
  /\ submitted' = submitted \ {p}
  /\ UNCHANGED <<state, gen, age, intents, phase, db, pass, cursor>>

BatchCommits(p) ==
  /\ p \in intents /\ gen[p] < MaxRenewals[p]
  /\ gen' = [gen EXCEPT ![p] = @ + 1]
  /\ age' = [age EXCEPT ![p] = "young"]
  /\ submitted' = submitted \ {p} /\ intents' = intents \ {p}
  /\ UNCHANGED <<state, phase, db, pass, cursor>>

IntentExpires(p) ==
  /\ p \in intents
  /\ intents' = intents \ {p}
  /\ UNCHANGED <<state, gen, age, submitted, phase, db, pass, cursor>>

(* The recipient has leaves of their own.                                  *)
RecipientSpends(p) ==
  /\ state[p] = "live"
  /\ Spend(p, "taken")
  /\ UNCHANGED <<phase, db, pass, cursor>>

(* Bound: the last renewal of an output does not expire.                   *)
Expire(p) ==
  /\ state[p] = "live" /\ MaxRenewals[p] > 0
  /\ \/ age[p] = "young" /\ age' = [age EXCEPT ![p] = "near"]
     \/ age[p] = "near" /\ gen[p] < MaxRenewals[p] /\ age' = [age EXCEPT ![p] = "expired"]
  /\ UNCHANGED <<state, gen, submitted, intents, phase, db, pass, cursor>>

(* Time: windows and tails end in the order of the records.                *)
Lapse(s) ==
  /\ \/ /\ phase[s] = "open" /\ phase' = [phase EXCEPT ![s] = "lapsed"]
        /\ \A t \in Scripts : Rank[t] < Rank[s] => phase[t] # "open"
     \/ /\ phase[s] = "lapsed" /\ phase' = [phase EXCEPT ![s] = "gone"]
        /\ \A t \in Scripts : Rank[t] < Rank[s] => phase[t] = "gone"
  /\ UNCHANGED <<chain, db, pass, cursor>>

-----------------------------------------------------------------------------

Init ==
  /\ state = [p \in Payments |-> "absent"] /\ gen = [p \in Payments |-> 0]
  /\ age = [p \in Payments |-> "young"] /\ submitted = {} /\ intents = {}
  /\ phase = [s \in Scripts |-> "open"]
  /\ row = [s \in Scripts |-> "pending"]
  /\ reference = [s \in Scripts |-> None]
  /\ outpoint = [s \in Scripts |-> None] /\ payout = [s \in Scripts |-> None]
  /\ pass = [w \in Sweeps |-> Idle]
  /\ cursor = None

(* Nothing comes between a pass and its next await.                        *)
AtAwait == \A w \in Sweeps : pass[w].at # "script"

PassStep(w) ==
  \/ Script(w)
  \/ AtAwait /\ \/ Resolve(w) \/ ReadFails(w)
                \/ Submit(w) \/ Replied(w) \/ RenewRefused(w) \/ RenewEnds(w)
                \/ \E p \in Payments : Register(w, p)

MainStep == PassStep("main") \/ (AtAwait /\ MainStarts)
LateStep == PassStep("late") \/ (AtAwait /\ (LateStarts \/ Lookup))

World(p) ==
  \/ Pay(p) \/ SweepLands(p) \/ SweepLost(p) \/ BatchCommits(p)
  \/ IntentExpires(p) \/ RecipientSpends(p) \/ Expire(p)

Next ==
  \/ MainStep \/ LateStep
  \/ AtAwait /\ \/ \E s \in Scripts : Settle(s) \/ Lapse(s)
                \/ \E p \in Payments : World(p)

(* Promises settle and the loops go round. No read fails for ever, arkd    *)
(* takes in the end one of the sweeps and renewals of an output it is      *)
(* asked for again and again. Nobody owes a payment, an expiry or time.    *)
Records(w) == Script(w) /\ payout' # payout

Fairness ==
  /\ WF_vars(MainStep) /\ WF_vars(LateStep)
  /\ WF_vars(AtAwait /\ \E s \in Scripts : Settle(s))
  /\ SF_vars(Records("main"))
  /\ \A s \in Scripts :
       /\ SF_vars(AtAwait /\ s \in pass["late"].scripts /\ Lookup)
       /\ SF_vars(AtAwait /\ \E w \in Sweeps : s \in pass[w].scripts /\ Resolve(w))
  /\ \A p \in {p \in Payments : MaxRenewals[p] > 0} :
       SF_vars(AtAwait /\ \E w \in Sweeps : Register(w, p))
  /\ \A p \in Payments : SF_vars(AtAwait /\ (SweepLands(p) \/ BatchCommits(p)))

Spec == Init /\ [][Next]_vars
FairSpec == Spec /\ Fairness

-----------------------------------------------------------------------------

(* The outputs a settled record stands for: its receipt and what that was  *)
(* renewed into.                                                           *)
Receipt(s) ==
  {c \in Coins :
     /\ c[1] \in At(s) \cap Covers
     /\ c[2] <= gen[c[1]]
     /\ \E g \in 0..c[2] : Tx(<<c[1], g>>) = reference[s]}

(* payoutReference is terminal, it drops the script from every scope: only *)
(* the sweep to the recipient of the receipt itself, through whatever      *)
(* renewals, may be recorded, and never that of another output at the      *)
(* address or of the same transaction, however old the view it is read in. *)
PaidOutIsReceipt ==
  \A s \in Scripts : payout[s] # None =>
    /\ row[s] = "settled" /\ payout[s] \in Receipt(s)
    /\ state[payout[s][1]] = "swept" /\ gen[payout[s][1]] = payout[s][2]

(* "Money that arrived must always be swept": an output the server has yet *)
(* to move, the receipt of a settled record or any at the address of an    *)
(* unpaid one up to the end of its tail, does not stay where it is.        *)
Owed(p) ==
  LET s == ScriptOf[p] IN
  /\ state[p] = "live"
  /\ \/ row[s] = "pending" /\ phase[s] # "gone"
     \/ row[s] = "settled" /\ payout[s] = None /\ <<p, gen[p]>> \in Receipt(s)

MoneyIsMoved == \A p \in Payments : Owed(p) ~> ~Owed(p)

(* A settled record is paid out in the end, unless the recipient took the  *)
(* receipt elsewhere.                                                      *)
SettledIsPaidOut ==
  \A s \in Scripts :
    row[s] = "settled" ~> payout[s] # None \/ \E c \in Receipt(s) : state[c[1]] = "taken"
=============================================================================
