---------------------------- MODULE ArkadeWatcher ----------------------------
(***************************************************************************)
(* Payments made straight to a user's Arkade address. The address is the   *)
(* user's own, shared by all who pay it, so which record an arrival pays   *)
(* is the server's to work out: settleDestinationPayments lists the open   *)
(* records, asks the indexer for what arrived at their scripts and gives   *)
(* each record, oldest first, an arrival that covers it. The pass runs on  *)
(* the catch-up loop, and whenever the contract manager reports a payment. *)
(*                                                                         *)
(* A pass is cut at its await, the indexer's answer: records are accepted, *)
(* lapse and are paid between the listing, the answer and its use.         *)
(***************************************************************************)
EXTENDS Integers, FiniteSets

CONSTANTS
  Records,      (* records that may be accepted, each with an amount       *)
  Scripts, ScriptOf, Amount,         (* [Records -> Scripts], [.. -> Nat]   *)
  Early,        (* those an earlier process accepted                        *)
  Vtxos,        (* outputs that may arrive at the scripts                   *)
  VtxoScript, Value, Rank,           (* Rank: the order of txid and vout    *)
  Txids, TxOf,                       (* [Vtxos -> Txids]                    *)
  None,
  Window,       (* destinationWatchMs: how long a destination is honoured   *)
  Skew,         (* SETTLEMENT_SKEW_MS                                       *)
  Lag,          (* bound: how long the indexer may keep an arrival back     *)
  Chunk,        (* SCRIPT_QUERY_CHUNK                                       *)
  MaxTime       (* bound on the clock                                       *)

ASSUME WatcherAssumption ==
  /\ ScriptOf \in [Records -> Scripts] /\ Amount \in [Records -> Nat]
  /\ IsFiniteSet(Records) /\ Early \subseteq Records
  /\ VtxoScript \in [Vtxos -> Scripts] /\ Value \in [Vtxos -> Nat]
  /\ Rank \in [Vtxos -> Nat] /\ \A v, w \in Vtxos : Rank[v] = Rank[w] => v = w
  /\ TxOf \in [Vtxos -> Txids]
  /\ None \notin Vtxos /\ None \notin Txids
  /\ Window \in Nat /\ Skew \in Nat /\ Lag \in Nat /\ Chunk \in Nat \ {0}
  /\ MaxTime \in Nat

VARIABLES
  now,
  row,          (* settlements: none, pending or settled                    *)
  born,         (* created_at                                               *)
  reference,    (* payment_reference                                        *)
  credit,       (* the arrival a record was settled by                      *)
  at,           (* each arrival's createdAt, None before the indexer has it *)
  passing, again, timer,             (* the catch-up loop                   *)
  step,         (* of the pass: list, ask, wait (for the indexer) or use    *)
  todo,         (* records the pass listed and has not dealt with           *)
  asked,        (* scripts it asked the indexer about                       *)
  seen          (* the indexer's answer                                     *)

world == <<now, at>>
db    == <<row, born, reference, credit>>
loop  == <<passing, again, timer>>
pass  == <<step, todo, asked, seen>>
vars  == <<world, db, loop, pass>>

(* Scheduled and triggered at once. The watcher stops with the process.    *)
Loop == INSTANCE CatchUpLoop WITH Immediate <- TRUE, stopped <- FALSE,
          inFlight <- passing, queued <- again, next <- timer

TypeOK ==
  /\ now \in 0..MaxTime
  /\ row \in [Records -> {"none", "pending", "settled"}]
  /\ born \in [Records -> 0..MaxTime]
  /\ reference \in [Records -> Txids \cup {None}]
  /\ credit \in [Records -> Vtxos \cup {None}]
  /\ at \in [Vtxos -> Int \cup {None}]
  /\ passing \in BOOLEAN /\ again \in BOOLEAN /\ timer \in BOOLEAN
  /\ step \in {"list", "ask", "wait", "use"}
  /\ todo \in SUBSET Records /\ asked \in SUBSET Scripts /\ seen \in SUBSET Vtxos

-----------------------------------------------------------------------------
(* Which record an arrival pays.                                           *)

Arrived == {v \in Vtxos : at[v] # None}

(* Pending and inside its window: listPendingDestinations, markObserved.   *)
Open(r) == row[r] = "pending" /\ now - born[r] < Window

(* Mutant of Used: a pass remembers only its own assignments.              *)
UsedNever(v) == FALSE

(* Mutant of Used: the transaction is used, whichever script it paid.      *)
UsedAnywhere(v) == \E r \in Records : reference[r] = TxOf[v]

(* isReferenceUsed: its transaction has settled a record of this script.   *)
Used(v) == \E r \in Records : reference[r] = TxOf[v] /\ ScriptOf[r] = VtxoScript[v]

Covers(v, r) ==
  VtxoScript[v] = ScriptOf[r] /\ at[v] >= born[r] - Skew /\ Value[v] >= Amount[r]

(* Mutant of Sooner: ties go by txid and vout alone.                       *)
SoonerByRank(v, w) ==
  at[v] < at[w] \/ (at[v] = at[w] /\ Rank[v] < Rank[w])

(* Arrivals are tried by time, smallest first in a tie, then by rank.      *)
Sooner(v, w) ==
  \/ at[v] < at[w]
  \/ at[v] = at[w] /\ Value[v] < Value[w]
  \/ at[v] = at[w] /\ Value[v] = Value[w] /\ Rank[v] < Rank[w]

(* Mutant of Older: records are taken as the store lists them.             *)
OlderAsListed(q, r, listed) == listed[q] < listed[r]

(* Records are served by age; the sort keeps the store's order in a tie.   *)
Older(q, r, listed) ==
  born[q] < born[r] \/ (born[q] = born[r] /\ listed[q] < listed[r])

(* The orders in which a store may list the records.                       *)
Listings(records) ==
  {f \in [records -> 1..Cardinality(records)] : \A q, r \in records : f[q] = f[r] => q = r}

(* settleAtScript: gives[r] is the soonest arrival that covers r and was   *)
(* given to no older record.                                               *)
Assigns(gives, records, listed) ==
  \A r \in records :
    LET free == {v \in seen :
                   /\ ~Used(v) /\ Covers(v, r)
                   /\ \A q \in records : Older(q, r, listed) => gives[q] # v}
    IN  \/ free = {} /\ gives[r] = None
        \/ gives[r] \in free /\ \A w \in free \ {gives[r]} : Sooner(gives[r], w)

(* Mutant of MarkObserved: stores the output in place of the transaction.  *)
MarkObservedVtxo(rs, gives) ==
  /\ row' = [r \in Records |-> IF r \in rs THEN "settled" ELSE row[r]]
  /\ reference' = [r \in Records |-> IF r \in rs THEN gives[r] ELSE reference[r]]
  /\ credit' = [r \in Records |-> IF r \in rs THEN gives[r] ELSE credit[r]]
  /\ UNCHANGED born

MarkObserved(rs, gives) ==
  /\ row' = [r \in Records |-> IF r \in rs THEN "settled" ELSE row[r]]
  /\ reference' = [r \in Records |-> IF r \in rs THEN TxOf[gives[r]] ELSE reference[r]]
  /\ credit' = [r \in Records |-> IF r \in rs THEN gives[r] ELSE credit[r]]
  /\ UNCHANGED born

-----------------------------------------------------------------------------
(* The pass.                                                               *)

(* A pass runs on to its await before anything else in the process, and    *)
(* the world loses nothing by stepping only then.                          *)
AtAwait == step \in {"wait", "use"} \/ (step = "list" /\ ~passing)

PassLists ==
  /\ passing /\ step = "list"
  /\ step' = "ask"
  /\ todo' = {r \in Records : Open(r)}
  /\ UNCHANGED <<world, db, loop, asked, seen>>

(* The next scripts of the listing, at most a chunk of them.               *)
Ask ==
  LET scripts == {ScriptOf[r] : r \in todo} IN
  /\ step = "ask"
  /\ \E cs \in (SUBSET scripts) \ {{}} :
       /\ IF Cardinality(scripts) <= Chunk THEN cs = scripts ELSE Cardinality(cs) = Chunk
       /\ asked' = cs
  /\ step' = "wait"
  /\ UNCHANGED <<world, db, loop, todo, seen>>

(* External: the indexer answers.                                          *)
Answer ==
  /\ step = "wait"
  /\ seen' = {v \in Arrived : VtxoScript[v] \in asked}
  /\ step' = "use"
  /\ UNCHANGED <<world, db, loop, todo, asked>>

Rest == {r \in todo : ScriptOf[r] \notin asked}

(* A record that lapsed since it was listed still takes its arrival, and   *)
(* is not marked.                                                          *)
Use ==
  LET records == todo \ Rest IN
  /\ step = "use"
  /\ \E listed \in Listings(records), gives \in [records -> seen \cup {None}] :
       /\ Assigns(gives, records, listed)
       /\ MarkObserved({r \in records : gives[r] # None /\ Open(r)}, gives)
  /\ todo' = Rest
  /\ step' = "ask" /\ asked' = {} /\ seen' = {}
  /\ UNCHANGED <<world, loop>>

(* A failed read skips its own scripts until the next pass. A pass leaves  *)
(* nothing but rows behind, so a restart is a pass whose reads all failed. *)
AskFails ==
  /\ step = "wait"
  /\ todo' = Rest
  /\ step' = "ask" /\ asked' = {}
  /\ UNCHANGED <<world, db, loop, seen>>

PassEnds ==
  /\ step = "ask" /\ todo = {}
  /\ Loop!PassEnds
  /\ step' = "list"
  /\ UNCHANGED <<world, db, todo, asked, seen>>

(* A payment reported at a watched script; at any time, as reports of the  *)
(* past are repeated when a script is watched again.                       *)
Trigger ==
  /\ AtAwait
  /\ Loop!Trigger
  /\ UNCHANGED <<world, db, pass>>

TimerFires ==
  /\ AtAwait
  /\ Loop!TimerFires
  /\ UNCHANGED <<world, db, pass>>

-----------------------------------------------------------------------------
(* Around it.                                                              *)

(* A payer picks the arkade option: a record for the user's address.       *)
Accept(r) ==
  /\ AtAwait
  /\ row[r] = "none"
  /\ row' = [row EXCEPT ![r] = "pending"]
  /\ born' = [born EXCEPT ![r] = now]
  /\ UNCHANGED <<world, reference, credit, loop, pass>>

(* External: somebody pays the address, for a record or not; the indexer   *)
(* may show it late, under the time it arrived.                            *)
Arrive(v) ==
  /\ AtAwait
  /\ at[v] = None
  /\ \E late \in 0..Lag : at' = [at EXCEPT ![v] = now - late]
  /\ UNCHANGED <<now, db, loop, pass>>

Tick ==
  /\ AtAwait
  /\ now < MaxTime
  /\ now' = now + 1
  /\ UNCHANGED <<at, db, loop, pass>>

Init ==
  /\ now = 0
  /\ row = [r \in Records |-> IF r \in Early THEN "pending" ELSE "none"]
  /\ born = [r \in Records |-> 0]
  /\ reference = [r \in Records |-> None]
  /\ credit = [r \in Records |-> None]
  /\ at = [v \in Vtxos |-> None]
  /\ Loop!Init
  /\ step = "list" /\ todo = {} /\ asked = {} /\ seen = {}

PassStep == PassLists \/ Ask \/ Answer \/ Use \/ AskFails \/ PassEnds

Next ==
  \/ PassStep
  \/ Trigger \/ TimerFires
  \/ \E r \in Records : Accept(r)
  \/ \E v \in Vtxos : Arrive(v)
  \/ Tick

(* Promises settle, timers fire, and the indexer does not fail for ever on *)
(* any script; nobody owes a payment, a report of one or a tick.           *)
Fairness ==
  /\ WF_vars(PassStep) /\ WF_vars(TimerFires)
  /\ \A s \in Scripts : SF_vars(s \in asked /\ Answer)

Spec == Init /\ [][Next]_vars
FairSpec == Spec /\ Fairness

-----------------------------------------------------------------------------

(* A record counts as paid only by an arrival of its own script, no older  *)
(* than the record but for the skew, that covers its amount, and no        *)
(* arrival pays two records: not in one pass, nor in a later one over an   *)
(* answer that lists it again, nor after a restart.                        *)
CreditsAreJust ==
  /\ \A r \in Records : row[r] = "settled" =>
       credit[r] \in Arrived /\ VtxoScript[credit[r]] = ScriptOf[r]
         /\ at[credit[r]] >= born[r] - Skew /\ Value[credit[r]] >= Amount[r]
  /\ \A q, r \in Records :
       q # r /\ row[q] = "settled" /\ row[r] = "settled" => credit[q] # credit[r]

(* "Oldest record first": no record is paid by an arrival that an older    *)
(* one at the script, still in its window, could have taken and did not    *)
(* get, whatever was accepted or lapsed while the indexer was asked.       *)
OldestFirst ==
  [][\A q, r \in Records :
       row[r] = "pending" /\ row'[r] = "settled"
         /\ ScriptOf[q] = ScriptOf[r] /\ born[q] < born[r] /\ Open(q)
         /\ Value[credit'[r]] >= Amount[q]
       => row'[q] = "settled"]_vars

(* Of payments to s that arrived at the same time, no other assignment to  *)
(* the records listed would settle more of them than this step does.       *)
NoWaste(s) ==
  LET records == {r \in todo : ScriptOf[r] = s /\ Open(r)}
      free == {v \in seen : VtxoScript[v] = s /\ ~Used(v)}
  IN  (\A v, w \in free : at[v] = at[w]) /\ (\A r \in todo : Open(r)) =>
        \A gives \in [records -> free \cup {None}] :
          (\A r \in records : gives[r] # None =>
             /\ at[gives[r]] >= born[r] - Skew /\ Value[gives[r]] >= Amount[r]
             /\ \A q \in records \ {r} : gives[q] # gives[r])
          => Cardinality({r \in records : gives[r] # None})
               <= Cardinality({r \in records : row'[r] = "settled"})

(* "An older small record cannot take the payment a larger one needs": of  *)
(* arrivals of the same moment a pass settles all that could be settled.   *)
TiesWasteNothing ==
  [][step = "use" /\ step' = "ask" => \A s \in asked : NoWaste(s)]_vars

(* An open record and a payment that would settle it do not stay together: *)
(* the record is settled, lapses, or the payment goes to another record.   *)
Payable(r) ==
  /\ Open(r)
  /\ \E v \in Arrived :
       /\ VtxoScript[v] = ScriptOf[r]
       /\ at[v] >= born[r] - Skew /\ Value[v] >= Amount[r]
       /\ \A q \in Records : ScriptOf[q] = ScriptOf[r] => reference[q] # TxOf[v]

(* Through failed reads, and when it arrives while a pass looks elsewhere. *)
PaymentsAreCredited ==
  \A r \in Records : Payable(r) ~> ~Payable(r)
=============================================================================
