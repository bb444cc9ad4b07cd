---------------------------- MODULE OfflineSwap ----------------------------
(***************************************************************************)
(* A Lightning payment to a receiver who is offline.                       *)
(*                                                                         *)
(* The server asks a solver for a hold invoice whose secret P the server   *)
(* chose, keeps P in its database and gives the payer the invoice          *)
(* (createOfflineSwapInvoice). Once the payer's money is held, the solver  *)
(* funds a lockup on Arkade. Whoever knows P can spend it, but only to the *)
(* receiver's address; after the refund deadline the solver can take it    *)
(* back. The settlement poller claims the lockup (covenant/self-claim.ts)  *)
(* or waits for covclaimd to, and settles the row once it has read that    *)
(* payout off the chain. Only then does the public verify URL publish P,   *)
(* which is what lets the solver collect from the payer.                   *)
(*                                                                         *)
(* A poller task is cut into the stretches of code between its awaits: one *)
(* action each, named by the await it comes back from. Any other task, the *)
(* chain, the clock and a restart may step in between.                     *)
(***************************************************************************)
EXTENDS Integers, FiniteSets, FiniteSetsExt

CONSTANTS
  Swaps,            (* swaps, one lockup script each                       *)
  Coins,            (* outputs that may ever reach a lockup                *)
  LockupOf,         (* [Coins -> Swaps]                                    *)
  Value,            (* [Coins -> Nat], sats                                *)
  Expected,         (* to_amount: what a lockup must hold for a claim      *)
  RefundAfter,      (* refundLocktime, from the row's creation             *)
  Ttl,              (* VERIFY_TTL_MS: the window of the settlement row     *)
  ExternalClaimer,  (* is a covclaimd configured, which also knows P?      *)
  Overfunds,        (* may coins reach a lockup that is full or spent?     *)
  MaxTime,          (* bound on the clock                                  *)
  MaxRestarts       (* bound on the restarts of the server                 *)

ASSUME ConstantsAssumption ==
  /\ LockupOf \in [Coins -> Swaps]
  /\ Value \in [Coins -> Nat]
  /\ Expected \in Nat
  /\ RefundAfter \in Nat /\ Ttl \in Nat /\ MaxTime \in Nat /\ MaxRestarts \in Nat
  /\ ExternalClaimer \in BOOLEAN /\ Overfunds \in BOOLEAN

(***************************************************************************)
(* A transaction is named by the coins it spends, as a txid commits to     *)
(* its inputs; the empty set stands for no transaction.                    *)
(***************************************************************************)
Txs == (SUBSET Coins) \ {{}}
NoTx == {}

VARIABLES
  now, restarts,
  selfClaim,          (* OFFLINE_SELF_CLAIM of the running process         *)
  legacy,             (* swaps an older build settled with no payout       *)
  row,                (* settlements.settled: none, pending or settled     *)
  born,               (* settlements.created_at                            *)
  payoutReference,    (* settlements.payout_reference, NoTx while null     *)
  coin, spender,      (* each coin at its lockup, and the tx that spent it *)
  inflight,           (* claims handed to the emulator, not yet on chain   *)
  task, job,          (* where each swap's task is, and which caller it has*)
  batch,              (* the coins a claim read as spendable               *)
  expired, closed,    (* the poller's caches                               *)
  asked               (* swaps recordMissedPayouts has looked up           *)

env    == <<now, restarts, selfClaim, legacy>>
db     == <<row, born, payoutReference>>
chain  == <<coin, spender>>
caches == <<expired, closed, asked>>
vars   == <<env, db, chain, inflight, task, job, batch, caches>>

Steps == {"idle", "spendable", "landed", "prepare", "submit", "resolve",
          "history", "status", "observe", "lookup", "settle"}

TypeOK ==
  /\ now \in 0..MaxTime /\ restarts \in 0..MaxRestarts
  /\ selfClaim \in BOOLEAN
  /\ legacy \in SUBSET Swaps
  /\ row \in [Swaps -> {"none", "pending", "settled"}]
  /\ born \in [Swaps -> 0..MaxTime]
  /\ payoutReference \in [Swaps -> SUBSET Coins]
  /\ coin \in [Coins -> {"absent", "live", "paid", "refunded"}]
  /\ spender \in [Coins -> SUBSET Coins]
  /\ inflight \in SUBSET Txs
  /\ task \in [Swaps -> Steps]
  /\ job \in [Swaps -> {"settle", "missed"}]
  /\ batch \in [Swaps -> SUBSET Coins]
  /\ expired \in SUBSET Swaps /\ closed \in SUBSET Swaps /\ asked \in SUBSET Swaps

-----------------------------------------------------------------------------
(* The chain as the indexer shows it.                                      *)

CoinsOf(s)   == {c \in Coins : LockupOf[c] = s}
Ever(s)      == {c \in CoinsOf(s) : coin[c] # "absent"}
Spendable(s) == {c \in CoinsOf(s) : coin[c] = "live"}
Total(cs)    == MapThenSumSet(LAMBDA c : Value[c], cs)

(* tx is on the chain and paid its coins to the receiver of s.             *)
Landed(s, tx) ==
  /\ tx # NoTx /\ tx \subseteq CoinsOf(s)
  /\ \A c \in tx : coin[c] = "paid" /\ spender[c] = tx

(* Mutant of PayoutSeen: the spend's outputs are not compared to payTo.    *)
AnySpendSeen(s, tx) ==
  /\ Ever(s) # {}
  /\ \A c \in Ever(s) : coin[c] # "live" /\ spender[c] = tx

(* observedPayout: every coin that ever reached the lockup was spent by    *)
(* the one transaction tx, and tx paid each of them to the receiver.       *)
PayoutSeen(s, tx) ==
  /\ Ever(s) # {}
  /\ \A c \in Ever(s) : coin[c] = "paid" /\ spender[c] = tx

NoPayoutSeen(s) == \A tx \in Txs : ~PayoutSeen(s, tx)

(* The row's own windows: the deadline is a quote's, the TTL the server's. *)
RefundOpen(s) == now >= born[s] + RefundAfter
InWindow(s)   == now - born[s] < Ttl

Pending(s)    == row[s] = "pending" /\ InWindow(s)
Unrecorded(s) == row[s] = "settled" /\ payoutReference[s] = NoTx /\ InWindow(s)

(* revealedPreimage, behind a get that hides a lapsed row.                 *)
Revealed(s) == row[s] = "settled" /\ payoutReference[s] # NoTx /\ InWindow(s)

-----------------------------------------------------------------------------
(* Offering a swap: quote, lockup registration, one transaction for the    *)
(* settlement and its recovery row, and only then the invoice.             *)

Accept(s) ==
  /\ row[s] = "none"
  /\ row' = [row EXCEPT ![s] = "pending"]
  /\ born' = [born EXCEPT ![s] = now]
  /\ UNCHANGED <<env, payoutReference, chain, inflight, task, job, batch, caches>>

-----------------------------------------------------------------------------
(* The claim, shared by its two callers. ClaimDone is what each caller     *)
(* makes of a payout; ClaimSkipped of an answer without one; ClaimFailed   *)
(* of an exception.                                                        *)

(* Mutant of MarkPaidOut: stores the list of spends, not the one payout.   *)
MarkPaidOutList(s, tx) ==
  payoutReference' = [payoutReference EXCEPT ![s] = IF @ = NoTx THEN {tx} ELSE @]

MarkPaidOut(s, tx) ==
  payoutReference' = [payoutReference EXCEPT ![s] = IF @ = NoTx THEN tx ELSE @]

(* A swap the solver closed is not asked about again.                      *)
AfterClaim(s) == IF s \in closed THEN "idle" ELSE "status"

ClaimDone(s, tx) ==
  /\ MarkPaidOut(s, tx)
  /\ IF job[s] = "settle"
     THEN /\ task' = [task EXCEPT ![s] = "settle"]
          /\ UNCHANGED asked
     ELSE /\ task' = [task EXCEPT ![s] = "idle"]
          /\ asked' = asked \cup {s}
  /\ UNCHANGED <<row, born, expired, closed>>

ClaimSkipped(s) ==
  /\ IF job[s] = "settle"
     THEN /\ task' = [task EXCEPT ![s] = AfterClaim(s)]
          /\ UNCHANGED asked
     ELSE /\ task' = [task EXCEPT ![s] = "idle"]
          /\ asked' = asked \cup {s}
  /\ UNCHANGED <<db, closed>>

ClaimFailed(s) ==
  /\ task' = [task EXCEPT ![s] = IF job[s] = "settle" THEN AfterClaim(s) ELSE "idle"]
  /\ UNCHANGED <<db, caches>>

(* claim: past the deadline P is not published, only history is read.      *)
ClaimEntry(s) == IF RefundOpen(s) THEN "history" ELSE "spendable"

(* runOne and the head of settleOne.                                       *)
StartSettle(s) ==
  /\ task[s] = "idle"
  /\ Pending(s)
  /\ job' = [job EXCEPT ![s] = "settle"]
  /\ task' = [task EXCEPT ![s] =
       IF selfClaim /\ s \notin expired THEN ClaimEntry(s) ELSE AfterClaim(s)]
  /\ UNCHANGED <<env, db, chain, inflight, batch, caches>>

(* recordMissedPayouts: one look at each settled row that names no payout. *)
StartMissed(s) ==
  /\ task[s] = "idle"
  /\ Unrecorded(s)
  /\ s \notin asked
  /\ job' = [job EXCEPT ![s] = "missed"]
  /\ task' = [task EXCEPT ![s] = IF selfClaim THEN ClaimEntry(s) ELSE "lookup"]
  /\ UNCHANGED <<env, db, chain, inflight, batch, caches>>

(* Mutant of ReadSpendable: claims whatever is there.                      *)
ReadSpendableAny(s) ==
  /\ task[s] = "spendable"
  /\ \/ Spendable(s) = {} /\ task' = [task EXCEPT ![s] = "landed"] /\ UNCHANGED batch
     \/ /\ Spendable(s) # {}
        /\ batch' = [batch EXCEPT ![s] = Spendable(s)]
        /\ task' = [task EXCEPT ![s] = "prepare"]
  /\ UNCHANGED <<env, db, chain, inflight, job, caches>>

(* The answer to the spendable query.                                      *)
ReadSpendable(s) ==
  /\ task[s] = "spendable"
  /\ \/ /\ Spendable(s) = {}
        /\ task' = [task EXCEPT ![s] = "landed"]
        /\ UNCHANGED <<db, caches, batch>>
     \/ /\ Spendable(s) # {} /\ Total(Spendable(s)) < Expected
        /\ ClaimSkipped(s)
        /\ UNCHANGED <<batch, expired>>
     \/ /\ Spendable(s) # {} /\ Total(Spendable(s)) >= Expected
        /\ batch' = [batch EXCEPT ![s] = Spendable(s)]
        /\ task' = [task EXCEPT ![s] = "prepare"]
        /\ UNCHANGED <<db, caches>>
  /\ UNCHANGED <<env, chain, inflight, job>>

(* Operator info and previous transactions are in: the claim, carrying P,  *)
(* goes to the emulator. The deadline is not looked at again.              *)
Submit(s) ==
  /\ task[s] = "prepare"
  /\ inflight' = inflight \cup {batch[s]}
  /\ task' = [task EXCEPT ![s] = "submit"]
  /\ UNCHANGED <<env, db, chain, job, batch, caches>>

SubmitReplies(s) ==
  /\ task[s] = "submit"
  /\ Landed(s, batch[s])
  /\ ClaimDone(s, batch[s])
  /\ UNCHANGED <<env, chain, inflight, job, batch>>

(* Mutant of SubmitFails: the txid is known beforehand, so it is reported  *)
(* without asking the chain whether it landed.                             *)
SubmitFailsAsDone(s) ==
  /\ task[s] = "submit"
  /\ ClaimDone(s, batch[s])
  /\ UNCHANGED <<env, chain, inflight, job, batch>>

(* The emulator refused, timed out, or answered after it had timed out.    *)
SubmitFails(s) ==
  /\ task[s] = "submit"
  /\ task' = [task EXCEPT ![s] = "resolve"]
  /\ UNCHANGED <<env, db, chain, inflight, job, batch, caches>>

(* Mutant of ReadLanded: nothing spendable is taken for not funded yet.    *)
ReadLandedUnfunded(s) ==
  /\ task[s] = "landed"
  /\ ClaimSkipped(s)
  /\ UNCHANGED <<env, chain, inflight, job, batch, expired>>

(* Nothing was spendable: unfunded, or already claimed by anyone.          *)
ReadLanded(s) ==
  /\ task[s] = "landed"
  /\ \/ \E tx \in Txs : PayoutSeen(s, tx) /\ ClaimDone(s, tx)
     \/ NoPayoutSeen(s) /\ ClaimSkipped(s) /\ UNCHANGED expired
  /\ UNCHANGED <<env, chain, inflight, job, batch>>

(* A failed submission may have landed all the same.                       *)
ReadResolve(s) ==
  /\ task[s] = "resolve"
  /\ \/ \E tx \in Txs : PayoutSeen(s, tx) /\ ClaimDone(s, tx)
     \/ NoPayoutSeen(s) /\ ClaimFailed(s)
  /\ UNCHANGED <<env, chain, inflight, job, batch>>

(* Mutant of ReadHistory: past the deadline is past caring.                *)
ReadHistoryBlind(s) ==
  /\ task[s] = "history"
  /\ ClaimSkipped(s)
  /\ expired' = IF job[s] = "settle" THEN expired \cup {s} ELSE expired
  /\ UNCHANGED <<env, chain, inflight, job, batch>>

(* Past the deadline: paid before it, or given up. Only settleOne keeps    *)
(* the verdict.                                                            *)
ReadHistory(s) ==
  /\ task[s] = "history"
  /\ \/ \E tx \in Txs : PayoutSeen(s, tx) /\ ClaimDone(s, tx)
     \/ /\ NoPayoutSeen(s)
        /\ ClaimSkipped(s)
        /\ expired' = IF job[s] = "settle" THEN expired \cup {s} ELSE expired
  /\ UNCHANGED <<env, chain, inflight, job, batch>>

(* Any of the claim's awaits may throw.                                    *)
ClaimThrows(s) ==
  /\ task[s] \in {"spendable", "landed", "prepare", "resolve", "history"}
  /\ ClaimFailed(s)
  /\ UNCHANGED <<env, chain, inflight, job, batch>>

-----------------------------------------------------------------------------
(* The rest of settleOne: the solver's word, and what it takes to believe  *)
(* it.                                                                     *)

(* "settled" sends the task to look for the payout; a state of             *)
(* CLOSED_RFQ_STATES is remembered; anything else, or an exception, waits. *)
ReadStatus(s) ==
  /\ task[s] = "status"
  /\ \/ task' = [task EXCEPT ![s] = "observe"] /\ UNCHANGED closed
     \/ task' = [task EXCEPT ![s] = "idle"] /\ closed' = closed \cup {s}
     \/ task' = [task EXCEPT ![s] = "idle"] /\ UNCHANGED closed
  /\ UNCHANGED <<env, db, chain, inflight, job, batch, expired, asked>>

(* Mutant of ReadObserve: the solver's "settled" is enough.                *)
ReadObserveTrusting(s) ==
  /\ task[s] = "observe"
  /\ task' = [task EXCEPT ![s] = "settle"]
  /\ \/ \E tx \in Txs : PayoutSeen(s, tx) /\ MarkPaidOut(s, tx)
     \/ NoPayoutSeen(s) /\ UNCHANGED payoutReference
  /\ UNCHANGED <<env, row, born, chain, inflight, job, batch, caches>>

(* recordPayout. Without evidence, or with a failed read, the swap stays   *)
(* pending and the claim is armed again.                                   *)
ReadObserve(s) ==
  /\ task[s] = "observe"
  /\ \/ /\ \E tx \in Txs : PayoutSeen(s, tx) /\ MarkPaidOut(s, tx)
        /\ task' = [task EXCEPT ![s] = "settle"]
        /\ UNCHANGED expired
     \/ /\ NoPayoutSeen(s)
        /\ task' = [task EXCEPT ![s] = "idle"]
        /\ expired' = expired \ {s}
        /\ UNCHANGED payoutReference
  /\ UNCHANGED <<env, row, born, chain, inflight, job, batch, closed, asked>>

ObserveThrows(s) ==
  /\ task[s] = "observe"
  /\ task' = [task EXCEPT ![s] = "idle"]
  /\ expired' = expired \ {s}
  /\ UNCHANGED <<env, db, chain, inflight, job, batch, closed, asked>>

(* markSettled, a statement of its own after markPaidOut's.                *)
MarkSettled(s) ==
  /\ task[s] = "settle"
  /\ row' = [row EXCEPT ![s] = IF Pending(s) THEN "settled" ELSE @]
  /\ task' = [task EXCEPT ![s] = "idle"]
  /\ UNCHANGED <<env, born, payoutReference, chain, inflight, job, batch, caches>>

(* recordMissedPayouts without self-claim: the indexer alone.              *)
ReadLookup(s) ==
  /\ task[s] = "lookup"
  /\ \/ \E tx \in Txs : PayoutSeen(s, tx) /\ ClaimDone(s, tx)
     \/ NoPayoutSeen(s) /\ ClaimSkipped(s) /\ UNCHANGED expired
  /\ UNCHANGED <<env, chain, inflight, job, batch>>

LookupThrows(s) ==
  /\ task[s] = "lookup"
  /\ ClaimFailed(s)
  /\ UNCHANGED <<env, chain, inflight, job, batch>>

(* The head of a catch-up pass: caches keep only rows that still need them.*)
PassPrunes ==
  /\ expired' = {s \in expired : Pending(s)}
  /\ closed' = {s \in closed : Pending(s)}
  /\ asked' = {s \in asked : Unrecorded(s)}
  /\ caches' # caches
  /\ UNCHANGED <<env, db, chain, inflight, task, job, batch>>

-----------------------------------------------------------------------------
(* The world around the server (external): solver, covclaimd, emulator and *)
(* operator, the clock, and the process being restarted.                   *)

(* A solver may fund piecemeal, and stops at the quote unless Overfunds.   *)
Fund(c) ==
  LET s == LockupOf[c] IN
  /\ row[s] # "none"
  /\ coin[c] = "absent"
  /\ \/ Overfunds
     \/ Ever(s) = Spendable(s) /\ ~(Total(Ever(s)) >= Expected)
  /\ coin' = [coin EXCEPT ![c] = "live"]
  /\ UNCHANGED <<env, db, spender, inflight, task, job, batch, caches>>

Refund(c) ==
  /\ coin[c] = "live"
  /\ RefundOpen(LockupOf[c])
  /\ coin' = [coin EXCEPT ![c] = "refunded"]
  /\ spender' = [spender EXCEPT ![c] = {c}]
  /\ UNCHANGED <<env, db, inflight, task, job, batch, caches>>

(* tx is taken by the operator: its coins now belong to the receiver.      *)
Pay(tx) ==
  /\ coin' = [c \in Coins |-> IF c \in tx THEN "paid" ELSE coin[c]]
  /\ spender' = [c \in Coins |-> IF c \in tx THEN tx ELSE spender[c]]

ExternalClaim(s) ==
  /\ ExternalClaimer
  /\ Spendable(s) # {}
  /\ Pay(Spendable(s))
  /\ UNCHANGED <<env, db, inflight, task, job, batch, caches>>

(* May come long after the poller was told that its submission failed.     *)
ClaimLands(tx) ==
  /\ tx \in inflight
  /\ \A c \in tx : coin[c] = "live"
  /\ Pay(tx)
  /\ inflight' = inflight \ {tx}
  /\ UNCHANGED <<env, db, task, job, batch, caches>>

ClaimLost(tx) ==
  /\ tx \in inflight
  /\ inflight' = inflight \ {tx}
  /\ UNCHANGED <<env, db, chain, task, job, batch, caches>>

Tick ==
  /\ now < MaxTime
  /\ now' = now + 1
  /\ UNCHANGED <<restarts, selfClaim, legacy, db, chain, inflight, task, job, batch, caches>>

(* The rows survive; tasks and caches do not. An operator may have changed *)
(* OFFLINE_SELF_CLAIM, which is required when there is no covclaimd.       *)
Restart ==
  /\ restarts < MaxRestarts
  /\ restarts' = restarts + 1
  /\ selfClaim' \in IF ExternalClaimer THEN BOOLEAN ELSE {TRUE}
  /\ task' = [s \in Swaps |-> "idle"]
  /\ job' = [s \in Swaps |-> "settle"]
  /\ batch' = [s \in Swaps |-> {}]
  /\ expired' = {} /\ closed' = {} /\ asked' = {}
  /\ UNCHANGED <<now, legacy, db, chain, inflight>>

-----------------------------------------------------------------------------
(* The server starts over a database an older build may have written: that *)
(* build settled on the solver's word, so a settled row may name no payout *)
(* and its lockup may be empty, funded or paid.                            *)
Init ==
  /\ now = 0 /\ restarts = 0
  /\ selfClaim \in IF ExternalClaimer THEN BOOLEAN ELSE {TRUE}
  /\ legacy \in SUBSET Swaps
  /\ row = [s \in Swaps |-> IF s \in legacy THEN "settled" ELSE "none"]
  /\ born = [s \in Swaps |-> 0]
  /\ payoutReference = [s \in Swaps |-> NoTx]
  /\ coin \in [Coins -> {"absent", "live", "paid"}]
  /\ \A c \in Coins : LockupOf[c] \notin legacy => coin[c] = "absent"
  /\ spender = [c \in Coins |->
       IF coin[c] = "paid" THEN {d \in CoinsOf(LockupOf[c]) : coin[d] = "paid"} ELSE NoTx]
  /\ inflight = {}
  /\ task = [s \in Swaps |-> "idle"]
  /\ job = [s \in Swaps |-> "settle"]
  /\ batch = [s \in Swaps |-> {}]
  /\ expired = {} /\ closed = {} /\ asked = {}

TaskStep(s) ==
  \/ ReadSpendable(s) \/ Submit(s) \/ SubmitReplies(s) \/ SubmitFails(s)
  \/ ReadLanded(s) \/ ReadResolve(s) \/ ReadHistory(s) \/ ClaimThrows(s)
  \/ ReadStatus(s) \/ ReadObserve(s) \/ ObserveThrows(s) \/ MarkSettled(s)
  \/ ReadLookup(s) \/ LookupThrows(s)

Next ==
  \/ \E s \in Swaps : Accept(s) \/ StartSettle(s) \/ StartMissed(s) \/ TaskStep(s)
                      \/ ExternalClaim(s)
  \/ \E c \in Coins : Fund(c) \/ Refund(c)
  \/ \E tx \in Txs : ClaimLands(tx) \/ ClaimLost(tx)
  \/ PassPrunes
  \/ Tick
  \/ Restart

(* Every pass visits every pending row, an await always comes back, and    *)
(* the indexer does not fail for ever. Nothing is owed by the solver,      *)
(* covclaimd, the emulator or the clock.                                   *)
Fairness ==
  \A s \in Swaps :
    /\ WF_vars(StartSettle(s)) /\ WF_vars(StartMissed(s))
    /\ WF_vars(TaskStep(s))
    /\ SF_vars(ReadSpendable(s)) /\ SF_vars(ReadLanded(s)) /\ SF_vars(ReadHistory(s))
    /\ SF_vars(ReadLookup(s))

Spec == Init /\ [][Next]_vars
FairSpec == Spec /\ Fairness
-----------------------------------------------------------------------------
(* What makes it correct.                                                  *)

(* Verify never publishes a preimage, the proof of a receive, for a payout *)
(* that is not on the chain paying that very lockup to the receiver: not   *)
(* on the solver's word, not for a refund, and whatever a claim whose      *)
(* reply was lost turned into.                                             *)
RevealedOnlyIfPaid ==
  \A s \in Swaps : Revealed(s) => Landed(s, payoutReference[s])

(* settleOne records the payout before it settles, so a crash between the  *)
(* two never leaves a settled row without one, whose preimage would be     *)
(* withheld for good; only rows an older build settled can lack it.        *)
SettledHasPayout ==
  \A s \in Swaps \ legacy : row[s] = "settled" => payoutReference[s] # NoTx

(* The poller never hands the emulator a claim, which makes P public, for  *)
(* less than the quote, whichever coins came or went since it read them.   *)
ClaimsPayQuote ==
  \A tx \in inflight : Total(tx) >= Expected

(* Every coin the lockup ever had went to the receiver.                    *)
FullyPaid(s) == Ever(s) # {} /\ \A c \in Ever(s) : coin[c] = "paid"

(* "A claim that landed before the deadline still paid the user, however   *)
(* late we see it": a swap is put aside as expired only if its lockup was  *)
(* not paid to the receiver in full.                                       *)
GivesUpOnlyUnpaid ==
  [][\A s \in expired' \ expired : ~FullyPaid(s)]_vars

(* As long as the poller claims at all, a lockup paid to the receiver      *)
(* before the deadline is found and its preimage published, unless the row *)
(* lapses first: through lost replies, failed reads, restarts and whatever *)
(* the solver says.                                                        *)
PaidIsRevealed ==
  <>[]selfClaim =>
    \A s \in Swaps :
      (Pending(s) /\ FullyPaid(s) /\ ~RefundOpen(s)) ~> (Revealed(s) \/ ~InWindow(s))

(* The promise of module Receive: one proof per swap, and only for a       *)
(* transaction that had already landed.                                    *)
Offered   == {s \in Swaps : row[s] # "none"}
Received  == [s \in Swaps |-> {spender[c] : c \in {d \in CoinsOf(s) : coin[d] = "paid"}}]
Published == [s \in Swaps |-> IF row[s] = "settled" THEN payoutReference[s] ELSE NoTx]

R == INSTANCE Receive WITH promised <- Offered, received <- Received, proof <- Published

ImplementsReceive == R!Spec

(* "a short lockup is still refused as `underfunded` rather than revealing *)
(* the preimage for less than the quote" (CHANGELOG.md).                   *)
RevealPaysQuote ==
  \A s \in Swaps \ legacy : Revealed(s) => Total(payoutReference[s]) >= Expected
=============================================================================
