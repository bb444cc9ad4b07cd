-------------------------- MODULE OfflineSwapProofs --------------------------
(***************************************************************************)
(* For any set of swaps, coins, deadlines and windows: the verify endpoint *)
(* reveals a preimage only behind a payout on the chain, whatever the      *)
(* solver, covclaimd, the emulator, the clock and restarts do.             *)
(*                                                                         *)
(* The argument: a coin that was paid out stays paid by the same           *)
(* transaction (PaidStays), so evidence cannot go stale between the read   *)
(* that saw it and the write that relies on it; and every path that writes *)
(* a payout_reference passes by a payout that landed (SeenLanded). What    *)
(* the runs refute in general is proved at the end of the worlds where it  *)
(* holds: solvers that stop at the quote, servers without a covclaimd.     *)
(***************************************************************************)
EXTENDS OfflineSwap, TLAPS

(* What a task carries from one await to the next.                         *)
TaskInv ==
  \A s \in Swaps :
    /\ task[s] = "settle" => payoutReference[s] # NoTx
    /\ task[s] \in {"prepare", "submit"} =>
         batch[s] # {} /\ batch[s] \subseteq CoinsOf(s) /\ Total(batch[s]) >= Expected

(* Every recorded payout is on the chain.                                  *)
ReferenceInv ==
  \A s \in Swaps : payoutReference[s] # NoTx => Landed(s, payoutReference[s])

(* A claim spends coins of one lockup, worth the quote.                    *)
InflightInv ==
  \A tx \in inflight :
    /\ tx # {} /\ Total(tx) >= Expected
    /\ \E s \in Swaps : tx \subseteq CoinsOf(s)

(* A transaction that pays takes all of its coins, from one lockup.        *)
ChainInv ==
  \A c \in Coins : coin[c] = "paid" =>
    /\ c \in spender[c]
    /\ \A d \in spender[c] :
         LockupOf[d] = LockupOf[c] /\ coin[d] = "paid" /\ spender[d] = spender[c]

(* Nothing reaches the lockup of a swap that was never offered.            *)
OfferInv ==
  \A c \in Coins : row[LockupOf[c]] = "none" => coin[c] = "absent"

IInv ==
  /\ TypeOK /\ TaskInv /\ ReferenceInv /\ InflightInv /\ ChainInv /\ OfferInv
  /\ SettledHasPayout

-----------------------------------------------------------------------------

LEMMA TypeInit == Init => TypeOK
<1> SUFFICES ASSUME Init PROVE TypeOK
  OBVIOUS
<1> USE ConstantsAssumption DEF ConstantsAssumption, Init
<1>1. now \in 0..MaxTime /\ restarts \in 0..MaxRestarts
  OBVIOUS
<1>6. selfClaim \in BOOLEAN
  BY Zenon
<1>2. row \in [Swaps -> {"none", "pending", "settled"}] /\ born \in [Swaps -> 0..MaxTime]
  OBVIOUS
<1>3. payoutReference \in [Swaps -> SUBSET Coins] /\ spender \in [Coins -> SUBSET Coins]
  BY DEF NoTx, CoinsOf
<1>4. coin \in [Coins -> {"absent", "live", "paid", "refunded"}]
  OBVIOUS
<1>5. /\ inflight \in SUBSET Txs /\ task \in [Swaps -> Steps]
      /\ job \in [Swaps -> {"settle", "missed"}] /\ batch \in [Swaps -> SUBSET Coins]
  BY DEF Steps
<1> QED
  BY <1>1, <1>2, <1>3, <1>4, <1>5, <1>6 DEF TypeOK

(* One step per action; the claim's outcomes are shared by their callers.  *)
LEMMA TypeStep == TypeOK /\ TaskInv /\ [Next]_vars => TypeOK'
<1> SUFFICES ASSUME TypeOK, TaskInv, [Next]_vars PROVE TypeOK'
  OBVIOUS
<1> USE DEF TypeOK, env, db, chain, caches
<1>0. ASSUME NEW s \in Swaps PROVE AfterClaim(s) \in Steps /\ ClaimEntry(s) \in Steps
  BY DEF AfterClaim, ClaimEntry, Steps
<1>1. ASSUME NEW s \in Swaps, Accept(s) PROVE TypeOK'
  BY <1>1 DEF Accept
<1>2. ASSUME NEW s \in Swaps, StartSettle(s) \/ StartMissed(s) PROVE TypeOK'
  <2>1. task' \in [Swaps -> Steps] /\ job' \in [Swaps -> {"settle", "missed"}]
    BY <1>0, <1>2 DEF StartSettle, StartMissed, Steps
  <2> QED
    BY <2>1, <1>2 DEF StartSettle, StartMissed
<1>3. ASSUME NEW s \in Swaps, NEW tx \in SUBSET Coins, ClaimDone(s, tx)
      PROVE  /\ task' \in [Swaps -> Steps] /\ payoutReference' \in [Swaps -> SUBSET Coins]
             /\ asked' \in SUBSET Swaps /\ UNCHANGED <<row, born, expired, closed>>
  BY <1>3 DEF ClaimDone, MarkPaidOut, Steps
<1>4. ASSUME NEW s \in Swaps, ClaimSkipped(s)
      PROVE  /\ task' \in [Swaps -> Steps] /\ asked' \in SUBSET Swaps
             /\ UNCHANGED <<row, born, payoutReference, closed>>
  BY <1>0, <1>4 DEF ClaimSkipped, Steps
<1>5. ASSUME NEW s \in Swaps, ClaimFailed(s)
      PROVE  /\ task' \in [Swaps -> Steps]
             /\ UNCHANGED <<row, born, payoutReference, expired, closed, asked>>
  BY <1>0, <1>5 DEF ClaimFailed, Steps
<1>6. ASSUME NEW s \in Swaps, ReadSpendable(s) PROVE TypeOK'
  <2>1. CASE Spendable(s) = {} /\ task' = [task EXCEPT ![s] = "landed"]
             /\ UNCHANGED <<db, caches, batch>>
    BY <1>6, <2>1 DEF ReadSpendable, Steps
  <2>2. CASE ClaimSkipped(s) /\ UNCHANGED <<batch, expired>>
    BY <1>4, <1>6, <2>2 DEF ReadSpendable
  <2>3. CASE /\ batch' = [batch EXCEPT ![s] = Spendable(s)]
             /\ task' = [task EXCEPT ![s] = "prepare"]
             /\ UNCHANGED <<db, caches>>
    <3>1. batch' \in [Swaps -> SUBSET Coins] /\ task' \in [Swaps -> Steps]
      BY <2>3 DEF Spendable, CoinsOf, Steps
    <3> QED
      BY <1>6, <2>3, <3>1 DEF ReadSpendable
  <2> QED
    BY <1>6, <2>1, <2>2, <2>3 DEF ReadSpendable
<1>7. ASSUME NEW s \in Swaps, Submit(s), batch[s] # {} PROVE TypeOK'
  <2>1. inflight' \in SUBSET Txs /\ task' \in [Swaps -> Steps]
    BY <1>7 DEF Submit, Txs, Steps
  <2> QED
    BY <1>7, <2>1 DEF Submit
<1>8. ASSUME NEW s \in Swaps, NEW tx \in SUBSET Coins, ClaimDone(s, tx),
             UNCHANGED <<env, chain, inflight, job, batch>>
      PROVE  TypeOK'
  BY <1>3, <1>8
<1>9. ASSUME NEW s \in Swaps, ClaimSkipped(s), expired' \in SUBSET Swaps,
             UNCHANGED <<env, chain, inflight, job, batch>>
      PROVE  TypeOK'
  BY <1>4, <1>9
<1>10. ASSUME NEW s \in Swaps, ClaimFailed(s), UNCHANGED <<env, chain, inflight, job, batch>>
       PROVE  TypeOK'
  BY <1>5, <1>10
<1>11. ASSUME NEW s \in Swaps, SubmitReplies(s) \/ ReadLanded(s) \/ ReadResolve(s)
                               \/ ReadHistory(s) \/ ReadLookup(s)
       PROVE  TypeOK'
  <2>1. \A tx \in Txs : tx \in SUBSET Coins
    BY DEF Txs
  <2> QED
    BY <1>8, <1>9, <1>10, <1>11, <2>1
    DEF SubmitReplies, ReadLanded, ReadResolve, ReadHistory, ReadLookup
<1>12. ASSUME NEW s \in Swaps, ClaimThrows(s) \/ LookupThrows(s) PROVE TypeOK'
  BY <1>10, <1>12 DEF ClaimThrows, LookupThrows
<1>13. ASSUME NEW s \in Swaps, SubmitFails(s) \/ ReadStatus(s) \/ ObserveThrows(s)
       PROVE  TypeOK'
  <2>1. task' \in [Swaps -> Steps] /\ closed' \in SUBSET Swaps /\ expired' \in SUBSET Swaps
    BY <1>13 DEF SubmitFails, ReadStatus, ObserveThrows, Steps
  <2> QED
    BY <1>13, <2>1 DEF SubmitFails, ReadStatus, ObserveThrows
<1>14. ASSUME NEW s \in Swaps, ReadObserve(s) PROVE TypeOK'
  <2>1. task' \in [Swaps -> Steps] /\ expired' \in SUBSET Swaps
    BY <1>14 DEF ReadObserve, Steps
  <2>2. payoutReference' \in [Swaps -> SUBSET Coins]
    BY <1>14 DEF ReadObserve, MarkPaidOut, Txs
  <2> QED
    BY <1>14, <2>1, <2>2 DEF ReadObserve
<1>15. ASSUME NEW s \in Swaps, MarkSettled(s) PROVE TypeOK'
  <2>1. /\ task' \in [Swaps -> Steps]
        /\ row' \in [Swaps -> {"none", "pending", "settled"}]
    BY <1>15 DEF MarkSettled, Steps
  <2> QED
    BY <1>15, <2>1 DEF MarkSettled
<1>16. ASSUME NEW c \in Coins, Fund(c) \/ Refund(c) PROVE TypeOK'
  <2>1. /\ coin' \in [Coins -> {"absent", "live", "paid", "refunded"}]
        /\ spender' \in [Coins -> SUBSET Coins]
    BY <1>16 DEF Fund, Refund
  <2> QED
    BY <1>16, <2>1 DEF Fund, Refund
<1>17. ASSUME NEW tx \in SUBSET Coins, Pay(tx)
       PROVE  /\ coin' \in [Coins -> {"absent", "live", "paid", "refunded"}]
              /\ spender' \in [Coins -> SUBSET Coins]
  BY <1>17 DEF Pay
<1>18. ASSUME NEW s \in Swaps, ExternalClaim(s) PROVE TypeOK'
  <2>1. Spendable(s) \in SUBSET Coins
    BY DEF Spendable, CoinsOf
  <2> QED
    BY <1>17, <1>18, <2>1 DEF ExternalClaim
<1>19. ASSUME NEW tx \in Txs, ClaimLands(tx) \/ ClaimLost(tx) PROVE TypeOK'
  <2>1. tx \in SUBSET Coins
    BY DEF Txs
  <2> QED
    BY <1>17, <1>19, <2>1 DEF ClaimLands, ClaimLost
<1>20. ASSUME PassPrunes PROVE TypeOK'
  BY <1>20 DEF PassPrunes
<1>21. ASSUME Tick PROVE TypeOK'
  BY <1>21, ConstantsAssumption DEF Tick
<1>22. ASSUME Restart PROVE TypeOK'
  <2>1. selfClaim' \in BOOLEAN
    BY <1>22, Zenon DEF Restart
  <2>2. restarts' \in 0..MaxRestarts
    BY <1>22, ConstantsAssumption DEF Restart
  <2>3. task' \in [Swaps -> Steps] /\ job' \in [Swaps -> {"settle", "missed"}]
    BY <1>22 DEF Restart, Steps
  <2> QED
    BY <1>22, <2>1, <2>2, <2>3 DEF Restart
<1>23. ASSUME UNCHANGED vars PROVE TypeOK'
  BY <1>23 DEF vars
<1>24. ASSUME NEW s \in Swaps, TaskStep(s) PROVE TypeOK'
  <2>1. Submit(s) => batch[s] # {}
    BY DEF TaskInv, Submit
  <2> QED
    BY <1>6, <1>7, <1>11, <1>12, <1>13, <1>14, <1>15, <1>24, <2>1 DEF TaskStep
<1> QED
  BY <1>1, <1>2, <1>16, <1>18, <1>19, <1>20, <1>21, <1>22, <1>23, <1>24 DEF Next

-----------------------------------------------------------------------------
(* The steps, by what they can disturb.                                    *)

(* Only these touch the chain, and they touch nothing of the server's.     *)
LEMMA ChainStep ==
  ASSUME [Next]_vars
  PROVE  \/ UNCHANGED chain
         \/ /\ UNCHANGED <<env, db, task, job, batch, caches>>
            /\ \/ \E c \in Coins : Fund(c) \/ Refund(c)
               \/ \E s \in Swaps : ExternalClaim(s)
               \/ \E tx \in Txs : ClaimLands(tx)
<1> USE DEF vars
<1>1. ASSUME NEW s \in Swaps, TaskStep(s) PROVE UNCHANGED chain
  BY <1>1 DEF TaskStep, ReadSpendable, Submit, SubmitReplies, SubmitFails, ReadLanded,
     ReadResolve, ReadHistory, ClaimThrows, ReadStatus, ReadObserve, ObserveThrows,
     MarkSettled, ReadLookup, LookupThrows
<1>2. ASSUME NEW s \in Swaps, Accept(s) \/ StartSettle(s) \/ StartMissed(s)
      PROVE  UNCHANGED chain
  BY <1>2 DEF Accept, StartSettle, StartMissed
<1>3. ASSUME PassPrunes \/ Tick \/ Restart PROVE UNCHANGED chain
  BY <1>3 DEF PassPrunes, Tick, Restart
<1>4. ASSUME NEW tx \in Txs, ClaimLost(tx) PROVE UNCHANGED chain
  BY <1>4 DEF ClaimLost
<1>5. ASSUME NEW c \in Coins, Fund(c) \/ Refund(c)
      PROVE  UNCHANGED <<env, db, task, job, batch, caches>>
  BY <1>5 DEF Fund, Refund
<1>6. ASSUME NEW s \in Swaps, ExternalClaim(s)
      PROVE  UNCHANGED <<env, db, task, job, batch, caches>>
  BY <1>6 DEF ExternalClaim
<1>7. ASSUME NEW tx \in Txs, ClaimLands(tx)
      PROVE  UNCHANGED <<env, db, task, job, batch, caches>>
  BY <1>7 DEF ClaimLands, caches
<1> QED
  BY <1>1, <1>2, <1>3, <1>4, <1>5, <1>6, <1>7 DEF Next

(* A coin that was paid out stays so.                                      *)
LEMMA PaidStays ==
  ASSUME TypeOK, [Next]_vars, NEW c \in Coins, coin[c] = "paid"
  PROVE  coin'[c] = "paid" /\ spender'[c] = spender[c]
<1> USE DEF TypeOK
<1>1. ASSUME UNCHANGED chain PROVE coin'[c] = "paid" /\ spender'[c] = spender[c]
  BY <1>1 DEF chain
<1>2. ASSUME NEW d \in Coins, Fund(d) \/ Refund(d)
      PROVE  coin'[c] = "paid" /\ spender'[c] = spender[c]
  BY <1>2 DEF Fund, Refund
<1>3. ASSUME NEW s \in Swaps, ExternalClaim(s)
      PROVE  coin'[c] = "paid" /\ spender'[c] = spender[c]
  BY <1>3 DEF ExternalClaim, Pay, Spendable, CoinsOf
<1>4. ASSUME NEW tx \in Txs, ClaimLands(tx)
      PROVE  coin'[c] = "paid" /\ spender'[c] = spender[c]
  BY <1>4 DEF ClaimLands, Pay
<1> QED
  BY <1>1, <1>2, <1>3, <1>4, ChainStep

LEMMA LandedStays ==
  ASSUME TypeOK, [Next]_vars, NEW s \in Swaps, NEW tx, Landed(s, tx)
  PROVE  Landed(s, tx)'
  BY PaidStays DEF Landed, CoinsOf

(* What observedPayout accepts is on the chain.                            *)
LEMMA SeenLanded ==
  ASSUME TypeOK, ChainInv, NEW s \in Swaps, NEW tx, PayoutSeen(s, tx)
  PROVE  Landed(s, tx)
<1>1. PICK c \in Ever(s) : coin[c] = "paid" /\ spender[c] = tx
  BY DEF PayoutSeen
<1>2. c \in Coins /\ LockupOf[c] = s
  BY DEF Ever, CoinsOf
<1>3. c \in tx /\ \A d \in tx : LockupOf[d] = s /\ coin[d] = "paid" /\ spender[d] = tx
  BY <1>1, <1>2 DEF ChainInv
<1>4. tx \subseteq Coins
  BY <1>1, <1>2 DEF TypeOK
<1> QED
  BY <1>1, <1>2, <1>3, <1>4 DEF Landed, CoinsOf, NoTx

(* A payout_reference is only ever written for a payout that landed.       *)
LEMMA RecordStep ==
  ASSUME TypeOK, ChainInv, [Next]_vars
  PROVE  \/ UNCHANGED payoutReference
         \/ \E s \in Swaps, tx \in SUBSET Coins :
              /\ Landed(s, tx) /\ MarkPaidOut(s, tx)
              /\ UNCHANGED <<row, legacy, chain>>
<1> USE DEF vars, env, db, chain
<1>1. \A s \in Swaps : \A tx : PayoutSeen(s, tx) => Landed(s, tx) /\ tx \in SUBSET Coins
  BY SeenLanded DEF Landed, CoinsOf
<1>2. ASSUME NEW s \in Swaps, TaskStep(s), ~UNCHANGED payoutReference
      PROVE  \E tx \in SUBSET Coins :
               Landed(s, tx) /\ MarkPaidOut(s, tx) /\ UNCHANGED <<row, legacy, chain>>
  <2>1. CASE SubmitReplies(s)
    BY <2>1 DEF SubmitReplies, ClaimDone, TypeOK
  <2>2. CASE ReadLanded(s) \/ ReadLookup(s) \/ ReadHistory(s)
    BY <1>1, <1>2, <2>2 DEF ReadLanded, ReadLookup, ReadHistory, ClaimDone, ClaimSkipped
  <2>3. CASE ReadResolve(s)
    BY <1>1, <1>2, <2>3 DEF ReadResolve, ClaimDone, ClaimFailed
  <2>4. CASE ReadObserve(s)
    BY <1>1, <1>2, <2>4 DEF ReadObserve
  <2> QED
    BY <1>2, <2>1, <2>2, <2>3, <2>4 DEF TaskStep, ReadSpendable, Submit, SubmitFails,
       ClaimThrows, ReadStatus, ObserveThrows, MarkSettled, LookupThrows, ClaimSkipped,
       ClaimFailed
<1>3. ASSUME NEW s \in Swaps, Accept(s) \/ StartSettle(s) \/ StartMissed(s)
      PROVE  UNCHANGED payoutReference
  BY <1>3 DEF Accept, StartSettle, StartMissed
<1>4. ASSUME PassPrunes \/ Tick \/ Restart PROVE UNCHANGED payoutReference
  BY <1>4 DEF PassPrunes, Tick, Restart
<1>5. ASSUME NEW tx \in Txs, ClaimLost(tx) PROVE UNCHANGED payoutReference
  BY <1>5 DEF ClaimLost
<1>7. ASSUME NEW c \in Coins, Fund(c) \/ Refund(c) PROVE UNCHANGED payoutReference
  BY <1>7 DEF Fund, Refund
<1>8. ASSUME NEW s \in Swaps, ExternalClaim(s) PROVE UNCHANGED payoutReference
  BY <1>8 DEF ExternalClaim
<1>9. ASSUME NEW tx \in Txs, ClaimLands(tx) PROVE UNCHANGED payoutReference
  BY <1>9 DEF ClaimLands
<1> QED
  BY <1>2, <1>3, <1>4, <1>5, <1>7, <1>8, <1>9 DEF Next

(* A row changes when it is offered and when it settles.                   *)
LEMMA RowStep ==
  ASSUME [Next]_vars
  PROVE  \/ UNCHANGED <<row, legacy>>
         \/ \E s \in Swaps : Accept(s) \/ MarkSettled(s)
<1> USE DEF vars, env, db
<1>1. ASSUME NEW s \in Swaps, TaskStep(s), ~MarkSettled(s) PROVE UNCHANGED <<row, legacy>>
  BY <1>1 DEF TaskStep, ReadSpendable, Submit, SubmitReplies, SubmitFails, ReadLanded,
     ReadResolve, ReadHistory, ClaimThrows, ReadStatus, ReadObserve, ObserveThrows,
     ReadLookup, LookupThrows, ClaimDone, ClaimSkipped, ClaimFailed
<1>2. ASSUME NEW s \in Swaps, StartSettle(s) \/ StartMissed(s) PROVE UNCHANGED <<row, legacy>>
  BY <1>2 DEF StartSettle, StartMissed
<1>3. ASSUME PassPrunes \/ Tick \/ Restart PROVE UNCHANGED <<row, legacy>>
  BY <1>3 DEF PassPrunes, Tick, Restart
<1>4. ASSUME NEW tx \in Txs, ClaimLost(tx) \/ ClaimLands(tx) PROVE UNCHANGED <<row, legacy>>
  BY <1>4 DEF ClaimLost, ClaimLands
<1>5. ASSUME NEW c \in Coins, Fund(c) \/ Refund(c) PROVE UNCHANGED <<row, legacy>>
  BY <1>5 DEF Fund, Refund
<1>6. ASSUME NEW s \in Swaps, ExternalClaim(s) PROVE UNCHANGED <<row, legacy>>
  BY <1>6 DEF ExternalClaim
<1> QED
  BY <1>1, <1>2, <1>3, <1>4, <1>5, <1>6 DEF Next

-----------------------------------------------------------------------------
(* The parts of the invariant, one lemma each.                             *)

LEMMA ReferenceStep ==
  ASSUME TypeOK, ChainInv, ReferenceInv, [Next]_vars
  PROVE  ReferenceInv'
<1> SUFFICES ASSUME NEW s \in Swaps, payoutReference'[s] # NoTx
             PROVE  Landed(s, payoutReference[s])'
  BY DEF ReferenceInv
<1>1. CASE payoutReference'[s] = payoutReference[s]
  BY <1>1, LandedStays DEF ReferenceInv, Landed
<1>2. ASSUME NEW r \in Swaps, NEW tx \in SUBSET Coins, Landed(r, tx), MarkPaidOut(r, tx),
             payoutReference'[s] # payoutReference[s]
      PROVE  Landed(s, payoutReference[s])'
  <2>1. r = s /\ payoutReference'[s] = tx
    BY <1>2 DEF MarkPaidOut, TypeOK
  <2> QED
    BY <1>2, <2>1, LandedStays DEF Landed
<1> QED
  BY <1>1, <1>2, RecordStep

LEMMA SettledStep ==
  ASSUME TypeOK, ChainInv, TaskInv, SettledHasPayout, [Next]_vars
  PROVE  SettledHasPayout'
<1> USE DEF TypeOK
<1>1. \A s \in Swaps : payoutReference[s] # NoTx => payoutReference'[s] # NoTx
  BY RecordStep DEF MarkPaidOut
<1>2. CASE UNCHANGED <<row, legacy>>
  BY <1>1, <1>2 DEF SettledHasPayout
<1>3. ASSUME NEW s \in Swaps, Accept(s) PROVE SettledHasPayout'
  BY <1>3 DEF Accept, SettledHasPayout, env
<1>4. ASSUME NEW s \in Swaps, MarkSettled(s) PROVE SettledHasPayout'
  BY <1>4 DEF MarkSettled, SettledHasPayout, TaskInv, env
<1> QED
  BY <1>2, <1>3, <1>4, RowStep

(* Evidence recorded and coins read stay with their task until it is done. *)
LEMMA TaskInvStep ==
  ASSUME TypeOK, ChainInv, TaskInv, [Next]_vars
  PROVE  TaskInv'
<1> USE DEF TypeOK, db, caches
<1>1. \A s \in Swaps : payoutReference[s] # NoTx => payoutReference'[s] # NoTx
  BY RecordStep DEF MarkPaidOut
<1>2. ASSUME NEW s \in Swaps,
             \A r \in Swaps \ {s} : task'[r] = task[r] /\ batch'[r] = batch[r],
             task'[s] = "settle" => payoutReference'[s] # NoTx,
             task'[s] \in {"prepare", "submit"} =>
               batch'[s] # {} /\ batch'[s] \subseteq CoinsOf(s) /\ Total(batch'[s]) >= Expected
      PROVE  TaskInv'
  BY <1>1, <1>2 DEF TaskInv, CoinsOf
<1>3. ASSUME NEW s \in Swaps, NEW tx, Landed(s, tx), ClaimDone(s, tx), UNCHANGED batch
      PROVE  TaskInv'
  <2>1. payoutReference'[s] # NoTx
    BY <1>3 DEF ClaimDone, MarkPaidOut, Landed
  <2>2. task'[s] \notin {"prepare", "submit"}
    BY <1>3 DEF ClaimDone
  <2> QED
    BY <1>2, <1>3, <2>1, <2>2 DEF ClaimDone
<1>4. ASSUME NEW s \in Swaps, ClaimSkipped(s) \/ ClaimFailed(s), UNCHANGED batch
      PROVE  TaskInv'
  <2>1. task'[s] \in {"idle", "status"} /\ \A r \in Swaps \ {s} : task'[r] = task[r]
    BY <1>4 DEF ClaimSkipped, ClaimFailed, AfterClaim
  <2> QED
    BY <1>2, <1>4, <2>1
<1>5. ASSUME NEW s \in Swaps, ReadSpendable(s) PROVE TaskInv'
  <2>1. CASE task' = [task EXCEPT ![s] = "landed"] /\ UNCHANGED batch
    BY <1>2, <2>1
  <2>2. CASE ClaimSkipped(s) /\ UNCHANGED batch
    BY <1>4, <2>2
  <2>3. CASE /\ Spendable(s) # {} /\ Total(Spendable(s)) >= Expected
             /\ batch' = [batch EXCEPT ![s] = Spendable(s)]
             /\ task' = [task EXCEPT ![s] = "prepare"]
    <3>1. Spendable(s) \subseteq CoinsOf(s)
      BY DEF Spendable
    <3>2. /\ task'[s] = "prepare" /\ batch'[s] = Spendable(s)
          /\ \A r \in Swaps \ {s} : task'[r] = task[r] /\ batch'[r] = batch[r]
      BY <2>3
    <3> QED
      BY <1>2, <2>3, <3>1, <3>2
  <2> QED
    BY <1>5, <2>1, <2>2, <2>3 DEF ReadSpendable
<1>6. ASSUME NEW s \in Swaps, Submit(s) PROVE TaskInv'
  <2>1. /\ task'[s] = "submit" /\ task[s] = "prepare" /\ batch'[s] = batch[s]
        /\ \A r \in Swaps \ {s} : task'[r] = task[r] /\ batch'[r] = batch[r]
    BY <1>6 DEF Submit
  <2> QED
    BY <1>2, <2>1 DEF TaskInv
<1>7. ASSUME NEW s \in Swaps, ReadObserve(s) PROVE TaskInv'
  <2>1. /\ task'[s] \in {"idle", "settle"} /\ UNCHANGED batch
        /\ \A r \in Swaps \ {s} : task'[r] = task[r]
    BY <1>7 DEF ReadObserve
  <2>2. task'[s] = "settle" => payoutReference'[s] # NoTx
    BY <1>7 DEF ReadObserve, MarkPaidOut, Txs, NoTx
  <2> QED
    BY <1>2, <2>1, <2>2
<1>8. ASSUME NEW s \in Swaps, \/ SubmitFails(s) \/ ReadStatus(s) \/ ObserveThrows(s)
                              \/ MarkSettled(s) \/ StartSettle(s) \/ StartMissed(s)
      PROVE  TaskInv'
  <2>1. /\ task'[s] \notin {"prepare", "submit", "settle"} /\ UNCHANGED batch
        /\ \A r \in Swaps \ {s} : task'[r] = task[r]
    BY <1>8 DEF SubmitFails, ReadStatus, ObserveThrows, MarkSettled, StartSettle, StartMissed,
       AfterClaim, ClaimEntry
  <2> QED
    BY <1>2, <2>1
<1>9. ASSUME NEW s \in Swaps, SubmitReplies(s) \/ ReadLanded(s) \/ ReadResolve(s)
                              \/ ReadHistory(s) \/ ReadLookup(s)
      PROVE  TaskInv'
  BY <1>3, <1>4, <1>9, SeenLanded
  DEF SubmitReplies, ReadLanded, ReadResolve, ReadHistory, ReadLookup
<1>10. ASSUME NEW s \in Swaps, ClaimThrows(s) \/ LookupThrows(s) PROVE TaskInv'
  BY <1>4, <1>10 DEF ClaimThrows, LookupThrows
<1>11. ASSUME UNCHANGED <<task, batch>> PROVE TaskInv'
  BY <1>1, <1>11 DEF TaskInv, CoinsOf
<1>12. ASSUME \/ \E s \in Swaps : Accept(s) \/ ExternalClaim(s)
              \/ \E c \in Coins : Fund(c) \/ Refund(c)
              \/ \E tx \in Txs : ClaimLands(tx) \/ ClaimLost(tx)
              \/ PassPrunes \/ Tick
              \/ UNCHANGED vars
       PROVE  UNCHANGED <<task, batch>>
  BY <1>12 DEF Accept, ExternalClaim, Fund, Refund, ClaimLands, ClaimLost, PassPrunes, Tick, vars
<1>13. ASSUME Restart PROVE TaskInv'
  BY <1>13 DEF Restart, TaskInv
<1> QED
  BY <1>5, <1>6, <1>7, <1>8, <1>9, <1>10, <1>11, <1>12, <1>13 DEF Next, TaskStep

(* Only Submit adds a claim, and it adds the batch its task read.          *)
LEMMA InflightStep ==
  ASSUME TypeOK, TaskInv, InflightInv, [Next]_vars
  PROVE  InflightInv'
<1>1. ASSUME inflight' \subseteq inflight PROVE InflightInv'
  BY <1>1 DEF InflightInv, CoinsOf
<1>2. ASSUME NEW s \in Swaps, Submit(s) PROVE InflightInv'
  BY <1>2 DEF Submit, TaskInv, InflightInv, CoinsOf
<1>3. ASSUME NEW s \in Swaps, TaskStep(s), ~Submit(s) PROVE inflight' \subseteq inflight
  BY <1>3 DEF TaskStep, ReadSpendable, SubmitReplies, SubmitFails, ReadLanded,
     ReadResolve, ReadHistory, ClaimThrows, ReadStatus, ReadObserve, ObserveThrows,
     MarkSettled, ReadLookup, LookupThrows
<1>4. ASSUME \/ \E s \in Swaps : Accept(s) \/ StartSettle(s) \/ StartMissed(s) \/ ExternalClaim(s)
             \/ \E c \in Coins : Fund(c) \/ Refund(c)
             \/ \E tx \in Txs : ClaimLands(tx) \/ ClaimLost(tx)
             \/ PassPrunes \/ Tick \/ Restart
             \/ UNCHANGED vars
      PROVE  inflight' \subseteq inflight
  BY <1>4 DEF Accept, StartSettle, StartMissed, ExternalClaim, Fund, Refund, ClaimLands,
     ClaimLost, PassPrunes, Tick, Restart, vars
<1> QED
  BY <1>1, <1>2, <1>3, <1>4 DEF Next

(* A payment takes live coins of one lockup, all of them or none.          *)
LEMMA PayStep ==
  ASSUME TypeOK, InflightInv,
         \/ \E s \in Swaps : ExternalClaim(s)
         \/ \E tx \in Txs : ClaimLands(tx)
  PROVE  \E s \in Swaps, tx \in Txs :
           Pay(tx) /\ tx \subseteq CoinsOf(s) /\ \A c \in tx : coin[c] = "live"
<1>1. ASSUME NEW s \in Swaps, ExternalClaim(s)
      PROVE  /\ Spendable(s) \in Txs /\ Pay(Spendable(s))
             /\ Spendable(s) \subseteq CoinsOf(s) /\ \A c \in Spendable(s) : coin[c] = "live"
  BY <1>1 DEF ExternalClaim, Spendable, CoinsOf, Txs
<1>2. ASSUME NEW tx \in Txs, ClaimLands(tx)
      PROVE  /\ Pay(tx) /\ \A c \in tx : coin[c] = "live"
             /\ \E s \in Swaps : tx \subseteq CoinsOf(s)
  BY <1>2 DEF ClaimLands, InflightInv
<1> QED
  BY <1>1, <1>2

LEMMA ChainInvStep ==
  ASSUME TypeOK, InflightInv, ChainInv, [Next]_vars
  PROVE  ChainInv'
<1> USE DEF TypeOK
<1>1. CASE UNCHANGED chain
  BY <1>1 DEF chain, ChainInv
<1>2. ASSUME NEW c \in Coins, Fund(c) PROVE ChainInv'
  BY <1>2 DEF Fund, ChainInv
<1>3. ASSUME NEW c \in Coins, Refund(c) PROVE ChainInv'
  BY <1>3 DEF Refund, ChainInv
<1>4. ASSUME NEW s \in Swaps, NEW tx \in Txs, Pay(tx), tx \subseteq CoinsOf(s),
             \A c \in tx : coin[c] = "live"
      PROVE  ChainInv'
  <2> SUFFICES ASSUME NEW c \in Coins, coin'[c] = "paid"
               PROVE  /\ c \in spender'[c]
                      /\ \A d \in spender'[c] : /\ LockupOf[d] = LockupOf[c]
                                                /\ coin'[d] = "paid" /\ spender'[d] = spender'[c]
    BY DEF ChainInv
  <2>1. CASE c \in tx
    BY <1>4, <2>1 DEF Pay, CoinsOf
  <2>2. CASE c \notin tx
    <3>1. coin[c] = "paid" /\ spender'[c] = spender[c]
      BY <1>4, <2>2 DEF Pay
    <3>2. \A d \in spender[c] : d \in Coins /\ d \notin tx /\ coin[d] = "paid"
      BY <1>4, <3>1 DEF ChainInv
    <3> QED
      BY <1>4, <3>1, <3>2 DEF Pay, ChainInv
  <2> QED
    BY <2>1, <2>2
<1> QED
  BY <1>1, <1>2, <1>3, <1>4, ChainStep, PayStep

LEMMA OfferInvStep ==
  ASSUME TypeOK, InflightInv, OfferInv, [Next]_vars
  PROVE  OfferInv'
<1> USE ConstantsAssumption DEF TypeOK
<1>1. \A c \in Coins : LockupOf[c] \in Swaps
  OBVIOUS
<1>2. \A s \in Swaps : row'[s] = "none" => row[s] = "none"
  BY RowStep DEF Accept, MarkSettled
<1>3. CASE UNCHANGED chain
  BY <1>1, <1>2, <1>3 DEF chain, OfferInv
<1>4. ASSUME NEW c \in Coins, Fund(c) PROVE OfferInv'
  BY <1>1, <1>2, <1>4 DEF Fund, OfferInv, db
<1>5. ASSUME NEW c \in Coins, Refund(c) PROVE OfferInv'
  BY <1>1, <1>2, <1>5 DEF Refund, OfferInv
<1>6. ASSUME NEW s \in Swaps, NEW tx \in Txs, Pay(tx), tx \subseteq CoinsOf(s),
             \A c \in tx : coin[c] = "live"
      PROVE  OfferInv'
  BY <1>1, <1>2, <1>6 DEF Pay, OfferInv
<1> QED
  BY <1>3, <1>4, <1>5, <1>6, ChainStep, PayStep

-----------------------------------------------------------------------------

LEMMA InvInit == Init => IInv
<1> SUFFICES ASSUME Init PROVE IInv
  OBVIOUS
<1> USE ConstantsAssumption DEF Init
<1>1. TypeOK
  BY TypeInit
<1>2. TaskInv /\ ReferenceInv /\ InflightInv
  BY DEF TaskInv, ReferenceInv, InflightInv
<1>3. ChainInv
  BY DEF ChainInv, CoinsOf
<1>4. OfferInv
  BY DEF OfferInv
<1>5. SettledHasPayout
  BY DEF SettledHasPayout
<1> QED
  BY <1>1, <1>2, <1>3, <1>4, <1>5 DEF IInv

LEMMA InvStep == IInv /\ [Next]_vars => IInv'
  BY TypeStep, TaskInvStep, ReferenceStep, InflightStep, ChainInvStep, OfferInvStep, SettledStep
  DEF IInv

LEMMA InvAlways == Spec => []IInv
  BY InvInit, InvStep, PTL DEF Spec

(* Every variable keeps to its domain.                                     *)
THEOREM TypeCorrect == Spec => []TypeOK
  BY InvAlways, PTL DEF IInv

(* A preimage is published only behind a payout that landed: for any       *)
(* number of swaps and coins, and any deadline and window.                 *)
THEOREM RevealSafe == Spec => []RevealedOnlyIfPaid
<1>1. IInv => RevealedOnlyIfPaid
  BY DEF IInv, ReferenceInv, RevealedOnlyIfPaid, Revealed
<1> QED
  BY <1>1, InvAlways, PTL

(* No crash leaves a row settled without the payout that reveals it.       *)
THEOREM SettledSafe == Spec => []SettledHasPayout
  BY InvAlways, PTL DEF IInv

(* No claim, however stale the coins it was built from, is below the quote.*)
THEOREM ClaimSafe == Spec => []ClaimsPayQuote
<1>1. IInv => ClaimsPayQuote
  BY DEF IInv, InflightInv, ClaimsPayQuote
<1> QED
  BY <1>1, InvAlways, PTL

-----------------------------------------------------------------------------
(* The refinement: Accept is a Promise, a payment is a Land, and a Prove   *)
(* is whichever of markPaidOut and markSettled comes second.               *)

LEMMA RefinesInit == Init => R!Init
<1> SUFFICES ASSUME Init PROVE R!Init
  OBVIOUS
<1> USE ConstantsAssumption DEF Init
<1>1. Offered = legacy
  BY DEF Offered
<1>2. ASSUME NEW s \in Swaps, NEW c \in CoinsOf(s), coin[c] = "paid"
      PROVE  spender[c] \in Txs /\ s \in legacy
  BY <1>2 DEF CoinsOf, Txs
<1>3. Received \in [Swaps -> SUBSET Txs]
  BY <1>2 DEF Received
<1>4. \A s \in Swaps : Received[s] # {} => s \in Offered
  BY <1>1, <1>2 DEF Received
<1>5. Published = [s \in Swaps |-> NoTx]
  BY DEF Published
<1> QED
  BY <1>1, <1>3, <1>4, <1>5 DEF R!Init

LEMMA RefinesStep == IInv /\ IInv' /\ [Next]_vars => [R!Next]_(R!vars)
<1> SUFFICES ASSUME IInv, IInv', [Next]_vars PROVE [R!Next]_(R!vars)
  OBVIOUS
<1> USE DEF IInv, TypeOK
<1>1. ASSUME NEW s \in Swaps, NEW tx, Landed(s, tx) PROVE tx \in Received[s] /\ tx \in Txs
  BY <1>1 DEF Received, Landed, CoinsOf, Txs, NoTx
<1>2. UNCHANGED chain => UNCHANGED Received
  BY DEF Received, chain, CoinsOf
<1>3. UNCHANGED row => UNCHANGED Offered
  BY DEF Offered
<1>4. UNCHANGED <<row, payoutReference>> => UNCHANGED Published
  BY DEF Published
<1>5. ASSUME NEW s \in Swaps, Accept(s) PROVE R!Promise(s)
  <2>1. s \notin Offered /\ Offered' = Offered \cup {s}
    BY <1>5 DEF Accept, Offered
  <2>2. UNCHANGED Received
    BY <1>2, <1>5 DEF Accept
  <2>3. UNCHANGED Published
    BY <1>5 DEF Accept, Published
  <2> QED
    BY <2>1, <2>2, <2>3 DEF R!Promise
<1>6. ASSUME NEW s \in Swaps, MarkSettled(s), row' # row
      PROVE  R!Prove(s, payoutReference[s])
  <2>1. row[s] = "pending" /\ row' = [row EXCEPT ![s] = "settled"] /\ UNCHANGED payoutReference
    BY <1>6 DEF MarkSettled, Pending
  <2>2. s \in Offered /\ UNCHANGED Offered
    BY <2>1 DEF Offered
  <2>3. payoutReference[s] \in Received[s]
    BY <1>1, <1>6 DEF MarkSettled, TaskInv, ReferenceInv
  <2>4. UNCHANGED Received
    BY <1>2, <1>6 DEF MarkSettled
  <2>5. Published[s] = NoTx
    BY <2>1 DEF Published
  <2>6. Published' = [Published EXCEPT ![s] = payoutReference[s]]
    BY <2>1 DEF Published
  <2> QED
    BY <2>2, <2>3, <2>4, <2>5, <2>6 DEF R!Prove
<1>7. ASSUME NEW s \in Swaps, NEW tx \in SUBSET Coins, Landed(s, tx), MarkPaidOut(s, tx),
             UNCHANGED <<row, chain>>
      PROVE  R!Prove(s, tx) \/ UNCHANGED R!vars
  <2>1. UNCHANGED Offered /\ UNCHANGED Received
    BY <1>2, <1>3, <1>7
  <2>2. CASE row[s] = "settled" /\ payoutReference[s] = NoTx
    <3>1. Published[s] = NoTx /\ s \in Offered /\ tx \in Received[s]
      BY <1>1, <1>7, <2>2 DEF Published, Offered
    <3>2. Published' = [Published EXCEPT ![s] = tx]
      BY <1>7, <2>2 DEF Published, MarkPaidOut
    <3> QED
      BY <2>1, <3>1, <3>2 DEF R!Prove
  <2>3. CASE payoutReference[s] # NoTx
    <3>1. UNCHANGED payoutReference
      BY <1>7, <2>3 DEF MarkPaidOut
    <3> QED
      BY <1>4, <1>7, <2>1, <3>1 DEF R!vars
  <2>4. CASE row[s] # "settled"
    <3>1. UNCHANGED Published
      BY <1>7, <2>4 DEF Published, MarkPaidOut
    <3> QED
      BY <2>1, <3>1 DEF R!vars
  <2> QED
    BY <2>2, <2>3, <2>4
<1>8. ASSUME NEW c \in Coins, Fund(c) \/ Refund(c) PROVE UNCHANGED R!vars
  <2>1. \A d \in Coins : /\ coin'[d] = "paid" <=> coin[d] = "paid"
                         /\ coin[d] = "paid" => spender'[d] = spender[d]
    BY <1>8 DEF Fund, Refund
  <2>2. UNCHANGED Received
    BY <2>1 DEF Received, CoinsOf
  <2>3. UNCHANGED <<row, payoutReference>>
    BY <1>8 DEF Fund, Refund, db
  <2> QED
    BY <1>3, <1>4, <2>2, <2>3 DEF R!vars
<1>9. ASSUME NEW s \in Swaps, NEW tx \in Txs, Pay(tx), tx \subseteq CoinsOf(s),
             \A c \in tx : coin[c] = "live", UNCHANGED db
      PROVE  R!Land(s, tx)
  <2>1. \A c \in CoinsOf(s) : /\ coin'[c] = "paid" <=> c \in tx \/ coin[c] = "paid"
                              /\ c \in tx => spender'[c] = tx
                              /\ coin[c] = "paid" => spender'[c] = spender[c]
    BY <1>9 DEF Pay, CoinsOf
  <2>2. Received'[s] = Received[s] \cup {tx}
    BY <1>9, <2>1 DEF Received, Txs, CoinsOf
  <2>3. \A r \in Swaps \ {s} : \A c \in CoinsOf(r) :
          coin'[c] = coin[c] /\ spender'[c] = spender[c]
    BY <1>9 DEF Pay, CoinsOf
  <2>4. \A r \in Swaps \ {s} : Received'[r] = Received[r]
    BY <2>3 DEF Received, CoinsOf
  <2>5. Received' = [Received EXCEPT ![s] = @ \cup {tx}]
    BY <2>2, <2>4 DEF Received
  <2>6. s \in Offered
    BY <1>9 DEF Offered, Txs, OfferInv, CoinsOf
  <2>7. UNCHANGED Offered /\ UNCHANGED Published
    BY <1>3, <1>4, <1>9 DEF db
  <2> QED
    BY <2>5, <2>6, <2>7 DEF R!Land
<1>10. ASSUME ~UNCHANGED chain PROVE [R!Next]_(R!vars)
  <2>1. UNCHANGED db
    BY <1>10, ChainStep
  <2> QED
    BY <1>8, <1>9, <1>10, <2>1, ChainStep, PayStep DEF R!Next
<1>11. ASSUME UNCHANGED chain PROVE [R!Next]_(R!vars)
  <2>1. ASSUME NEW s \in Swaps, Accept(s) PROVE [R!Next]_(R!vars)
    BY <1>5, <2>1 DEF R!Next
  <2>2. CASE UNCHANGED <<row, payoutReference>>
    BY <1>2, <1>3, <1>4, <1>11, <2>2 DEF R!vars
  <2>3. ASSUME NEW s \in Swaps, MarkSettled(s) PROVE [R!Next]_(R!vars)
    <3>1. payoutReference[s] \in Txs /\ UNCHANGED payoutReference
      BY <1>1, <2>3 DEF MarkSettled, TaskInv, ReferenceInv
    <3> QED
      BY <1>6, <2>2, <2>3, <3>1 DEF R!Next
  <2>4. ASSUME NEW s \in Swaps, NEW tx \in SUBSET Coins, Landed(s, tx), MarkPaidOut(s, tx),
               UNCHANGED <<row, chain>>
        PROVE  [R!Next]_(R!vars)
    BY <1>1, <1>7, <2>4 DEF R!Next
  <2> QED
    BY <2>1, <2>2, <2>3, <2>4, RowStep, RecordStep
<1> QED
  BY <1>10, <1>11

(* The poller keeps the promise of module Receive.                         *)
THEOREM ReceiveKept == Spec => ImplementsReceive
  BY InvAlways, RefinesInit, RefinesStep, PTL DEF Spec, ImplementsReceive, R!Spec
-----------------------------------------------------------------------------
(* Who gives up on a swap. A solver that stops at the quote never funds a  *)
(* lockup a claim is under way for, so a claim takes the whole of a lockup *)
(* or comes too late: what was paid in full was paid by one transaction,   *)
(* and that the poller recognises.                                         *)

Whole(s) ==
  \/ \E c \in CoinsOf(s) : coin[c] = "refunded"
  \/ PayoutSeen(s, Ever(s))
  \/ /\ Ever(s) = Spendable(s)
     /\ task[s] \in {"prepare", "submit"} => batch[s] = Ever(s)
     /\ \A tx \in inflight : tx \subseteq CoinsOf(s) => tx = Ever(s)

WholeInv == \A s \in Swaps \ legacy : Whole(s)

(* A row an older build settled is only ever looked up for its payout.     *)
LegacyInv ==
  \A s \in legacy : row[s] = "settled" /\ (task[s] # "idle" => job[s] = "missed")

GInv == IInv /\ WholeInv /\ LegacyInv

Claiming(s) == task[s] \in {"prepare", "submit"}

(* A task comes into a claim with all it could spend, keeps that to the    *)
(* end of it, and hands over nothing else.                                 *)
LEMMA ClaimStep ==
  ASSUME TypeOK, [Next]_vars
  PROVE  /\ \A s \in Swaps : task'[s] \in {"prepare", "submit"} =>
              batch'[s] = Spendable(s) \/ (Claiming(s) /\ batch'[s] = batch[s])
         /\ \A tx \in inflight' : tx \in inflight \/ \E s \in Swaps : Claiming(s) /\ tx = batch[s]
<1> USE DEF TypeOK, Claiming
<1>1. CASE UNCHANGED <<task, batch>> /\ inflight' \subseteq inflight
  BY <1>1
<1>2. ASSUME NEW s \in Swaps, UNCHANGED batch, inflight' = inflight,
             task'[s] \notin {"prepare", "submit"}, \A r \in Swaps \ {s} : task'[r] = task[r]
      PROVE  /\ \A r \in Swaps : task'[r] \in {"prepare", "submit"} => Claiming(r) /\ batch'[r] = batch[r]
             /\ inflight' \subseteq inflight
  BY <1>2
<1>3. ASSUME NEW s \in Swaps,
             ClaimFailed(s) \/ ClaimSkipped(s) \/ (\E tx : ClaimDone(s, tx))
      PROVE  task'[s] \notin {"prepare", "submit"} /\ \A r \in Swaps \ {s} : task'[r] = task[r]
  BY <1>3 DEF ClaimFailed, ClaimSkipped, ClaimDone, AfterClaim
<1>4. ASSUME NEW s \in Swaps, StartSettle(s) \/ StartMissed(s)
      PROVE  /\ task'[s] \notin {"prepare", "submit"} /\ \A r \in Swaps \ {s} : task'[r] = task[r]
             /\ UNCHANGED batch /\ inflight' = inflight
  BY <1>4 DEF StartSettle, StartMissed, AfterClaim, ClaimEntry
<1>5. ASSUME NEW s \in Swaps,
             \/ SubmitReplies(s) \/ SubmitFails(s) \/ ReadLanded(s) \/ ReadResolve(s) \/ ReadHistory(s)
             \/ ClaimThrows(s) \/ ReadStatus(s) \/ ReadObserve(s) \/ ObserveThrows(s)
             \/ MarkSettled(s) \/ ReadLookup(s) \/ LookupThrows(s)
      PROVE  /\ task'[s] \notin {"prepare", "submit"} /\ \A r \in Swaps \ {s} : task'[r] = task[r]
             /\ UNCHANGED batch /\ inflight' = inflight
  <2>1. UNCHANGED batch /\ inflight' = inflight
    BY <1>5 DEF SubmitReplies, SubmitFails, ReadLanded, ReadResolve, ReadHistory, ClaimThrows,
       ReadStatus, ReadObserve, ObserveThrows, MarkSettled, ReadLookup, LookupThrows
  <2>2. CASE SubmitFails(s) \/ ReadStatus(s) \/ ReadObserve(s) \/ ObserveThrows(s) \/ MarkSettled(s)
    BY <2>1, <2>2 DEF SubmitFails, ReadStatus, ReadObserve, ObserveThrows, MarkSettled
  <2>3. CASE ClaimFailed(s) \/ ClaimSkipped(s) \/ (\E tx : ClaimDone(s, tx))
    BY <1>3, <2>1, <2>3
  <2> QED
    BY <1>5, <2>2, <2>3 DEF SubmitReplies, ReadLanded, ReadResolve, ReadHistory, ClaimThrows,
       ReadLookup, LookupThrows
<1>6. ASSUME NEW s \in Swaps, ReadSpendable(s)
      PROVE  /\ inflight' = inflight
             /\ \A r \in Swaps : task'[r] \in {"prepare", "submit"} =>
                  batch'[r] = Spendable(r) \/ (Claiming(r) /\ batch'[r] = batch[r])
  <2>1. inflight' = inflight
    BY <1>6 DEF ReadSpendable
  <2>2. CASE batch' = [batch EXCEPT ![s] = Spendable(s)] /\ task' = [task EXCEPT ![s] = "prepare"]
    BY <2>1, <2>2
  <2>3. CASE UNCHANGED batch /\ (ClaimSkipped(s) \/ task' = [task EXCEPT ![s] = "landed"])
    BY <1>3, <2>1, <2>3
  <2> QED
    BY <1>6, <2>2, <2>3 DEF ReadSpendable
<1>7. ASSUME NEW s \in Swaps, Submit(s)
      PROVE  /\ inflight' = inflight \cup {batch[s]} /\ Claiming(s) /\ UNCHANGED batch
             /\ \A r \in Swaps : task'[r] \in {"prepare", "submit"} => Claiming(r)
  BY <1>7 DEF Submit
<1>8. CASE Restart
  BY <1>8 DEF Restart
<1>9. ASSUME \/ \E s \in Swaps : Accept(s) \/ ExternalClaim(s)
             \/ \E c \in Coins : Fund(c) \/ Refund(c)
             \/ \E tx \in Txs : ClaimLands(tx) \/ ClaimLost(tx)
             \/ PassPrunes \/ Tick \/ UNCHANGED vars
      PROVE  UNCHANGED <<task, batch>> /\ inflight' \subseteq inflight
  BY <1>9 DEF Accept, ExternalClaim, Fund, Refund, ClaimLands, ClaimLost, PassPrunes, Tick, vars
<1>10. ASSUME NEW s \in Swaps, TaskStep(s)
       PROVE  \/ ReadSpendable(s) \/ Submit(s)
              \/ SubmitReplies(s) \/ SubmitFails(s) \/ ReadLanded(s) \/ ReadResolve(s) \/ ReadHistory(s)
              \/ ClaimThrows(s) \/ ReadStatus(s) \/ ReadObserve(s) \/ ObserveThrows(s)
              \/ MarkSettled(s) \/ ReadLookup(s) \/ LookupThrows(s)
  BY <1>10 DEF TaskStep
<1>11. CASE \E s \in Swaps : TaskStep(s)
  BY <1>2, <1>5, <1>6, <1>7, <1>10, <1>11
<1>12. CASE \E s \in Swaps : StartSettle(s) \/ StartMissed(s)
  BY <1>2, <1>4, <1>12
<1> QED
  BY <1>1, <1>8, <1>9, <1>11, <1>12 DEF Next

LEMMA CoinsApart ==
  ASSUME NEW s \in Swaps, NEW r \in Swaps, NEW tx, tx # {}, tx \subseteq CoinsOf(r), tx \subseteq CoinsOf(s)
  PROVE  r = s
BY DEF CoinsOf

(* With the chain as it was, a claim still takes the whole.                *)
LEMMA WholeUnderTasks ==
  ASSUME IInv, WholeInv, [Next]_vars, UNCHANGED <<chain, legacy>>
  PROVE  WholeInv'
<1> SUFFICES ASSUME NEW s \in Swaps \ legacy PROVE Whole(s)'
  BY DEF WholeInv
<1>1. Whole(s)
  BY DEF WholeInv
<1>2. UNCHANGED <<coin, spender>> /\ Ever(s)' = Ever(s) /\ Spendable(s)' = Spendable(s)
  BY DEF chain, Ever, Spendable, CoinsOf
<1>3. CASE \E c \in CoinsOf(s) : coin[c] = "refunded"
  BY <1>2, <1>3 DEF Whole, CoinsOf
<1>4. CASE PayoutSeen(s, Ever(s))
  BY <1>2, <1>4 DEF Whole, PayoutSeen, Ever, CoinsOf
<1>5. CASE /\ Ever(s) = Spendable(s)
           /\ task[s] \in {"prepare", "submit"} => batch[s] = Ever(s)
           /\ \A tx \in inflight : tx \subseteq CoinsOf(s) => tx = Ever(s)
  <2>1. task'[s] \in {"prepare", "submit"} => batch'[s] = Ever(s)
    BY <1>5, ClaimStep DEF IInv, Claiming
  <2>2. ASSUME NEW tx \in inflight', tx \subseteq CoinsOf(s)
        PROVE  tx = Ever(s)
    <3>1. CASE tx \in inflight
      BY <1>5, <2>2, <3>1
    <3>2. ASSUME NEW r \in Swaps, Claiming(r), tx = batch[r]
          PROVE  tx = Ever(s)
      <4>1. tx # {} /\ tx \subseteq CoinsOf(r)
        BY <3>2 DEF IInv, TaskInv, Claiming
      <4>2. r = s
        BY <2>2, <4>1, CoinsApart
      <4> QED
        BY <1>5, <3>2, <4>2 DEF Claiming
    <3> QED
      BY <2>2, <3>1, <3>2, ClaimStep DEF IInv
  <2> QED
    BY <1>2, <1>5, <2>1, <2>2 DEF Whole, CoinsOf, Ever, Spendable
<1> QED
  BY <1>1, <1>3, <1>4, <1>5 DEF Whole

LEMMA FundLeavesWhole ==
  ASSUME ~Overfunds, IInv, WholeInv, NEW c \in Coins, Fund(c)
  PROVE  WholeInv'
<1> SUFFICES ASSUME NEW s \in Swaps \ legacy PROVE Whole(s)'
  BY DEF WholeInv, Fund, env
<1>1. Whole(s) /\ LockupOf[c] \in Swaps
  BY ConstantsAssumption DEF WholeInv
<1>2. /\ coin[c] = "absent" /\ coin' = [coin EXCEPT ![c] = "live"]
      /\ Ever(LockupOf[c]) = Spendable(LockupOf[c]) /\ ~(Total(Ever(LockupOf[c])) >= Expected)
      /\ UNCHANGED <<spender, inflight, task, batch>>
  BY DEF Fund
<1>3. \A d \in Coins : coin'[d] = IF d = c THEN "live" ELSE coin[d]
  BY <1>2 DEF IInv, TypeOK
<1>4. CASE LockupOf[c] # s
  <2>1. \A d \in CoinsOf(s) : coin'[d] = coin[d]
    BY <1>3, <1>4 DEF CoinsOf
  <2>2. Ever(s)' = Ever(s) /\ Spendable(s)' = Spendable(s)
    BY <2>1 DEF Ever, Spendable, CoinsOf
  <2> QED
    BY <1>1, <1>2, <2>1, <2>2 DEF Whole, PayoutSeen, CoinsOf, Ever
<1>5. CASE LockupOf[c] = s
  <2>1. Ever(s) = Spendable(s) /\ ~(Total(Ever(s)) >= Expected)
    BY <1>2, <1>5
  <2>2. \A d \in Ever(s) : coin[d] = "live"
    BY <2>1 DEF Spendable
  <2>3. CASE \E d \in CoinsOf(s) : coin[d] = "refunded"
    BY <2>2, <2>3 DEF Ever
  <2>4. CASE PayoutSeen(s, Ever(s))
    BY <2>2, <2>4 DEF PayoutSeen
  <2>5. CASE /\ task[s] \in {"prepare", "submit"} => batch[s] = Ever(s)
             /\ \A tx \in inflight : tx \subseteq CoinsOf(s) => tx = Ever(s)
    <3>1. task[s] \notin {"prepare", "submit"}
      BY <2>1, <2>5 DEF IInv, TaskInv
    <3>2. \A tx \in inflight : ~(tx \subseteq CoinsOf(s))
      BY <2>1, <2>5 DEF IInv, InflightInv
    <3>3. Ever(s)' = Spendable(s)'
      BY <1>3, <2>2 DEF Ever, Spendable, CoinsOf
    <3> QED
      BY <1>2, <3>1, <3>2, <3>3 DEF Whole, CoinsOf
  <2> QED
    BY <1>1, <2>3, <2>4, <2>5 DEF Whole
<1> QED
  BY <1>4, <1>5

LEMMA RefundLeavesWhole ==
  ASSUME IInv, WholeInv, NEW c \in Coins, Refund(c)
  PROVE  WholeInv'
<1> SUFFICES ASSUME NEW s \in Swaps \ legacy PROVE Whole(s)'
  BY DEF WholeInv, Refund, env
<1>1. Whole(s)
  BY DEF WholeInv
<1>2. /\ \A d \in Coins : coin'[d] = IF d = c THEN "refunded" ELSE coin[d]
      /\ \A d \in Coins : d # c => spender'[d] = spender[d]
      /\ coin[c] = "live" /\ UNCHANGED <<inflight, task, batch>>
  BY DEF Refund, IInv, TypeOK
<1>3. CASE LockupOf[c] = s
  BY <1>2, <1>3 DEF Whole, CoinsOf
<1>4. CASE LockupOf[c] # s
  <2>1. \A d \in CoinsOf(s) : coin'[d] = coin[d] /\ spender'[d] = spender[d]
    BY <1>2, <1>4 DEF CoinsOf
  <2>2. Ever(s)' = Ever(s) /\ Spendable(s)' = Spendable(s)
    BY <2>1 DEF Ever, Spendable, CoinsOf
  <2> QED
    BY <1>1, <1>2, <2>1, <2>2 DEF Whole, PayoutSeen, CoinsOf, Ever
<1> QED
  BY <1>3, <1>4

(* A payment of the whole is one the poller sees; nothing else can pay.    *)
LEMMA PayLeavesWhole ==
  ASSUME IInv, WholeInv, NEW r \in Swaps, NEW tx \in Txs, Pay(tx), tx \subseteq CoinsOf(r),
         \A c \in tx : coin[c] = "live", tx = Spendable(r) \/ tx \in inflight,
         inflight' \subseteq inflight, UNCHANGED <<legacy, task, batch>>
  PROVE  WholeInv'
<1> SUFFICES ASSUME NEW s \in Swaps \ legacy PROVE Whole(s)'
  BY DEF WholeInv
<1>1. Whole(s) /\ tx # {}
  BY DEF WholeInv, Txs
<1>2. \A d \in Coins : /\ coin'[d] = IF d \in tx THEN "paid" ELSE coin[d]
                       /\ spender'[d] = IF d \in tx THEN tx ELSE spender[d]
  BY DEF Pay
<1>3. CASE r # s
  <2>1. \A d \in CoinsOf(s) : coin'[d] = coin[d] /\ spender'[d] = spender[d]
    BY <1>2, <1>3 DEF CoinsOf
  <2>2. Ever(s)' = Ever(s) /\ Spendable(s)' = Spendable(s)
    BY <2>1 DEF Ever, Spendable, CoinsOf
  <2> QED
    BY <1>1, <2>1, <2>2 DEF Whole, PayoutSeen, CoinsOf, Ever
<1>4. CASE r = s
  <2>1. CASE \E c \in CoinsOf(s) : coin[c] = "refunded"
    BY <1>2, <2>1 DEF Whole, CoinsOf
  <2>2. CASE PayoutSeen(s, Ever(s))
    BY <1>1, <1>4, <2>2 DEF PayoutSeen, Ever, CoinsOf
  <2>3. CASE Ever(s) = Spendable(s) /\ \A t \in inflight : t \subseteq CoinsOf(s) => t = Ever(s)
    <3>1. tx = Ever(s)
      BY <1>4, <2>3
    <3>2. Ever(s)' = Ever(s)
      BY <1>2, <3>1 DEF Ever, CoinsOf
    <3>3. \A c \in Ever(s) : coin'[c] = "paid" /\ spender'[c] = Ever(s)
      BY <1>2, <3>1 DEF Ever, CoinsOf
    <3>4. PayoutSeen(s, Ever(s))'
      BY <1>1, <3>1, <3>2, <3>3 DEF PayoutSeen
    <3> QED
      BY <3>4 DEF Whole
  <2> QED
    BY <1>1, <2>1, <2>2, <2>3 DEF Whole
<1> QED
  BY <1>3, <1>4

LEMMA WholeStep ==
  ASSUME ~Overfunds, IInv, WholeInv, [Next]_vars
  PROVE  WholeInv'
<1>1. UNCHANGED legacy
  BY RowStep DEF Accept, MarkSettled, env
<1>2. ASSUME NEW s \in Swaps, ExternalClaim(s) PROVE WholeInv'
  <2>1. /\ Spendable(s) \in Txs /\ Pay(Spendable(s))
        /\ Spendable(s) \subseteq CoinsOf(s) /\ \A c \in Spendable(s) : coin[c] = "live"
    BY <1>2 DEF ExternalClaim, Spendable, CoinsOf, Txs
  <2>2. UNCHANGED <<legacy, task, batch>> /\ inflight' \subseteq inflight
    BY <1>2 DEF ExternalClaim, env
  <2> QED
    BY <2>1, <2>2, PayLeavesWhole
<1>3. ASSUME NEW tx \in Txs, ClaimLands(tx) PROVE WholeInv'
  <2>1. Pay(tx) /\ tx \in inflight /\ \A c \in tx : coin[c] = "live"
    BY <1>3 DEF ClaimLands
  <2>2. UNCHANGED <<legacy, task, batch>> /\ inflight' \subseteq inflight
    BY <1>3 DEF ClaimLands, env
  <2>3. PICK r \in Swaps : tx \subseteq CoinsOf(r)
    BY <2>1 DEF IInv, InflightInv
  <2> QED
    BY <2>1, <2>2, <2>3, PayLeavesWhole
<1> QED
  BY <1>1, <1>2, <1>3, ChainStep, WholeUnderTasks, FundLeavesWhole, RefundLeavesWhole

(* Only a task that is idle is given another job.                          *)
LEMMA JobStep ==
  ASSUME TypeOK, [Next]_vars, NEW s \in legacy
  PROVE  \/ task'[s] = "idle" \/ job'[s] = "missed"
         \/ task[s] # "idle" /\ job'[s] = job[s]
         \/ row[s] # "settled"
<1> USE DEF TypeOK
<1>1. ASSUME NEW r \in Swaps, TaskStep(r)
      PROVE  task[r] # "idle" /\ UNCHANGED job /\ \A q \in Swaps \ {r} : task'[q] = task[q]
  <2>1. ASSUME NEW tx, ClaimDone(r, tx) \/ ClaimSkipped(r) \/ ClaimFailed(r)
        PROVE  \A q \in Swaps \ {r} : task'[q] = task[q]
    BY <2>1 DEF ClaimDone, ClaimSkipped, ClaimFailed
  <2>2. task[r] # "idle" /\ UNCHANGED job
    BY <1>1 DEF TaskStep, ReadSpendable, Submit, SubmitReplies, SubmitFails, ReadLanded,
       ReadResolve, ReadHistory, ClaimThrows, ReadStatus, ReadObserve, ObserveThrows,
       MarkSettled, ReadLookup, LookupThrows, caches
  <2>3. CASE \/ ReadSpendable(r) \/ SubmitReplies(r) \/ ReadLanded(r) \/ ReadResolve(r)
             \/ ReadHistory(r) \/ ClaimThrows(r) \/ ReadLookup(r) \/ LookupThrows(r)
    BY <2>1, <2>3 DEF ReadSpendable, SubmitReplies, ReadLanded, ReadResolve, ReadHistory,
       ClaimThrows, ReadLookup, LookupThrows
  <2>4. CASE \/ Submit(r) \/ SubmitFails(r) \/ ReadStatus(r) \/ ReadObserve(r)
             \/ ObserveThrows(r) \/ MarkSettled(r)
    BY <2>4 DEF Submit, SubmitFails, ReadStatus, ReadObserve, ObserveThrows, MarkSettled
  <2> QED
    BY <1>1, <2>2, <2>3, <2>4 DEF TaskStep
<1>2. ASSUME NEW r \in Swaps, StartMissed(r) \/ StartSettle(r)
      PROVE  \/ task'[s] = "idle" \/ job'[s] = "missed"
             \/ task[s] # "idle" /\ job'[s] = job[s]
             \/ row[s] # "settled"
  BY <1>2 DEF StartMissed, StartSettle, Pending
<1>3. CASE Restart
  BY <1>3 DEF Restart
<1>4. ASSUME \/ \E r \in Swaps : Accept(r) \/ ExternalClaim(r)
             \/ \E c \in Coins : Fund(c) \/ Refund(c)
             \/ \E tx \in Txs : ClaimLands(tx) \/ ClaimLost(tx)
             \/ PassPrunes \/ Tick \/ UNCHANGED vars
      PROVE  UNCHANGED <<task, job>>
  BY <1>4 DEF Accept, ExternalClaim, Fund, Refund, ClaimLands, ClaimLost, PassPrunes, Tick, vars
<1> QED
  BY <1>1, <1>2, <1>3, <1>4 DEF Next

LEMMA LegacyStep ==
  ASSUME TypeOK, LegacyInv, [Next]_vars
  PROVE  LegacyInv'
<1>1. UNCHANGED legacy /\ \A s \in legacy : row'[s] = "settled"
  BY RowStep DEF Accept, MarkSettled, env, LegacyInv, TypeOK
<1> QED
  BY <1>1, JobStep DEF LegacyInv

LEMMA GiveUpInit == Init => GInv
<1> SUFFICES ASSUME Init PROVE GInv
  OBVIOUS
<1>1. ASSUME NEW s \in Swaps \ legacy PROVE Whole(s)
  <2>1. Ever(s) = {} /\ Spendable(s) = {}
    BY <1>1 DEF Init, Ever, Spendable, CoinsOf
  <2>2. task[s] = "idle" /\ inflight = {}
    BY <1>1 DEF Init
  <2> QED
    BY <2>1, <2>2 DEF Whole
<1>2. LegacyInv
  BY DEF Init, LegacyInv
<1> QED
  BY <1>1, <1>2, InvInit DEF GInv, WholeInv

LEMMA GiveUpStep ==
  ASSUME ~Overfunds, GInv, [Next]_vars
  PROVE  GInv'
BY InvStep, WholeStep, LegacyStep DEF GInv, IInv

(* Only a look past the deadline, for a row still to settle, gives up, and *)
(* it has just seen no payout.                                             *)
LEMMA ExpiredStep ==
  ASSUME TypeOK, [Next]_vars, NEW s \in expired' \ expired
  PROVE  task[s] = "history" /\ job[s] = "settle" /\ NoPayoutSeen(s) /\ UNCHANGED coin
<1>1. ASSUME NEW r \in Swaps, ReadHistory(r)
      PROVE  task[s] = "history" /\ job[s] = "settle" /\ NoPayoutSeen(s) /\ UNCHANGED coin
  BY <1>1 DEF ReadHistory, ClaimDone, chain
<1>2. ASSUME NEW r \in Swaps, TaskStep(r), ~ReadHistory(r) PROVE expired' \subseteq expired
  <2>1. ASSUME NEW tx, ClaimDone(r, tx) \/ ClaimFailed(r) PROVE expired' \subseteq expired
    BY <2>1 DEF ClaimDone, ClaimFailed, caches
  <2> QED
    BY <1>2, <2>1 DEF TaskStep, ReadSpendable, Submit, SubmitReplies, SubmitFails, ReadLanded,
       ReadResolve, ClaimThrows, ReadStatus, ReadObserve, ObserveThrows,
       MarkSettled, ReadLookup, LookupThrows, caches
<1>3. ASSUME \/ \E r \in Swaps : Accept(r) \/ StartSettle(r) \/ StartMissed(r) \/ ExternalClaim(r)
             \/ \E c \in Coins : Fund(c) \/ Refund(c)
             \/ \E tx \in Txs : ClaimLands(tx) \/ ClaimLost(tx)
             \/ PassPrunes \/ Tick \/ Restart \/ UNCHANGED vars
      PROVE  expired' \subseteq expired
  BY <1>3 DEF Accept, StartSettle, StartMissed, ExternalClaim, Fund, Refund, ClaimLands, ClaimLost,
     PassPrunes, Tick, Restart, vars, caches
<1> QED
  BY <1>1, <1>2, <1>3 DEF Next

LEMMA UnpaidStep ==
  ASSUME GInv, [Next]_vars
  PROVE  \A s \in expired' \ expired : ~FullyPaid(s)
<1> SUFFICES ASSUME NEW s \in expired' \ expired, FullyPaid(s) PROVE FALSE
  OBVIOUS
<1>1. task[s] = "history" /\ job[s] = "settle" /\ NoPayoutSeen(s)
  BY ExpiredStep DEF GInv, IInv
<1>2. s \in Swaps
  BY InvStep DEF GInv, IInv, TypeOK
<1>3. Whole(s)
  BY <1>1, <1>2 DEF GInv, LegacyInv, WholeInv
<1>4. Ever(s) \in Txs /\ \A c \in CoinsOf(s) : coin[c] \in {"absent", "paid"}
  BY DEF FullyPaid, Ever, CoinsOf, Txs
<1>5. PayoutSeen(s, Ever(s))
  <2>1. Ever(s) # Spendable(s)
    BY <1>4 DEF FullyPaid, Spendable
  <2> QED
    BY <1>3, <1>4, <2>1 DEF Whole
<1> QED
  BY <1>1, <1>4, <1>5 DEF NoPayoutSeen

(* Where the solver stops at the quote (~Overfunds, the case of the run    *)
(* that checks it; a coin more and a lockup can be paid by two             *)
(* transactions, of which observedPayout makes nothing), claim() past the  *)
(* deadline gives up on no swap whose lockup went to the receiver in full, *)
(* whatever raced, was lost or restarted before.                           *)
THEOREM GivesUpSafe == ~Overfunds => (Spec => GivesUpOnlyUnpaid)
<1> SUFFICES ASSUME ~Overfunds PROVE Spec => GivesUpOnlyUnpaid
  OBVIOUS
<1>1. Init => GInv
  BY GiveUpInit
<1>2. GInv /\ [Next]_vars => GInv'
  BY GiveUpStep
<1>3. GInv /\ [Next]_vars => [\A s \in expired' \ expired : ~FullyPaid(s)]_vars
  BY UnpaidStep
<1> QED
  BY <1>1, <1>2, <1>3, PTL DEF Spec, GivesUpOnlyUnpaid

-----------------------------------------------------------------------------
(* Who pays below the quote. Only covclaimd can: what the poller claims is *)
(* worth it.                                                               *)

WorthInv ==
  \A c \in Coins, tx \in Txs :
    coin[c] = "paid" /\ LockupOf[c] \notin legacy /\ spender[c] = tx => Total(tx) >= Expected

LEMMA WorthStep ==
  ASSUME ~ExternalClaimer, IInv, WorthInv, [Next]_vars
  PROVE  WorthInv'
<1> SUFFICES ASSUME NEW c \in Coins, NEW tx \in Txs,
                    coin'[c] = "paid", LockupOf[c] \notin legacy', spender'[c] = tx
             PROVE  Total(tx) >= Expected
  BY DEF WorthInv, Txs
<1>1. UNCHANGED legacy
  BY RowStep DEF Accept, MarkSettled, env
<1>2. CASE coin[c] = "paid"
  BY <1>1, <1>2, PaidStays DEF WorthInv, IInv
<1>3. CASE coin[c] # "paid"
  <2>1. ~UNCHANGED chain
    BY <1>3 DEF chain
  <2>2. \A d \in Coins : ~Fund(d) /\ ~Refund(d)
    BY <1>3 DEF Fund, Refund, IInv, TypeOK
  <2>3. PICK t \in Txs : ClaimLands(t)
    BY <2>1, <2>2, ChainStep DEF ExternalClaim
  <2>4. t \in inflight /\ spender'[c] = t
    BY <1>3, <2>3 DEF ClaimLands, Pay
  <2> QED
    BY <2>4 DEF IInv, InflightInv
<1> QED
  BY <1>2, <1>3

(* "Refused as underfunded rather than revealing the preimage for less     *)
(* than the quote" is true of a server without a covclaimd, whose poller   *)
(* makes every claim there is; the run `offline_short` refutes it of one   *)
(* with it.                                                                *)
THEOREM QuoteIsPaidWithoutCovclaimd == ~ExternalClaimer => (Spec => []RevealPaysQuote)
<1> SUFFICES ASSUME ~ExternalClaimer PROVE Spec => []RevealPaysQuote
  OBVIOUS
<1>1. Init => IInv /\ WorthInv
  BY InvInit DEF Init, WorthInv
<1>2. IInv /\ WorthInv /\ [Next]_vars => (IInv /\ WorthInv)'
  BY InvStep, WorthStep
<1>3. IInv /\ WorthInv => RevealPaysQuote
  <2> SUFFICES ASSUME IInv, WorthInv, NEW s \in Swaps \ legacy, Revealed(s)
               PROVE  Total(payoutReference[s]) >= Expected
    BY DEF RevealPaysQuote
  <2>1. Landed(s, payoutReference[s])
    BY DEF IInv, ReferenceInv, Revealed
  <2>2. PICK c \in payoutReference[s] : coin[c] = "paid" /\ spender[c] = payoutReference[s]
    BY <2>1 DEF Landed, NoTx
  <2>3. c \in Coins /\ LockupOf[c] = s /\ payoutReference[s] \in Txs
    BY <2>1, <2>2 DEF Landed, CoinsOf, Txs, NoTx
  <2> QED
    BY <2>2, <2>3 DEF WorthInv
<1> QED
  BY <1>1, <1>2, <1>3, PTL DEF Spec
=============================================================================
