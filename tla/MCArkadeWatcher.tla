-------------------------- MODULE MCArkadeWatcher --------------------------
(* Two records of one address, and one of another that was accepted before *)
(* the server started; a transaction that pays both addresses, and one     *)
(* that pays the first twice as much and sorts before the other.           *)
EXTENDS ArkadeWatcher

CONSTANTS a1, a2, b1, A, B, v1, v2, v3, t1, t2

MCScriptOf == [r \in Records |-> IF r = b1 THEN B ELSE A]
MCAmount == [r \in Records |-> IF r = a2 THEN 2 ELSE 1]
MCVtxoScript == [v \in Vtxos |-> IF v = v2 THEN B ELSE A]
MCValue == [v \in Vtxos |-> IF v = v3 THEN 2 ELSE 1]
MCRank == [v \in Vtxos |-> IF v = v3 THEN 0 ELSE IF v = v1 THEN 1 ELSE 2]
MCTxOf == [v \in Vtxos |-> IF v = v3 THEN t2 ELSE t1]
=============================================================================
