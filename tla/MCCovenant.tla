----------------------------- MODULE MCCovenant -----------------------------
(* An address paid by a transaction with two outputs to it: its receipt,   *)
(* which can be renewed once, and a stray one below the amount.            *)
EXTENDS Covenant

CONSTANTS a, r, u, t1

MCRank == [s \in Scripts |-> 0]
MCScriptOf == [p \in Payments |-> a]
MCMaxRenewals == [p \in Payments |-> IF p = r THEN 1 ELSE 0]
MCTxOf == [p \in Payments |-> t1]
=============================================================================
