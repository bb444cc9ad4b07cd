------------------------------ MODULE Receive ------------------------------
(***************************************************************************)
(* What the server promises about a Lightning payment it takes for an      *)
(* offline receiver, with none of the machinery that delivers it.          *)
(*                                                                         *)
(* A swap is promised once its invoice is out. Arkade transactions paying  *)
(* the receiver land on the chain, in any number and at any time. The      *)
(* server proves a receive to the payer by publishing the swap's preimage; *)
(* it does so at most once, for a transaction that has already landed.     *)
(* Nothing here says a promised swap is ever paid: the solver may never    *)
(* fund it, and the payer is then refunded.                                *)
(***************************************************************************)

CONSTANTS
  Swaps,    (* swaps the server may offer                                  *)
  Txs,      (* transactions that may pay a receiver                        *)
  NoTx      (* the proof of a swap that has none; not one of Txs           *)

VARIABLES
  promised,   (* swaps whose invoice a payer may hold                      *)
  received,   (* received[s]: the transactions that paid s's receiver      *)
  proof       (* proof[s]: the transaction s's published preimage proves   *)

vars == <<promised, received, proof>>

(* A server may start over swaps that an earlier process promised.         *)
Init ==
  /\ promised \in SUBSET Swaps
  /\ received \in [Swaps -> SUBSET Txs]
  /\ \A s \in Swaps : received[s] # {} => s \in promised
  /\ proof = [s \in Swaps |-> NoTx]

Promise(s) ==
  /\ s \notin promised
  /\ promised' = promised \cup {s}
  /\ UNCHANGED <<received, proof>>

Land(s, tx) ==
  /\ s \in promised
  /\ received' = [received EXCEPT ![s] = @ \cup {tx}]
  /\ UNCHANGED <<promised, proof>>

Prove(s, tx) ==
  /\ s \in promised
  /\ tx \in received[s]
  /\ proof[s] = NoTx
  /\ proof' = [proof EXCEPT ![s] = tx]
  /\ UNCHANGED <<promised, received>>

Next ==
  \E s \in Swaps :
    \/ Promise(s)
    \/ \E tx \in Txs : Land(s, tx) \/ Prove(s, tx)

Spec == Init /\ [][Next]_vars
=============================================================================
