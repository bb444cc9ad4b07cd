---------------------------- MODULE MCFixedFloat ----------------------------
(* One callback and its order, with a budget for one at a time.             *)
EXTENDS FixedFloat

CONSTANTS alice, x

MCAddress == [o \in Orders |-> alice]
=============================================================================
