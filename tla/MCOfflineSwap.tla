--------------------------- MODULE MCOfflineSwap ---------------------------
(* One swap whose lockup may be funded by one coin or piecemeal: a coin    *)
(* worth the quote and two that only together are.                         *)
EXTENDS OfflineSwap

CONSTANTS s1, full, half1, half2

MCLockupOf == [c \in Coins |-> s1]
MCValue == [c \in Coins |-> IF c = full THEN 2 ELSE 1]
MCExpected == 2
=============================================================================
