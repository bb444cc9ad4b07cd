----------------------------- MODULE MCSession -----------------------------
(* Three wallets, one of which connects twice under its token and from     *)
(* another address the second time. The server has room for two of them    *)
(* and for one per address, so either limit may be the one that refuses.   *)
EXTENDS Session

CONSTANTS r1, r2, w1, w2, v1, u1, wallet, other, third, home, away, abroad

MCIdOf == [c \in Conns |-> IF c = v1 THEN other ELSE IF c = u1 THEN third ELSE wallet]
MCIpOf == [c \in Conns |-> IF c = w2 THEN away ELSE IF c = u1 THEN abroad ELSE home]
=============================================================================
