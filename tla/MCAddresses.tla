---------------------------- MODULE MCAddresses ----------------------------
(* Two wallets and two names on one domain, one rail to turn off, and two  *)
(* codes: a reservation's and the one it is reissued as, or a free one.    *)
EXTENDS Addresses, TLC

CONSTANTS a, b, v, w, c1, c2, covenant

MCModeSets == {{"self", "session"}, {"session", "random"}}

(* Codes, names and wallets are only ever compared.                        *)
Alike == Permutations({c1, c2}) \cup Permutations({a, b}) \cup Permutations({v, w})
=============================================================================
