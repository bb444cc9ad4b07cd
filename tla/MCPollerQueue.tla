--------------------------- MODULE MCPollerQueue ---------------------------
(* Two swaps for one slot, one of which may hang.                       *)
EXTENDS PollerQueue

CONSTANTS a, b
=============================================================================
