--------------------------- MODULE MCVerifyBatch ---------------------------
(* Two invoices at one endpoint, and a server that holds two streams.       *)
EXTENDS VerifyBatch

CONSTANTS u, v
=============================================================================
