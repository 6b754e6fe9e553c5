--------------------------- MODULE MCRunLedger ----------------------------
(* Small instances of RunLedger. *)
EXTENDS RunLedger, TLC

CONSTANTS r1, r2
===========================================================================
