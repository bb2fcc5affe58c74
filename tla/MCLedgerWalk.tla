---------------------------- MODULE MCLedgerWalk ----------------------------
(* Small instances of LedgerWalk. *)
EXTENDS LedgerWalk

CONSTANTS b1, b2
=============================================================================
