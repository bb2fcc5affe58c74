--------------------------- MODULE MCLedgerChecks ---------------------------
(* Small instances of LedgerChecks. *)
EXTENDS LedgerChecks, TLC

CONSTANTS b1, b2

Symmetry == Permutations({b1, b2})

Command(checks) == [entry |-> "cli", checks |-> checks]

AllRequests ==
  {Command(checks) : checks \in SUBSET CheckNames}
    \cup {[entry |-> "verify_chain", checks |-> {"head"}],
          [entry |-> "verify_witnessed_head", checks |-> {"witness"}]}

CommandRequests == {Command({"head"})}
=============================================================================
