--------------------------- MODULE MCPairedBundles --------------------------
(* Small instances of PairedBundles. *)
EXTENDS PairedBundles

CONSTANTS a1, a2, b1, b2
=============================================================================
