--------------------------- MODULE MCPairedReplay ---------------------------
(* Small instances of PairedReplay: those of PrefixReplay. *)
EXTENDS MCPrefixReplay, PairedReplay

\* One stands for all: the replay does not read it.
OneDependency == {[operation |-> f1, signed |-> FALSE]}
=============================================================================
