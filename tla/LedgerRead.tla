----------------------------- MODULE LedgerRead -----------------------------
(***************************************************************************)
(* What a walk of the ledger promises its caller: it reads an append-only  *)
(* log at one moment between its start and its end, or fails.              *)
(***************************************************************************)
EXTENDS Integers, Sequences

CONSTANTS Bodies, None, Failed

VARIABLES
  log,      \* what the ledger's writer has appended, in order
  since,    \* None, or how long the log was when the read began
  result    \* None, Failed, or the prefix that was read

vars == <<log, since, result>>

Init == log = <<>> /\ since = None /\ result = None

Extend(b) == log' = Append(log, b) /\ UNCHANGED <<since, result>>

Start == since = None /\ since' = Len(log) /\ UNCHANGED <<log, result>>

Return ==
  /\ since # None /\ result = None
  /\ \E n \in since .. Len(log) : result' = SubSeq(log, 1, n)
  /\ UNCHANGED <<log, since>>

Refuse == result = None /\ result' = Failed /\ UNCHANGED <<log, since>>

Next == (\E b \in Bodies : Extend(b)) \/ Start \/ Return \/ Refuse

Spec == Init /\ [][Next]_vars
=============================================================================
