--------------------------- MODULE MCPrefixReplay ---------------------------
(* Small instances of PrefixReplay and of its refinement.                  *)
EXTENDS PrefixBudget, TLC

CONSTANTS o1, o2, o3, f1, f2, n1, n2, n3, n4, d1, d2, a1, k1, k2, r1, r2, r3, r4,
  l1

\* One instant of time: an identifier once used stays used.
Instant(id) == [id |-> id, from |-> 1, until |-> 1]
InstantProofs3 == {Instant(n1), Instant(n2), Instant(n3)}

\* Two A dispatches of one foreign operation and one of another.
InstantDispatches ==
  {[id |-> d1, from |-> 1, until |-> 1, identity |-> f1],
   [id |-> d2, from |-> 1, until |-> 1, identity |-> f1]}

\* A nonce signed twice, for one moment and for both, a nonce for each of them,
\* and an approval.
TimedProofs ==
  {[id |-> n1, from |-> 1, until |-> 1], [id |-> n1, from |-> 1, until |-> 2],
   [id |-> n2, from |-> 1, until |-> 1], [id |-> n3, from |-> 2, until |-> 2]}
TimedApprovals == {[id |-> a1, from |-> 1, until |-> 2]}

Joined(ops) == {[op |-> o, decision |-> o] : o \in ops}
Stray(ops) == [op : ops, decision : ops]
OwnIntents == Joined(Ops)
AllIntents == Stray(Ops)
LegacyIntents == AllIntents \cup [op : Ops, decision : LegacyDecisions]

NonceSymmetry == Permutations({n1, n2, n3, n4})
AccountSymmetry ==
  Permutations({o1, o2, o3}) \cup Permutations({r1, r2, r3})
    \cup Permutations({n1, n2, n3})
BudgetSymmetry ==
  Permutations({o1, o2}) \cup Permutations({r1, r2, r3})
    \cup Permutations({n1, n2, n3})
=============================================================================
