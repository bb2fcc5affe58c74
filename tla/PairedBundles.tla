---------------------------- MODULE PairedBundles ---------------------------
(***************************************************************************)
(* Two organisations and one dispatch.  A fences and signs dispatches, B   *)
(* executes operations that depend on them, each keeps a ledger, and       *)
(* `verify_paired_execution_bundles` of paired_bundles.py joins a bundle   *)
(* of A with a bundle of B.  A caller selects one operation on each side   *)
(* (`ExecutionBundleTrust.operation_id`); the bundle is the whole prefix,  *)
(* so it also holds the fences of the operations not selected.             *)
(*                                                                         *)
(* Of a ledger only the dispatch_fenced records matter here, in order, and *)
(* which operations were committed.  PrefixReplay is the model of the      *)
(* prefix: at most one fence for an operation, a token that may be absent, *)
(* and whose signature is verified for the selected operation alone.       *)
(***************************************************************************)
EXTENDS Integers, Sequences

CONSTANTS
  AOperations, BOperations,
  Absent

\* The token A signs for an operation is known by it.  A dispatch is signed,
\* or a forgery that names the operation.
DispatchTokens == [operation : AOperations, signed : BOOLEAN]

ASSUME PairAssumption ==
  Absent \notin AOperations \cup BOperations \cup DispatchTokens \cup {"fenced_v2"}

VARIABLES
  a_fences, b_fences,        \* dispatch_fenced records, in ledger order
  a_committed, b_committed,  \* operations with a committed receipt
  selected,                  \* Absent, or the operations the caller selected
  result                     \* Absent, or a PairedBundleVerification

pairVars == <<a_fences, b_fences, a_committed, b_committed, selected, result>>

PairInit ==
  /\ a_fences = <<>> /\ b_fences = <<>>
  /\ a_committed = {} /\ b_committed = {}
  /\ selected = Absent /\ result = Absent

Fenced(fences) == {fences[n].operation : n \in DOMAIN fences}
-----------------------------------------------------------------------------
(* The two ledgers.                                                        *)

\* A fences an operation and may retain the token it signed.
AFence(op) ==
  /\ op \notin Fenced(a_fences)
  /\ \E token \in {Absent, [operation |-> op, signed |-> TRUE],
                           [operation |-> op, signed |-> FALSE]} :
       a_fences' = Append(a_fences, [operation |-> op, token |-> token])
  /\ UNCHANGED <<b_fences, a_committed, b_committed>>

\* B fences an operation of its own, native or with claims that depend on a
\* dispatch of A, signed or not, which the prefix in A's bundle may be too
\* short to hold.
BFence(op) ==
  /\ op \notin Fenced(b_fences)
  /\ \E foreign \in {Absent} \cup DispatchTokens, signed \in BOOLEAN :
       b_fences' = Append(b_fences,
         [operation |-> op, foreign |-> foreign, signed |-> signed])
  /\ UNCHANGED <<a_fences, a_committed, b_committed>>

ACommit(op) ==
  /\ op \in Fenced(a_fences) \ a_committed
  /\ a_committed' = a_committed \cup {op}
  /\ UNCHANGED <<a_fences, b_fences, b_committed>>

BCommit(op) ==
  /\ op \in Fenced(b_fences) \ b_committed
  /\ b_committed' = b_committed \cup {op}
  /\ UNCHANGED <<a_fences, b_fences, a_committed>>

Ledgers ==
  /\ result = Absent
  /\ \/ \E op \in AOperations : AFence(op) \/ ACommit(op)
     \/ \E op \in BOperations : BFence(op) \/ BCommit(op)
  /\ UNCHANGED <<selected, result>>
-----------------------------------------------------------------------------
(* The verification of a pair.                                             *)

\* Only for an operation fenced in fences.
FenceOf(fences, op) ==
  fences[CHOOSE n \in DOMAIN fences : fences[n].operation = op]

\* `_side`: verify_execution_bundle passes an operation with a dispatch it
\* signed and a committed receipt.
AVerified(op) ==
  /\ op \in a_committed
  /\ FenceOf(a_fences, op).token = [operation |-> op, signed |-> TRUE]

\* The dependency is the artifact of B's decision, which A signed.
DependencyHolds(op) ==
  FenceOf(b_fences, op).foreign # Absent => FenceOf(b_fences, op).foreign.signed

\* Mutation of BVerified: the receipt is not required.
BVerifiedUncommitted(op) ==
  op \in Fenced(b_fences) /\ FenceOf(b_fences, op).signed /\ DependencyHolds(op)

BVerified(op) ==
  op \in b_committed /\ FenceOf(b_fences, op).signed /\ DependencyHolds(op)

\* `_a_dispatch`: the token of the first dispatch_fenced record.
ADispatch == IF a_fences = <<>> THEN Absent ELSE Head(a_fences).token

\* `_b_foreign_dispatch`: the dependency of the first.
BForeignDispatch == IF b_fences = <<>> THEN Absent ELSE Head(b_fences).foreign

Paired == ADispatch # Absent /\ ADispatch = BForeignDispatch

EvidenceForm(op) ==
  IF FenceOf(b_fences, op).foreign = Absent THEN Absent ELSE "fenced_v2"

Verify(a_op, b_op) ==
  LET valid == AVerified(a_op) /\ BVerified(b_op) /\ Paired
  IN  /\ result = Absent
      /\ selected' = [a |-> a_op, b |-> b_op]
      /\ result' = [valid |-> valid, paired_dispatch_equal |-> Paired,
                    a_dispatch |-> IF valid THEN ADispatch ELSE Absent,
                    evidence_form |-> IF valid THEN EvidenceForm(b_op) ELSE Absent]
      /\ UNCHANGED <<a_fences, b_fences, a_committed, b_committed>>

PairNext ==
  \/ Ledgers
  \/ \E a_op \in AOperations, b_op \in BOperations : Verify(a_op, b_op)

PairSpec == PairInit /\ [][PairNext]_pairVars
-----------------------------------------------------------------------------
(* Properties.                                                             *)

Valid == result # Absent /\ result.valid

Unique == Len(a_fences) = 1 /\ Len(b_fences) = 1

\* A valid pair of bundles names a dispatch that A fenced and B depends on, and
\* both selected operations executed on a dispatch their fence signed.
\* Of ledgers with one dispatch each, the pair is valid exactly when both sides
\* verify and B's operation depends on the dispatch A's operation was given;
\* that is the dispatch named, and the evidence is of the foreign form.
ValidPairIsLinked ==
  /\ Valid =>
       /\ selected.a \in a_committed /\ selected.b \in b_committed
       /\ result.a_dispatch # Absent
       /\ \E n \in DOMAIN a_fences : a_fences[n].token = result.a_dispatch
       /\ \E n \in DOMAIN b_fences : b_fences[n].foreign = result.a_dispatch
  /\ result # Absent /\ Unique =>
       LET token == [operation |-> selected.a, signed |-> TRUE]
       IN  /\ result.valid <=>
                /\ AVerified(selected.a) /\ BVerified(selected.b)
                /\ FenceOf(b_fences, selected.b).foreign = token
           /\ result.valid =>
                result.a_dispatch = token /\ result.evidence_form # Absent

\* README: "The result names the verified A dispatch and its hash when the
\* pair is valid": the dispatch of the operation that was verified.
PairNamesVerifiedDispatch ==
  Valid => result.a_dispatch = [operation |-> selected.a, signed |-> TRUE]
=============================================================================
