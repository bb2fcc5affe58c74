---------------------------- MODULE PairedReplay ----------------------------
(***************************************************************************)
(* The ledgers that PairedBundles joins are prefixes that PrefixReplay     *)
(* accepts.  PairedBundles keeps of a ledger the dispatch_fenced records   *)
(* in their order and which operations were committed.  Here the replay    *)
(* keeps the order of the fences it read as a history, and is seen as A's  *)
(* ledger of a pair and as B's: whatever it accepts is one PairedBundles   *)
(* considers on either side.                                               *)
(***************************************************************************)
EXTENDS PrefixReplay, Sequences

CONSTANT
  Dependencies  \* bound: what the claims of B's fences name as a dispatch of A

\* The replay does not read a dependency, so claims may name any, or none;
\* `verify_execution_bundle` reads that of the selected operation.
ASSUME DependenciesAssumption ==
  Dependencies \subseteq {None} \cup [operation : Foreign, signed : BOOLEAN]

VARIABLE fenced  \* history: the fences read, each with its dependency

NewlyFenced == {op \in Ops : fences[op] = NoFence /\ fences'[op] # NoFence}

OrderedInit == Init /\ fenced = <<>>

OrderedNext ==
  /\ Next
  /\ IF NewlyFenced = {} THEN UNCHANGED fenced
     ELSE \E op \in NewlyFenced, dependency \in Dependencies :
            fenced' = Append(fenced,
                             [operation |-> op, dependency |-> dependency])

OrderedSpec == OrderedInit /\ [][OrderedNext]_<<vars, fenced>>
-----------------------------------------------------------------------------
(* The two sides of a pair.                                                *)

Signed(op) == fences[op].token = "genuine"

Token(op) ==
  IF fences[op].token = "absent" THEN None
  ELSE [operation |-> fences[op].claims.op, signed |-> Signed(op)]

AFences ==
  [n \in DOMAIN fenced |->
     [operation |-> fenced[n].operation, token |-> Token(fenced[n].operation)]]

BFences ==
  [n \in DOMAIN fenced |->
     [operation |-> fenced[n].operation, foreign |-> fenced[n].dependency,
      signed |-> Signed(fenced[n].operation)]]

Committed == {op \in Ops : operation_states[op] = "committed"}

ASide == INSTANCE PairedBundles WITH
  AOperations <- Ops, a_fences <- AFences, a_committed <- Committed,
  BOperations <- {}, b_fences <- <<>>, b_committed <- {},
  selected <- None, result <- None, Absent <- None

BSide == INSTANCE PairedBundles WITH
  AOperations <- Foreign, a_fences <- <<>>, a_committed <- {},
  BOperations <- Ops, b_fences <- BFences, b_committed <- Committed,
  selected <- None, result <- None, Absent <- None

\* A replayed ledger is fenced and committed as PairedBundles says, as A's
\* ledger and as B's: one fence for an operation, in ledger order, whose token
\* names that operation and stays as it was read; no commitment without a
\* fence, and none taken back.
ImplementsSides == ASide!PairSpec /\ BSide!PairSpec
-----------------------------------------------------------------------------
(* The inductive strengthening the proofs use.                             *)

FencedRecords == [operation : Ops, dependency : Dependencies]

\* The history holds the fences read, and no others.
FencedInv ==
  /\ fenced \in Seq(FencedRecords)
  /\ \A op \in Ops :
       fences[op] # NoFence <=> \E n \in DOMAIN fenced : fenced[n].operation = op
=============================================================================
