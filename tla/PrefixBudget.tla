---------------------------- MODULE PrefixBudget ----------------------------
(***************************************************************************)
(* The replay implements OperationBudget: an operation holds what its      *)
(* unreleased reservations say, and the running totals of `charged` always *)
(* agree with it.                                                          *)
(***************************************************************************)
EXTENDS PrefixReplay, FiniteSetsExt

\* A ledger has finitely many records (MAX_LEDGER_RECORDS at most), so it
\* decides finitely many operations: what all of them hold has a sum.
ASSUME OperationsFinite == IsFiniteSet(Ops)

\* The open or committed reservations that debit a key.
Charging(op, k) ==
  {r \in Reservations :
     /\ reservations[r].owner = op /\ reservations[r].key = k
     /\ reservations[r].state # "released"}

HeldBy ==
  [op \in Ops |-> [k \in Keys |->
     MapThenSumSet(LAMBDA r : reservations[r].amount, Charging(op, k))]]

Budgets == INSTANCE OperationBudget WITH
  stage <- operation_states,
  held <- HeldBy,
  budget <- [k \in Keys |-> charged[k].ceiling]

\* Every step of the replay is a step of the lifecycle with budgets, or leaves
\* it alone: the code's running counters, reservation states and early
\* refusals together enforce the declarative budget rule.
ImplementsBudgets == Budgets!Spec

\* The running total of a key is the sum of its unreleased reservations: no
\* order of reservations, releases and commitments loses or invents capacity.
AccountsBalanced ==
  \A k \in Keys :
    charged[k].used =
      MapThenSumSet(LAMBDA r : reservations[r].amount,
                    UNION {Charging(op, k) : op \in Ops})
=============================================================================
