--------------------------- MODULE OperationBudget --------------------------
(***************************************************************************)
(* What an accepted prefix promises, without its evidence: operations move *)
(* through a fixed lifecycle and hold amounts against budgets, the amounts *)
(* held by all operations never exceed a budget, and what an operation     *)
(* held comes back exactly once, when it is released.                      *)
(*                                                                         *)
(* Availability is computed from what the operations hold; the code keeps  *)
(* a running total per account instead (`charged` of _replay_prefix).      *)
(***************************************************************************)
EXTENDS Integers, FiniteSetsExt

CONSTANTS Ops, Keys, Ceilings, None

VARIABLES
  stage,    \* where each operation is in its lifecycle
  held,     \* operation -> key -> amount it holds
  budget    \* key -> ceiling, None until first charged

vars == <<stage, held, budget>>

Total(k) == MapThenSumSet(LAMBDA o : held[o][k], Ops)

Nothing == [k \in Keys |-> 0]

Init ==
  /\ stage = [o \in Ops |-> "none"]
  /\ held = [o \in Ops |-> Nothing]
  /\ budget = [k \in Keys |-> None]

Move(o, from, to) == stage[o] \in from /\ stage' = [stage EXCEPT ![o] = to]

Refuse(o) == Move(o, {"none"}, "refused") /\ UNCHANGED <<held, budget>>

\* The operation takes its amounts; a budget once fixed never changes.
Authorize(o) ==
  /\ Move(o, {"none"}, "authorized")
  /\ \A p \in Ops \ {o} : held'[p] = held[p]
  /\ \A k \in Keys :
       /\ budget[k] # None => budget'[k] = budget[k]
       /\ held'[o][k] > 0 => budget'[k] # None
       /\ budget'[k] # None => Total(k) + held'[o][k] <= budget'[k]

Dispatch(o) == Move(o, {"authorized"}, "fenced") /\ UNCHANGED <<held, budget>>
Park(o)     == Move(o, {"fenced"}, "pending") /\ UNCHANGED <<held, budget>>
Resume(o)   == Move(o, {"pending"}, "fenced") /\ UNCHANGED <<held, budget>>

Commit(o) ==
  Move(o, {"fenced", "pending"}, "committed") /\ UNCHANGED <<held, budget>>

Release(o) ==
  /\ Move(o, {"authorized", "fenced", "pending"}, "released")
  /\ held' = [held EXCEPT ![o] = Nothing]
  /\ UNCHANGED budget

Next ==
  \E o \in Ops :
    \/ Refuse(o) \/ Authorize(o) \/ Dispatch(o) \/ Park(o) \/ Resume(o)
    \/ Commit(o) \/ Release(o)

Spec == Init /\ [][Next]_vars
=============================================================================
