----------------------------- MODULE Attenuation ----------------------------
(***************************************************************************)
(* The attenuation rule of attenuation.py: when a child delegation narrows *)
(* its parent.  One predicate per axis of AXES; the name of the first axis *)
(* that widens is wording and is left out.                                 *)
(*                                                                         *)
(* A slip is a record of verified DelegationClaims.  Lists whose order has *)
(* no meaning are sets.  A bound's optional applies_to is its two sides    *)
(* (actions, boundaries), its window triple is one value, and a named set  *)
(* or a signer set is its content hash.                                    *)
(***************************************************************************)
EXTENDS Integers

CONSTANTS
  None,    \* an absent claim
  Within   \* pairs <<p, q>> of paths: p equals q or lies below it, normalised

\* A normalised path equal to, or below, one that is below a third.
ASSUME WithinAssumption ==
  \A a, b \in Within : a[2] = b[1] => <<a[1], b[2]>> \in Within

-----------------------------------------------------------------------------
(* What parse_delegation_claims establishes of every slip.                 *)

PerGrant(bounds)  == {b \in bounds : b.aggregation = None}
Aggregate(bounds) == {b \in bounds : b.aggregation # None}

WellFormedBound(b, slip) ==
  /\ b.amount_scaled \in Nat
  /\ b.aggregation \in {None, "entry"}
  /\ b.actions # None => b.actions \subseteq slip.scope_actions
  /\ b.aggregation = "entry" => b.window # None /\ slip.lineage # None

WellFormedCapability(cap, slip) ==
  /\ cap.nbf \in Int /\ cap.exp \in Int
  /\ cap.actions \subseteq slip.scope_actions
  /\ slip.nbf =< cap.nbf /\ cap.nbf =< cap.exp /\ cap.exp =< slip.exp

WellFormed(slip) ==
  /\ slip.nbf \in Int /\ slip.exp \in Int
  /\ slip.chain_depth \in Nat /\ slip.max_depth \in Nat
  /\ \A cap \in slip.capabilities : WellFormedCapability(cap, slip)
  /\ \A b \in slip.bounds : WellFormedBound(b, slip)
  /\ \A b, d \in slip.bounds :
       b.kind = d.kind /\ b.aggregation = d.aggregation => b = d
  /\ slip.approval_quorum # None => slip.approval_quorum.threshold \in Nat \ {0}
  /\ slip.aud # {}
  /\ slip.max_revocation_age_ms # None => slip.max_revocation_age_ms \in Nat \ {0}

-----------------------------------------------------------------------------
(* Windows and rights.                                                     *)

\* Every window during which a slip authorises an action.
GrantWindows(slip, action) ==
  IF slip.capabilities = {}
  THEN {w \in {[nbf |-> slip.nbf, exp |-> slip.exp]} : action \in slip.scope_actions}
  ELSE {[nbf |-> cap.nbf, exp |-> cap.exp] :
          cap \in {c \in slip.capabilities : action \in c.actions}}

Covers(w, at) == w.nbf =< at /\ at =< w.exp

HoldsRight(slip, action, at) ==
  IF slip.capabilities = {}
  THEN action \in slip.scope_actions
  ELSE \E w \in GrantWindows(slip, action) : Covers(w, at)

-----------------------------------------------------------------------------
(* The axes.                                                               *)

ActionsNarrow(child, parent) == child.scope_actions \subseteq parent.scope_actions

PathsNarrow(child, parent) ==
  \A p \in child.scope_paths : \E q \in parent.scope_paths : <<p, q>> \in Within

\* Mutation of WindowsNarrow: the slips' own windows are compared.
SlipWindowsNarrow(child, parent) == parent.nbf =< child.nbf /\ child.exp =< parent.exp

\* The axes "capabilities" and "time".
WindowsNarrow(child, parent) ==
  \A action \in child.scope_actions : \A w \in GrantWindows(child, action) :
    \E v \in GrantWindows(parent, action) : v.nbf =< w.nbf /\ w.exp =< v.exp

NamedSetKept(child, parent) ==
  parent.named_set_ref # None => child.named_set_ref = parent.named_set_ref

\* A side of applies_to: absent means everywhere.
SideKept(child, parent) ==
  child # None => parent # None /\ parent \subseteq child

\* The axes "bounds" and "applies_to", for one bound of the parent.
BoundRestated(b, d) ==
  /\ b.kind = d.kind
  /\ b.unit = d.unit
  /\ b.amount_scaled =< d.amount_scaled
  /\ d.window # None => b.window = d.window
  /\ SideKept(b.actions, d.actions)
  /\ SideKept(b.boundaries, d.boundaries)

BoundsNarrow(child, parent) ==
  \A d \in PerGrant(parent.bounds) : \E b \in PerGrant(child.bounds) : BoundRestated(b, d)

\* Mutation of AggregatesKept: the rule of the bounds of one grant.
AggregatesNarrow(child, parent) ==
  \A d \in Aggregate(parent.bounds) : \E b \in Aggregate(child.bounds) : BoundRestated(b, d)

AggregatesKept(child, parent) == Aggregate(child.bounds) = Aggregate(parent.bounds)

QuorumNarrow(child, parent) ==
  parent.approval_quorum # None =>
    /\ child.approval_quorum # None
    /\ child.approval_quorum.signers = parent.approval_quorum.signers
    /\ child.approval_quorum.threshold >= parent.approval_quorum.threshold

\* A parent without tools leaves them free.
ToolsNarrow(child, parent) ==
  parent.scope_tools # {} =>
    child.scope_tools # {} /\ child.scope_tools \subseteq parent.scope_tools

DomainsNarrow(child, parent) == child.scope_domains \subseteq parent.scope_domains

\* Mutation of LineageKept: the entry alone is compared.
EntryKept(child, parent) ==
  parent.lineage # None =>
    child.lineage # None /\ child.lineage.entry = parent.lineage.entry

LineageKept(child, parent) == parent.lineage # None => child.lineage = parent.lineage

AudienceNarrow(child, parent) ==
  parent.aud # None => child.aud # None /\ child.aud \subseteq parent.aud

RevocationAgeNarrow(child, parent) ==
  parent.max_revocation_age_ms # None =>
    /\ child.max_revocation_age_ms # None
    /\ child.max_revocation_age_ms =< parent.max_revocation_age_ms

\* Mutation of MaxDepthNarrow: the child's depth is compared.
DepthReached(child, parent) == child.chain_depth =< parent.max_depth

MaxDepthNarrow(child, parent) == child.max_depth =< parent.max_depth

\* _scope_widening_axis(child, parent) is None.
Narrows(child, parent) ==
  /\ ActionsNarrow(child, parent)
  /\ PathsNarrow(child, parent)
  /\ WindowsNarrow(child, parent)
  /\ NamedSetKept(child, parent)
  /\ BoundsNarrow(child, parent)
  /\ AggregatesKept(child, parent)
  /\ QuorumNarrow(child, parent)
  /\ ToolsNarrow(child, parent)
  /\ DomainsNarrow(child, parent)
  /\ LineageKept(child, parent)
  /\ AudienceNarrow(child, parent)
  /\ RevocationAgeNarrow(child, parent)
  /\ MaxDepthNarrow(child, parent)

-----------------------------------------------------------------------------
(* The accounts of consumption.py that a chain of slips charges.           *)

BoundApplies(b, action, boundary) ==
  /\ b.actions # None => action \in b.actions
  /\ b.boundaries # None => boundary \in b.boundaries

\* The windowed bounds of a slip that an action charges.
Charged(slip, action, boundary) ==
  {b \in slip.bounds : BoundApplies(b, action, boundary) /\ b.window # None}

\* Two slips state one shared account with different ceilings.
Contradictory(slip, other, action, boundary) ==
  \E b \in Charged(slip, action, boundary), d \in Charged(other, action, boundary) :
    /\ b.aggregation # None /\ d.aggregation # None
    /\ slip.lineage.entry = other.lineage.entry
    /\ b.kind = d.kind /\ b.unit = d.unit /\ b.window = d.window
    /\ b.amount_scaled # d.amount_scaled

-----------------------------------------------------------------------------
(* What a slip allows: the request is granted at its time, reaches nothing *)
(* outside the slip's scope, and meets every restriction the slip states.  *)

MeetsBounds(slip, r) ==
  \A b \in slip.bounds :
    b.kind = r.kind /\ BoundApplies(b, r.action, r.boundary) =>
      b.unit = r.unit /\ r.amount =< b.amount_scaled

Allows(slip, r) ==
  /\ \E w \in GrantWindows(slip, r.action) : Covers(w, r.at)
  /\ \E p \in slip.scope_paths : <<r.path, p>> \in Within
  /\ r.domain \in slip.scope_domains
  /\ slip.scope_tools # {} => r.tool \in slip.scope_tools
  /\ slip.named_set_ref # None => r.set = slip.named_set_ref
  /\ MeetsBounds(slip, r)
  /\ slip.approval_quorum # None =>
       /\ r.signers = slip.approval_quorum.signers
       /\ r.approvals >= slip.approval_quorum.threshold
  /\ slip.aud # None => r.point \in slip.aud
  /\ slip.max_revocation_age_ms # None => r.status_age =< slip.max_revocation_age_ms
=============================================================================
