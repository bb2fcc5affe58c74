-------------------------- MODULE RatificationProofs -------------------------
(***************************************************************************)
(* The theorems of DelegationChain and of Ratification, which extends it.  *)
(*                                                                         *)
(* Of chains: the attenuation rule is transitive, a narrower slip allows   *)
(* no more, and therefore no valid chain widens, however long and on every *)
(* axis.  Of ratified grants, for any entries and delegations: the walk of *)
(* a bundle is a walk of DelegationChain, so what is proved of a valid     *)
(* chain holds of the ratifier's, and the reach rule composes with it      *)
(* although it is not transitive itself.                                   *)
(***************************************************************************)
EXTENDS Ratification, TLAPS

-----------------------------------------------------------------------------
(* The rule.                                                               *)

\* Windows are intervals of integers.
LEMMA WindowTypes ==
  ASSUME NEW slip, WellFormed(slip), NEW action, NEW w \in GrantWindows(slip, action)
  PROVE  /\ w.nbf \in Int /\ w.exp \in Int
         /\ slip.nbf =< w.nbf /\ w.exp =< slip.exp
         /\ action \in slip.scope_actions
<1>1. CASE slip.capabilities = {}
  BY <1>1 DEF GrantWindows, WellFormed
<1>2. CASE slip.capabilities # {}
  <2>1. PICK cap \in slip.capabilities :
          action \in cap.actions /\ w = [nbf |-> cap.nbf, exp |-> cap.exp]
    BY <1>2 DEF GrantWindows
  <2>2. WellFormedCapability(cap, slip)
    BY <2>1 DEF WellFormed
  <2>3. QED BY <2>1, <2>2 DEF WellFormedCapability, WellFormed
<1>3. QED BY <1>1, <1>2

\* A bound restated twice is restated.
LEMMA RestatedTransitive ==
  ASSUME NEW a, NEW b, NEW c,
         a.amount_scaled \in Nat, b.amount_scaled \in Nat, c.amount_scaled \in Nat,
         BoundRestated(a, b), BoundRestated(b, c)
  PROVE  BoundRestated(a, c)
<1>1. SideKept(a.actions, c.actions)
  BY DEF BoundRestated, SideKept
<1>2. SideKept(a.boundaries, c.boundaries)
  BY DEF BoundRestated, SideKept
<1>3. a.amount_scaled =< c.amount_scaled
  BY DEF BoundRestated
<1>4. c.window # None => a.window = c.window
  BY DEF BoundRestated
<1>5. QED BY <1>1, <1>2, <1>3, <1>4 DEF BoundRestated

\* The amounts of a slip's bounds are naturals.
LEMMA Amounts ==
  ASSUME NEW slip, WellFormed(slip), NEW b \in slip.bounds
  PROVE  b.amount_scaled \in Nat
BY DEF WellFormed, WellFormedBound

\* Each axis compares neighbours; the comparison of neighbours composes.
THEOREM NarrowsTransitive ==
  ASSUME NEW a, NEW b, NEW c, WellFormed(a), WellFormed(b), WellFormed(c),
         Narrows(a, b), Narrows(b, c)
  PROVE  Narrows(a, c)
<1>1. ActionsNarrow(a, c) /\ DomainsNarrow(a, c)
  BY DEF Narrows, ActionsNarrow, DomainsNarrow
<1>2. PathsNarrow(a, c)
  <2>1. SUFFICES ASSUME NEW p \in a.scope_paths
                 PROVE  \E r \in c.scope_paths : <<p, r>> \in Within
    BY DEF PathsNarrow
  <2>2. PICK q \in b.scope_paths : <<p, q>> \in Within
    BY DEF Narrows, PathsNarrow
  <2>3. PICK r \in c.scope_paths : <<q, r>> \in Within
    BY DEF Narrows, PathsNarrow
  <2>4. <<p, r>> \in Within
    BY <2>2, <2>3, WithinAssumption
  <2>5. QED BY <2>4
<1>3. WindowsNarrow(a, c)
  <2>1. SUFFICES ASSUME NEW action \in a.scope_actions, NEW w \in GrantWindows(a, action)
                 PROVE  \E u \in GrantWindows(c, action) : u.nbf =< w.nbf /\ w.exp =< u.exp
    BY DEF WindowsNarrow
  <2>2. PICK v \in GrantWindows(b, action) : v.nbf =< w.nbf /\ w.exp =< v.exp
    BY DEF Narrows, WindowsNarrow
  <2>3. action \in b.scope_actions
    BY DEF Narrows, ActionsNarrow
  <2>4. PICK u \in GrantWindows(c, action) : u.nbf =< v.nbf /\ v.exp =< u.exp
    BY <2>3 DEF Narrows, WindowsNarrow
  <2>5. /\ w.nbf \in Int /\ w.exp \in Int /\ v.nbf \in Int /\ v.exp \in Int
        /\ u.nbf \in Int /\ u.exp \in Int
    BY WindowTypes
  <2>6. u.nbf =< w.nbf /\ w.exp =< u.exp
    BY <2>2, <2>4, <2>5
  <2>7. QED BY <2>6
<1>4. NamedSetKept(a, c) /\ LineageKept(a, c)
  BY DEF Narrows, NamedSetKept, LineageKept
<1>5. BoundsNarrow(a, c)
  <2>1. SUFFICES ASSUME NEW d \in PerGrant(c.bounds)
                 PROVE  \E e \in PerGrant(a.bounds) : BoundRestated(e, d)
    BY DEF BoundsNarrow
  <2>2. PICK f \in PerGrant(b.bounds) : BoundRestated(f, d)
    BY DEF Narrows, BoundsNarrow
  <2>3. PICK e \in PerGrant(a.bounds) : BoundRestated(e, f)
    BY DEF Narrows, BoundsNarrow
  <2>4. /\ d.amount_scaled \in Nat /\ e.amount_scaled \in Nat
        /\ f.amount_scaled \in Nat
    BY Amounts DEF PerGrant
  <2>5. BoundRestated(e, d)
    BY <2>2, <2>3, <2>4, RestatedTransitive
  <2>6. QED BY <2>5
<1>6. AggregatesKept(a, c)
  BY DEF Narrows, AggregatesKept
<1>7. QuorumNarrow(a, c)
  <2>1. SUFFICES ASSUME c.approval_quorum # None
                 PROVE  /\ a.approval_quorum # None
                        /\ a.approval_quorum.signers = c.approval_quorum.signers
                        /\ a.approval_quorum.threshold >= c.approval_quorum.threshold
    BY DEF QuorumNarrow
  <2>2. /\ b.approval_quorum # None
        /\ b.approval_quorum.signers = c.approval_quorum.signers
        /\ b.approval_quorum.threshold >= c.approval_quorum.threshold
    BY <2>1 DEF Narrows, QuorumNarrow
  <2>3. /\ a.approval_quorum # None
        /\ a.approval_quorum.signers = b.approval_quorum.signers
        /\ a.approval_quorum.threshold >= b.approval_quorum.threshold
    BY <2>2 DEF Narrows, QuorumNarrow
  <2>4. /\ a.approval_quorum.threshold \in Nat
        /\ b.approval_quorum.threshold \in Nat
        /\ c.approval_quorum.threshold \in Nat
    BY <2>1, <2>2, <2>3 DEF WellFormed
  <2>5. QED BY <2>2, <2>3, <2>4
<1>8. ToolsNarrow(a, c)
  BY DEF Narrows, ToolsNarrow
<1>9. AudienceNarrow(a, c)
  BY DEF Narrows, AudienceNarrow
<1>10. RevocationAgeNarrow(a, c)
  <2>1. SUFFICES ASSUME c.max_revocation_age_ms # None
                 PROVE  /\ a.max_revocation_age_ms # None
                        /\ a.max_revocation_age_ms =< c.max_revocation_age_ms
    BY DEF RevocationAgeNarrow
  <2>2. /\ b.max_revocation_age_ms # None
        /\ b.max_revocation_age_ms =< c.max_revocation_age_ms
    BY <2>1 DEF Narrows, RevocationAgeNarrow
  <2>3. /\ a.max_revocation_age_ms # None
        /\ a.max_revocation_age_ms =< b.max_revocation_age_ms
    BY <2>2 DEF Narrows, RevocationAgeNarrow
  <2>4. /\ a.max_revocation_age_ms \in Nat
        /\ b.max_revocation_age_ms \in Nat
        /\ c.max_revocation_age_ms \in Nat
    BY <2>1, <2>2, <2>3 DEF WellFormed
  <2>5. QED BY <2>2, <2>3, <2>4
<1>11. MaxDepthNarrow(a, c)
  <2>1. a.max_depth =< b.max_depth /\ b.max_depth =< c.max_depth
    BY DEF Narrows, MaxDepthNarrow
  <2>2. a.max_depth \in Nat /\ b.max_depth \in Nat /\ c.max_depth \in Nat
    BY DEF WellFormed
  <2>3. QED BY <2>1, <2>2 DEF MaxDepthNarrow
<1>12. QED
  BY <1>1, <1>2, <1>3, <1>4, <1>5, <1>6, <1>7, <1>8, <1>9, <1>10, <1>11 DEF Narrows

\* A right held in a window of the child is held by the parent.
LEMMA HeldAbove ==
  ASSUME NEW child, NEW parent, WellFormed(child), WellFormed(parent),
         Narrows(child, parent), NEW action, NEW at \in Int,
         NEW w \in GrantWindows(child, action), Covers(w, at)
  PROVE  \E v \in GrantWindows(parent, action) : Covers(v, at)
<1>1. action \in child.scope_actions /\ w.nbf \in Int /\ w.exp \in Int
  BY WindowTypes
<1>2. PICK v \in GrantWindows(parent, action) : v.nbf =< w.nbf /\ w.exp =< v.exp
  BY <1>1 DEF Narrows, WindowsNarrow
<1>3. v.nbf \in Int /\ v.exp \in Int
  BY WindowTypes
<1>4. Covers(v, at)
  BY <1>1, <1>2, <1>3 DEF Covers
<1>5. QED BY <1>4

\* A bound of the parent that applies is restated by one of the child that
\* applies too, or is the child's own.
LEMMA BoundAbove ==
  ASSUME NEW child, NEW parent, Narrows(child, parent),
         NEW d \in parent.bounds, NEW action, NEW boundary,
         BoundApplies(d, action, boundary)
  PROVE  \E b \in child.bounds :
           /\ BoundApplies(b, action, boundary)
           /\ b.kind = d.kind /\ b.unit = d.unit
           /\ b = d \/ b.amount_scaled =< d.amount_scaled
           /\ b.aggregation = d.aggregation
           /\ d.window # None => b.window = d.window
<1>1. CASE d.aggregation = None
  <2>1. PICK b \in PerGrant(child.bounds) : BoundRestated(b, d)
    BY <1>1 DEF Narrows, BoundsNarrow, PerGrant
  <2>2. BoundApplies(b, action, boundary)
    BY <2>1 DEF BoundRestated, SideKept, BoundApplies
  <2>3. QED BY <1>1, <2>1, <2>2 DEF BoundRestated, PerGrant
<1>2. CASE d.aggregation # None
  BY <1>2 DEF Narrows, AggregatesKept, Aggregate
<1>3. QED BY <1>1, <1>2

\* What the narrower slip allows, the wider one allows.
THEOREM NarrowsAllows ==
  ASSUME NEW child, NEW parent, WellFormed(child), WellFormed(parent),
         Narrows(child, parent), NEW r \in Requests, Allows(child, r)
  PROVE  Allows(parent, r)
<1>1. /\ r.at \in Int /\ r.amount \in Int
      /\ r.approvals \in Int /\ r.status_age \in Int
  BY ChainAssumption
<1>2. \E w \in GrantWindows(parent, r.action) : Covers(w, r.at)
  BY <1>1, HeldAbove DEF Allows
<1>3. \E q \in parent.scope_paths : <<r.path, q>> \in Within
  <2>1. PICK p \in child.scope_paths : <<r.path, p>> \in Within
    BY DEF Allows
  <2>2. PICK q \in parent.scope_paths : <<p, q>> \in Within
    BY DEF Narrows, PathsNarrow
  <2>3. <<r.path, q>> \in Within
    BY <2>1, <2>2, WithinAssumption
  <2>4. QED BY <2>3
<1>4. r.domain \in parent.scope_domains
  BY DEF Allows, Narrows, DomainsNarrow
<1>5. parent.scope_tools # {} => r.tool \in parent.scope_tools
  BY DEF Allows, Narrows, ToolsNarrow
<1>6. parent.named_set_ref # None => r.set = parent.named_set_ref
  BY DEF Allows, Narrows, NamedSetKept
<1>7. MeetsBounds(parent, r)
  <2>1. SUFFICES ASSUME NEW d \in parent.bounds, d.kind = r.kind,
                        BoundApplies(d, r.action, r.boundary)
                 PROVE  d.unit = r.unit /\ r.amount =< d.amount_scaled
    BY DEF MeetsBounds
  <2>2. PICK b \in child.bounds :
          /\ BoundApplies(b, r.action, r.boundary)
          /\ b.kind = d.kind /\ b.unit = d.unit
          /\ b = d \/ b.amount_scaled =< d.amount_scaled
    BY <2>1, BoundAbove
  <2>3. b.unit = r.unit /\ r.amount =< b.amount_scaled
    BY <2>1, <2>2 DEF Allows, MeetsBounds
  <2>4. b.amount_scaled \in Nat /\ d.amount_scaled \in Nat
    BY Amounts
  <2>5. QED BY <1>1, <2>2, <2>3, <2>4
<1>8. ASSUME parent.approval_quorum # None
      PROVE  /\ r.signers = parent.approval_quorum.signers
             /\ r.approvals >= parent.approval_quorum.threshold
  <2>1. /\ child.approval_quorum # None
        /\ child.approval_quorum.signers = parent.approval_quorum.signers
        /\ child.approval_quorum.threshold >= parent.approval_quorum.threshold
    BY <1>8 DEF Narrows, QuorumNarrow
  <2>2. /\ child.approval_quorum.threshold \in Nat
        /\ parent.approval_quorum.threshold \in Nat
    BY <1>8, <2>1 DEF WellFormed
  <2>3. /\ r.signers = child.approval_quorum.signers
        /\ r.approvals >= child.approval_quorum.threshold
    BY <2>1 DEF Allows
  <2>4. QED BY <1>1, <2>1, <2>2, <2>3
<1>9. parent.aud # None => r.point \in parent.aud
  BY DEF Allows, Narrows, AudienceNarrow
<1>10. ASSUME parent.max_revocation_age_ms # None
       PROVE  r.status_age =< parent.max_revocation_age_ms
  <2>1. /\ child.max_revocation_age_ms # None
        /\ child.max_revocation_age_ms =< parent.max_revocation_age_ms
    BY <1>10 DEF Narrows, RevocationAgeNarrow
  <2>2. /\ child.max_revocation_age_ms \in Nat
        /\ parent.max_revocation_age_ms \in Nat
    BY <1>10, <2>1 DEF WellFormed
  <2>3. r.status_age =< child.max_revocation_age_ms
    BY <2>1 DEF Allows
  <2>4. QED BY <1>1, <2>1, <2>2, <2>3
<1>11. QED
  BY <1>2, <1>3, <1>4, <1>5, <1>6, <1>7, <1>8, <1>9, <1>10 DEF Allows

\* A slip in its window that holds a right has a window for it, and the
\* parent of such a slip is in its window and holds the right as well.
LEMMA RightAbove ==
  ASSUME NEW child, NEW parent, WellFormed(child), WellFormed(parent),
         Narrows(child, parent), NEW action, NEW at \in Int,
         child.nbf =< at, at =< child.exp, HoldsRight(child, action, at)
  PROVE  parent.nbf =< at /\ at =< parent.exp /\ HoldsRight(parent, action, at)
<1>1. \E w \in GrantWindows(child, action) : Covers(w, at)
  <2>1. CASE child.capabilities = {}
    <3>1. [nbf |-> child.nbf, exp |-> child.exp] \in GrantWindows(child, action)
      BY <2>1 DEF HoldsRight, GrantWindows
    <3>2. QED BY <3>1 DEF Covers
  <2>2. CASE child.capabilities # {}
    BY <2>2 DEF HoldsRight
  <2>3. QED BY <2>1, <2>2
<1>2. PICK v \in GrantWindows(parent, action) : Covers(v, at)
  BY <1>1, HeldAbove
<1>3. /\ v.nbf \in Int /\ v.exp \in Int
      /\ parent.nbf =< v.nbf /\ v.exp =< parent.exp
      /\ action \in parent.scope_actions
  BY WindowTypes
<1>4. parent.nbf =< at /\ at =< parent.exp
  BY <1>2, <1>3 DEF Covers, WellFormed
<1>5. HoldsRight(parent, action, at)
  BY <1>2, <1>3 DEF HoldsRight
<1>6. QED BY <1>4, <1>5

-----------------------------------------------------------------------------
(* The walk.                                                               *)

LEMMA TypedInit == Init => TypeOK
BY DEF Init, TypeOK, Calls

LEMMA TypedNext == TypeOK /\ [Next]_vars => TypeOK'
<1> SUFFICES ASSUME TypeOK, [Next]_vars PROVE TypeOK'
  OBVIOUS
<1> USE DEF TypeOK
<1>1. CASE RefuseVersion \/ RefuseCount \/ AcceptRoot \/ Start
  BY <1>1 DEF RefuseVersion, RefuseCount, AcceptRoot, Start, Return
<1>2. CASE RefuseBeyondRoot \/ RefuseToken \/ RefuseAncestry \/ Finish
  BY <1>2 DEF RefuseBeyondRoot, RefuseToken, RefuseAncestry, Finish, Return
<1>3. CASE RefuseWidening \/ RefuseStatus \/ RefuseDelegate
  BY <1>3 DEF RefuseWidening, RefuseStatus, RefuseDelegate, RefuseParent, Linked,
              Wider, Delegators
<1>4. CASE Hop
  BY <1>4 DEF Hop, Linked, Wider, Delegators
<1>5. CASE Tick
  BY <1>5, ChainAssumption DEF Tick, Times
<1>6. CASE UNCHANGED vars
  BY <1>6 DEF vars
<1>7. QED BY <1>1, <1>2, <1>3, <1>4, <1>5, <1>6 DEF Next

\* The walk keeps to the types of its state.
THEOREM TypeCorrect == Spec => []TypeOK
BY TypedInit, TypedNext, PTL DEF Spec

\* What the walk has read: the parents, and the last of them.
LEMMA ParentsTyped ==
  ASSUME TypeOK
  PROVE  /\ Parents \subseteq Slips
         /\ call.leaf \in Slips
         /\ \A p \in Parents : WellFormed(p)
         /\ WellFormed(call.leaf) /\ WellFormed(current)
  BY ChainAssumption DEF TypeOK, Parents, Calls

LEMMA ParentsGrow ==
  ASSUME TypeOK, NEW parent \in Slips, verified' = Append(verified, parent)
  PROVE  Parents' = Parents \cup {parent} /\ verified' # <<>>
<1>1. /\ Len(verified') = Len(verified) + 1 /\ Len(verified) \in Nat
      /\ \A i \in 1 .. Len(verified) : verified'[i] = verified[i]
      /\ verified'[Len(verified) + 1] = parent
  BY DEF TypeOK
<1>2. verified' # <<>>
  BY <1>1
<1>3. ASSUME NEW p \in Parents' PROVE p \in Parents \cup {parent}
  <2>1. PICK i \in 1 .. Len(verified') : p = verified'[i]
    BY <1>3 DEF Parents
  <2>2. CASE i = Len(verified) + 1
    BY <1>1, <2>1, <2>2
  <2>3. CASE i # Len(verified) + 1
    <3>1. i \in 1 .. Len(verified)
      BY <1>1, <2>1, <2>3
    <3>2. QED BY <1>1, <2>1, <3>1 DEF Parents
  <2>4. QED BY <2>2, <2>3
<1>4. parent \in Parents'
  <2>1. Len(verified) + 1 \in 1 .. Len(verified')
    BY <1>1
  <2>2. QED BY <1>1, <2>1 DEF Parents
<1>5. ASSUME NEW p \in Parents PROVE p \in Parents'
  <2>1. PICK i \in 1 .. Len(verified) : p = verified[i]
    BY <1>5 DEF Parents
  <2>2. i \in 1 .. Len(verified')
    BY <1>1, <2>1
  <2>3. QED BY <1>1, <2>1, <2>2 DEF Parents
<1>6. QED BY <1>2, <1>3, <1>4, <1>5

LEMMA InvInit == Init => ChainInv
<1> SUFFICES ASSUME Init PROVE ChainInv
  OBVIOUS
<1>1. Parents = {}
  BY DEF Init, Parents
<1>2. called =< now
  BY ChainAssumption DEF Init, Times
<1>3. QED BY <1>1, <1>2 DEF Init, ChainInv

\* A step that leaves the parents alone.
LEMMA InvKept ==
  ASSUME ChainInv, UNCHANGED <<call, called, current, verified>>,
         now \in Int, now' \in Int, called \in Int, now =< now',
         verdict' \in {"called", "walking", "valid"} =>
           verdict \in {"called", "walking", "valid"}
  PROVE  ChainInv'
<1>1. Parents' = Parents /\ RuleVersion' = RuleVersion
  BY DEF Parents, RuleVersion
<1>2. \A t \in Times : HeldTogether(t)' <=> HeldTogether(t)
  BY <1>1 DEF HeldTogether
<1>3. \A t \in Times : InMoment(t) => InMoment(t)'
  BY ChainAssumption DEF InMoment, Times
<1>4. called' =< now'
  BY DEF ChainInv
<1>5. QED BY <1>1, <1>2, <1>3, <1>4 DEF ChainInv

\* One more parent.
LEMMA InvHop == ASSUME TypeOK, ChainInv, Hop PROVE ChainInv'
<1>1. PICK p \in Delegators : verified' = Append(verified, p) /\ current' = p
  BY DEF Hop
<1>2. /\ p \in Slips /\ AncestryHolds(p) /\ Narrows(current, p) /\ HoldsDelegate(p)
      /\ WellFormed(p)
  BY ChainAssumption DEF Delegators, Wider, Linked
<1>3. /\ UNCHANGED <<call, called, now, verdict>>
      /\ RuleVersion' = RuleVersion
      /\ verdict = "walking"
  BY DEF Hop, ReadsOn, RuleVersion
<1>4. Parents' = Parents \cup {p} /\ verified' # <<>>
  BY <1>1, <1>2, ParentsGrow
<1>5. Narrows(call.leaf, p)
  <2>1. CASE current = call.leaf
    BY <1>2, <2>1
  <2>2. CASE current \in Parents
    <3>1. Narrows(call.leaf, current)
      BY <1>3, <2>2 DEF ChainInv
    <3>2. QED BY <1>2, <3>1, ParentsTyped, NarrowsTransitive
  <2>3. QED BY <1>3, <2>1, <2>2 DEF ChainInv
<1>6. ASSUME RuleVersion = "2"
      PROVE  \E t \in Times : InMoment(t)' /\ HeldTogether(t)'
  <2>1. CASE verified = <<>>
    <3>1. CheckTime \in Times /\ InMoment(CheckTime)
      BY ChainAssumption DEF TypeOK, Calls, CheckTime, InMoment, ChainInv, Times
    <3>2. /\ p.nbf =< CheckTime /\ CheckTime =< p.exp
          /\ HoldsRight(p, "delegate", CheckTime)
      BY <1>2, <1>6 DEF AncestryHolds, HoldsDelegate
    <3>3. Parents' = {p}
      BY <1>4, <2>1 DEF Parents
    <3>4. PICK t \in Times : t = CheckTime
      BY <3>1
    <3>5. HeldTogether(t)'
      BY <3>2, <3>3, <3>4 DEF HeldTogether
    <3>6. InMoment(t)'
      BY <1>3, <3>1, <3>4 DEF InMoment
    <3>7. QED BY <3>5, <3>6
  <2>2. CASE verified # <<>>
    <3>1. PICK t \in Times : InMoment(t) /\ HeldTogether(t)
      BY <1>3, <1>6, <2>2 DEF ChainInv
    <3>2. current \in Parents /\ t \in Int
      BY <1>3, <2>2, ChainAssumption DEF ChainInv, Times
    <3>3. p.nbf =< t /\ t =< p.exp /\ HoldsRight(p, "delegate", t)
      BY <1>2, <3>1, <3>2, ParentsTyped, RightAbove DEF HeldTogether
    <3>4. HeldTogether(t)'
      BY <1>4, <3>1, <3>3 DEF HeldTogether
    <3>5. InMoment(t)'
      BY <1>3, <3>1 DEF InMoment
    <3>6. QED BY <3>4, <3>5
  <2>3. QED BY <2>1, <2>2
<1>7. called' =< now'
  BY <1>3 DEF ChainInv
<1>8. \A q \in Parents' : Narrows(call'.leaf, q)
  BY <1>3, <1>4, <1>5 DEF ChainInv
<1>9. current' \in Parents'
  BY <1>1, <1>4
<1>10. QED BY <1>3, <1>4, <1>6, <1>7, <1>8, <1>9 DEF ChainInv

LEMMA InvNext == TypeOK /\ ChainInv /\ [Next]_vars => ChainInv'
<1> SUFFICES ASSUME TypeOK, ChainInv, [Next]_vars PROVE ChainInv'
  OBVIOUS
<1>1. TypeOK'
  BY TypedNext
<1>2. now \in Int /\ now' \in Int /\ called \in Int
  BY <1>1, ChainAssumption DEF TypeOK, Times
<1>3. CASE RefuseVersion \/ RefuseCount \/ AcceptRoot \/ Start
  BY <1>2, <1>3, InvKept DEF RefuseVersion, RefuseCount, AcceptRoot, Start, Return
<1>4. CASE RefuseBeyondRoot \/ RefuseToken \/ RefuseAncestry \/ Finish
  BY <1>2, <1>4, InvKept
     DEF RefuseBeyondRoot, RefuseToken, RefuseAncestry, Finish, Return, ReadsOn
<1>5. CASE RefuseWidening \/ RefuseStatus \/ RefuseDelegate
  BY <1>5 DEF RefuseWidening, RefuseStatus, RefuseDelegate, RefuseParent, ChainInv
<1>6. CASE Hop
  BY <1>6, InvHop
<1>7. CASE Tick
  BY <1>2, <1>7, InvKept DEF Tick
<1>8. CASE UNCHANGED vars
  BY <1>2, <1>8, InvKept DEF vars
<1>9. QED BY <1>3, <1>4, <1>5, <1>6, <1>7, <1>8 DEF Next

LEMMA InvHolds == Spec => [](TypeOK /\ ChainInv)
BY TypedInit, TypedNext, InvInit, InvNext, PTL DEF Spec

-----------------------------------------------------------------------------
(* What a valid chain means.                                               *)

\* Authority does not grow over a valid chain.
THEOREM ChainNarrowsHolds == Spec => []ChainNarrows
<1>1. TypeOK /\ ChainInv => ChainNarrows
  BY ParentsTyped, NarrowsAllows DEF ChainInv, ChainNarrows
<1>2. QED BY <1>1, InvHolds, PTL

\* Every parent of a valid chain held the right to delegate at one moment.
THEOREM DelegatedAtOneMomentHolds == Spec => []DelegatedAtOneMoment
<1>1. TypeOK /\ ChainInv => DelegatedAtOneMoment
  <2>1. SUFFICES ASSUME TypeOK, ChainInv, verdict = "valid", RuleVersion = "2"
                 PROVE  \E t \in Times : InMoment(t) /\ HeldTogether(t)
    BY DEF DelegatedAtOneMoment
  <2>2. CASE verified = <<>>
    <3>1. Parents = {}
      BY <2>2 DEF Parents
    <3>2. CheckTime \in Times /\ InMoment(CheckTime)
      BY ChainAssumption, <2>1 DEF TypeOK, Calls, CheckTime, InMoment, ChainInv, Times
    <3>3. PICK t \in Times : t = CheckTime
      BY <3>2
    <3>4. QED BY <3>1, <3>2, <3>3 DEF HeldTogether
  <2>3. CASE verified # <<>>
    BY <2>1, <2>3 DEF ChainInv
  <2>4. QED BY <2>2, <2>3
<1>2. QED BY <1>1, InvHolds, PTL

\* No grant of a valid chain is delegated deeper than it permits.
THEOREM DepthWithinEveryGrantHolds == Spec => []DepthWithinEveryGrant
<1>1. TypeOK /\ ChainInv => DepthWithinEveryGrant
  <2>1. SUFFICES ASSUME TypeOK, ChainInv, verdict = "valid", ~DepthExceeded,
                        NEW p \in Parents
                 PROVE  call.leaf.chain_depth =< p.max_depth
    BY DEF DepthWithinEveryGrant
  <2>2. call.leaf.max_depth =< p.max_depth
    BY <2>1 DEF ChainInv, Narrows, MaxDepthNarrow
  <2>3. /\ call.leaf.chain_depth \in Nat /\ call.leaf.max_depth \in Nat
        /\ p.max_depth \in Nat
    BY <2>1, ParentsTyped DEF WellFormed
  <2>4. QED BY <2>1, <2>2, <2>3 DEF DepthExceeded
<1>2. QED BY <1>1, InvHolds, PTL

\* A charged bound of an ancestor is restated below with the same period.
LEMMA ChargedBelow ==
  ASSUME NEW child, NEW parent, WellFormed(child), WellFormed(parent),
         child = parent \/ Narrows(child, parent), NEW action, NEW boundary,
         NEW d \in Charged(parent, action, boundary)
  PROVE  \E b \in Charged(child, action, boundary) :
           /\ b.kind = d.kind /\ b.unit = d.unit
           /\ b.aggregation = d.aggregation /\ b.window = d.window
           /\ b.amount_scaled =< d.amount_scaled
<1>1. d \in parent.bounds /\ BoundApplies(d, action, boundary) /\ d.window # None
  BY DEF Charged
<1>2. d.amount_scaled \in Nat
  BY <1>1, Amounts
<1>3. CASE child = parent
  BY <1>2, <1>3
<1>4. CASE Narrows(child, parent)
  <2>1. PICK b \in child.bounds :
          /\ BoundApplies(b, action, boundary)
          /\ b.kind = d.kind /\ b.unit = d.unit
          /\ b = d \/ b.amount_scaled =< d.amount_scaled
          /\ b.aggregation = d.aggregation
          /\ d.window # None => b.window = d.window
    BY <1>1, <1>4, BoundAbove
  <2>2. b \in Charged(child, action, boundary)
    BY <1>1, <2>1 DEF Charged
  <2>3. b.amount_scaled =< d.amount_scaled
    BY <1>2, <2>1
  <2>4. QED BY <1>1, <2>1, <2>2, <2>3
<1>5. QED BY <1>3, <1>4

\* Slips with the aggregate bounds of one slip do not contradict each other.
LEMMA OneCeiling ==
  ASSUME NEW slip, NEW p, NEW q, WellFormed(slip), WellFormed(p), WellFormed(q),
         p = slip \/ Narrows(slip, p), q = slip \/ Narrows(slip, q),
         NEW action, NEW boundary
  PROVE  ~Contradictory(p, q, action, boundary)
<1>1. /\ Aggregate(p.bounds) = Aggregate(slip.bounds)
      /\ Aggregate(q.bounds) = Aggregate(slip.bounds)
  BY DEF Narrows, AggregatesKept
<1>2. SUFFICES ASSUME NEW b \in Charged(p, action, boundary),
                      NEW d \in Charged(q, action, boundary),
                      b.aggregation # None, d.aggregation # None, b.kind = d.kind
               PROVE  b.amount_scaled = d.amount_scaled
  BY DEF Contradictory
<1>3. b \in slip.bounds /\ d \in slip.bounds
  BY <1>1, <1>2 DEF Charged, Aggregate
<1>4. b.aggregation = "entry" /\ d.aggregation = "entry"
  BY <1>2, <1>3 DEF WellFormed, WellFormedBound
<1>5. b = d
  BY <1>2, <1>3, <1>4 DEF WellFormed
<1>6. QED BY <1>5

\* The accounts of a valid chain agree, and its leaf states them all.
THEOREM AccountsInheritedHolds == Spec => []AccountsInherited
<1>1. TypeOK /\ ChainInv => AccountsInherited
  <2>1. SUFFICES ASSUME TypeOK, ChainInv, verdict = "valid",
                        NEW p \in Parents \cup {call.leaf}, NEW r \in Requests
                 PROVE  /\ \A q \in Parents \cup {call.leaf} :
                             ~Contradictory(p, q, r.action, r.boundary)
                        /\ \A d \in Charged(p, r.action, r.boundary) :
                             \E b \in Charged(call.leaf, r.action, r.boundary) :
                               /\ b.kind = d.kind /\ b.unit = d.unit
                               /\ b.aggregation = d.aggregation /\ b.window = d.window
                               /\ b.amount_scaled =< d.amount_scaled
    BY DEF AccountsInherited
  <2>2. \A q \in Parents \cup {call.leaf} :
          WellFormed(q) /\ (q = call.leaf \/ Narrows(call.leaf, q))
    BY <2>1, ParentsTyped DEF ChainInv
  <2>3. WellFormed(call.leaf)
    BY <2>1, ParentsTyped
  <2>4. \A q \in Parents \cup {call.leaf} :
          ~Contradictory(p, q, r.action, r.boundary)
    BY <2>2, <2>3, OneCeiling
  <2>5. QED BY <2>2, <2>3, <2>4, ChargedBelow
<1>2. QED BY <1>1, InvHolds, PTL

-----------------------------------------------------------------------------
(* A candidate and what it is compared as.                                 *)

\* The bounds a candidate has from its entry.
LEMMA CandidateBounds ==
  ASSUME NEW e, EntryParses(e), NEW attempt,
         NEW b \in Candidate(e, attempt).bounds
  PROVE  /\ b.amount_scaled \in Nat
         /\ b.actions # None => b.actions \subseteq {e.action}
         /\ \/ b = e.bound /\ b.aggregation = None
            \/ /\ b = e.aggregate_bound /\ b.aggregation = "entry"
               /\ b.window # None
<1>1. b = e.bound \/ (b = e.aggregate_bound /\ b # None)
  BY DEF Candidate
<1>2. QED BY <1>1 DEF EntryParses, OnAction

\* What an entry asks for is a delegation like any other.
LEMMA CandidateFormed ==
  ASSUME NEW e, EntryParses(e), NEW attempt,
         [entry |-> e, ratification |-> None] # None
  PROVE  WellFormed(Candidate(e, attempt))
<1> DEFINE c == Candidate(e, attempt)
<1>1. c.nbf \in Int /\ c.exp \in Int
  BY DEF Candidate, EntryParses, Later
<1>2. c.chain_depth \in Nat /\ c.max_depth \in Nat /\ c.aud # {}
  BY DEF Candidate, EntryParses
<1>3. c.capabilities = {} /\ c.approval_quorum = None /\ c.max_revocation_age_ms = None
  BY DEF Candidate
<1>4. ASSUME NEW b \in c.bounds PROVE WellFormedBound(b, c)
  <2>1. e.action \in c.scope_actions /\ c.lineage # None
    BY DEF Candidate
  <2>2. QED
    BY <1>4, <2>1, CandidateBounds, RatificationAssumption DEF WellFormedBound
<1>5. ASSUME NEW b \in c.bounds, NEW d \in c.bounds, b.aggregation = d.aggregation
      PROVE  b = d
  BY <1>5, CandidateBounds, RatificationAssumption
<1> HIDE DEF c
<1>6. WellFormed(c)
  BY <1>1, <1>2, <1>3, <1>4, <1>5 DEF WellFormed
<1>7. QED BY <1>6 DEF c

\* A candidate without its shared ceilings, and one with a ceiling in place of
\* its own bound, are delegations as well.
LEMMA ComparedFormed ==
  ASSUME NEW e, EntryParses(e), NEW attempt,
         [entry |-> e, ratification |-> None] # None
  PROVE  LET c == Candidate(e, attempt) IN
         /\ WellFormed([c EXCEPT !.bounds = PerGrant(@)])
         /\ \A b \in Aggregate(c.bounds) : WellFormed(Converted(c, b))
<1> DEFINE c == Candidate(e, attempt)
           own == [c EXCEPT !.bounds = PerGrant(@)]
<1>1. WellFormed(c)
  BY CandidateFormed
<1>2. WellFormed(own)
  <2>1. /\ own.nbf = c.nbf /\ own.exp = c.exp /\ own.chain_depth = c.chain_depth
        /\ own.max_depth = c.max_depth /\ own.capabilities = c.capabilities
        /\ own.bounds = PerGrant(c.bounds) /\ own.approval_quorum = c.approval_quorum
        /\ own.scope_actions = c.scope_actions /\ own.lineage = c.lineage
        /\ own.aud = c.aud /\ own.max_revocation_age_ms = c.max_revocation_age_ms
    BY DEF Candidate
  <2> HIDE DEF own, c
  <2>2. QED
    BY <1>1, <2>1 DEF WellFormed, WellFormedBound, WellFormedCapability, PerGrant
<1>3. ASSUME NEW b \in Aggregate(c.bounds) PROVE WellFormed(Converted(c, b))
  <2> DEFINE one == Converted(c, b)
  <2>1. /\ one.nbf = c.nbf /\ one.exp = c.exp /\ one.chain_depth = c.chain_depth
        /\ one.max_depth = c.max_depth /\ one.capabilities = c.capabilities
        /\ one.bounds = {d \in PerGrant(c.bounds) : d.kind # b.kind} \cup {Alone(b)}
        /\ one.approval_quorum = c.approval_quorum
        /\ one.scope_actions = c.scope_actions /\ one.lineage = c.lineage
        /\ one.aud = c.aud /\ one.max_revocation_age_ms = c.max_revocation_age_ms
    BY DEF Candidate, Converted
  <2>2. /\ Alone(b).amount_scaled \in Nat /\ Alone(b).aggregation = None
        /\ Alone(b).kind = b.kind
        /\ Alone(b).actions # None => Alone(b).actions \subseteq one.scope_actions
    BY <1>1, <1>3, <2>1 DEF Aggregate, Alone, WellFormed, WellFormedBound
  <2>3. WellFormedBound(Alone(b), one)
    BY <2>2, RatificationAssumption DEF WellFormedBound
  <2> HIDE DEF one, c
  <2>4. \A d \in one.bounds : WellFormedBound(d, one)
    BY <1>1, <2>1, <2>3 DEF WellFormed, WellFormedBound, PerGrant
  <2>5. \A d, f \in one.bounds : d.kind = f.kind /\ d.aggregation = f.aggregation => d = f
    BY <1>1, <2>1, <2>2 DEF WellFormed, PerGrant
  <2>6. WellFormed(one)
    BY <1>1, <2>1, <2>4, <2>5 DEF WellFormed, WellFormedCapability
  <2>7. QED BY <2>6 DEF one
<1>4. QED BY <1>2, <1>3

\* A ratifier that is within reach is no grant of an entry: a candidate could
\* not keep its lineage.
LEMMA ReachStartsLineage ==
  ASSUME NEW leaf \in Slips, NEW e, NEW attempt, NEW rule,
         WithinReach(Candidate(e, attempt), leaf, rule)
  PROVE  leaf.lineage = None
<1> DEFINE c == Candidate(e, attempt)
<1>1. leaf.lineage = None \/ Narrows(c, leaf)
  BY DEF WithinReach
<1>2. c.lineage.ratification = None
  BY DEF Candidate
<1>3. QED
  BY <1>1, <1>2, RatificationAssumption DEF Narrows, LineageKept

\* Neither is a slip above it.
LEMMA NoLineageAbove ==
  ASSUME NEW leaf, NEW p, p = leaf \/ Narrows(leaf, p), leaf.lineage = None
  PROVE  p.lineage = None
BY DEF Narrows, LineageKept

\* A slip of no lineage has bounds of its own only.
LEMMA OwnBounds ==
  ASSUME NEW p, WellFormed(p), p.lineage = None
  PROVE  \A d \in p.bounds : d.aggregation = None
BY DEF WellFormed, WellFormedBound

\* Within reach of a delegation is within reach of those above it: what is
\* compared with the ratifier narrows every slip that the ratifier narrows.
LEMMA ReachAbove ==
  ASSUME NEW leaf \in Slips, NEW p, WellFormed(p), p = leaf \/ Narrows(leaf, p),
         NEW e, EntryParses(e), NEW attempt,
         [entry |-> e, ratification |-> None] # None,
         NEW rule, WithinReach(Candidate(e, attempt), leaf, rule)
  PROVE  LET c == Candidate(e, attempt) IN
         \/ Aggregate(c.bounds) = {} /\ Narrows(c, p)
         \/ /\ Narrows([c EXCEPT !.bounds = PerGrant(@)], p)
            /\ \A b \in Aggregate(c.bounds) : Narrows(Converted(c, b), p)
<1> DEFINE c == Candidate(e, attempt)
           own == [c EXCEPT !.bounds = PerGrant(@)]
<1>1. WellFormed(c) /\ WellFormed(leaf)
  BY CandidateFormed, ChainAssumption
<1>2. WellFormed(own) /\ \A b \in Aggregate(c.bounds) : WellFormed(Converted(c, b))
  BY ComparedFormed
<1>3. leaf.lineage = None
  BY ReachStartsLineage
<1>4. Aggregate(leaf.bounds) = {}
  BY <1>1, <1>3, OwnBounds DEF Aggregate
<1> HIDE DEF c, own
<1>5. ASSUME NEW x, WellFormed(x), Narrows(x, leaf) PROVE Narrows(x, p)
  BY <1>1, <1>5, NarrowsTransitive
<1>6. CASE Narrows(c, leaf)
  <2>1. Aggregate(c.bounds) = {}
    BY <1>4, <1>6 DEF Narrows, AggregatesKept
  <2>2. QED BY <1>1, <1>5, <1>6, <2>1 DEF c
<1>7. CASE ~Narrows(c, leaf)
  <2>1. Narrows(own, leaf) /\ \A b \in Aggregate(c.bounds) : Narrows(Converted(c, b), leaf)
    BY <1>7 DEF WithinReach, c, own
  <2>2. QED BY <1>2, <1>5, <2>1 DEF c, own
<1>8. QED BY <1>6, <1>7

\* What the grant allows, each slip of the ratifier's chain allows.
LEMMA ReachAllows ==
  ASSUME NEW leaf \in Slips, NEW p, WellFormed(p), p = leaf \/ Narrows(leaf, p),
         NEW e, EntryParses(e), NEW attempt,
         [entry |-> e, ratification |-> None] # None,
         NEW rule, WithinReach(Candidate(e, attempt), leaf, rule),
         NEW r \in Requests, Allows(Candidate(e, attempt), r)
  PROVE  Allows(p, r)
<1> DEFINE c == Candidate(e, attempt)
           own == [c EXCEPT !.bounds = PerGrant(@)]
<1>1. WellFormed(c) /\ WellFormed(own)
  BY CandidateFormed, ComparedFormed
<1>2. CASE Narrows(c, p)
  BY <1>1, <1>2, NarrowsAllows
<1>3. CASE Narrows(own, p)
  <2>1. /\ own.scope_actions = c.scope_actions /\ own.nbf = c.nbf /\ own.exp = c.exp
        /\ own.capabilities = c.capabilities /\ own.scope_paths = c.scope_paths
        /\ own.scope_domains = c.scope_domains /\ own.scope_tools = c.scope_tools
        /\ own.named_set_ref = c.named_set_ref /\ own.bounds = PerGrant(c.bounds)
        /\ own.approval_quorum = c.approval_quorum /\ own.aud = c.aud
        /\ own.max_revocation_age_ms = c.max_revocation_age_ms
    BY DEF Candidate
  <2> HIDE DEF c, own
  <2>2. GrantWindows(own, r.action) = GrantWindows(c, r.action)
    BY <2>1 DEF GrantWindows
  <2>3. MeetsBounds(c, r) => MeetsBounds(own, r)
    BY <2>1 DEF MeetsBounds, PerGrant
  <2>4. Allows(c, r) => Allows(own, r)
    BY <2>1, <2>2, <2>3 DEF Allows
  <2>5. Allows(own, r)
    BY <2>4 DEF c
  <2>6. QED
    BY <1>1, <1>3, <2>5, NarrowsAllows
<1>4. QED BY <1>2, <1>3, ReachAbove

\* A shared ceiling of the grant is no higher than a bound of its kind that a
\* slip of the ratifier's chain charges, and applies wherever that one does.
LEMMA CeilingWithin ==
  ASSUME NEW leaf \in Slips, NEW p, WellFormed(p), p = leaf \/ Narrows(leaf, p),
         NEW e, EntryParses(e), NEW attempt,
         [entry |-> e, ratification |-> None] # None,
         NEW rule, WithinReach(Candidate(e, attempt), leaf, rule),
         NEW action, NEW boundary, NEW d \in Charged(p, action, boundary),
         NEW b \in Aggregate(Candidate(e, attempt).bounds), b.kind = d.kind
  PROVE  /\ BoundApplies(b, action, boundary)
         /\ b.unit = d.unit /\ b.window = d.window
         /\ b.amount_scaled =< d.amount_scaled
<1> DEFINE c == Candidate(e, attempt)
<1>1. Narrows(Converted(c, b), p)
  BY ReachAbove
<1>2. d \in PerGrant(p.bounds)
  <2>1. p.lineage = None
    BY ReachStartsLineage, NoLineageAbove
  <2>2. QED BY <2>1, OwnBounds DEF Charged, PerGrant
<1>3. PICK x \in PerGrant(Converted(c, b).bounds) : BoundRestated(x, d)
  BY <1>1, <1>2 DEF Narrows, BoundsNarrow
<1>4. x = Alone(b)
  <2>1. Converted(c, b).bounds = {f \in PerGrant(c.bounds) : f.kind # b.kind} \cup {Alone(b)}
    BY DEF Converted, Candidate
  <2>2. x.kind = b.kind
    BY <1>3 DEF BoundRestated
  <2> HIDE DEF c
  <2>3. QED BY <1>3, <2>1, <2>2 DEF PerGrant
<1> HIDE DEF c
<1>5. /\ b.unit = x.unit /\ b.window = x.window /\ b.amount_scaled = x.amount_scaled
      /\ b.actions = x.actions /\ b.boundaries = x.boundaries
  BY <1>4 DEF Alone
<1>6. BoundApplies(d, action, boundary) /\ d.window # None
  BY DEF Charged
<1>7. QED
  BY <1>3, <1>5, <1>6 DEF BoundRestated, SideKept, BoundApplies

-----------------------------------------------------------------------------
(* The bundle.                                                             *)

\* The walk of a bundle is a walk of DelegationChain: what is proved of chains
\* holds of every ratifier's chain that `_check_ratifier_chain` replays.
THEOREM BundlesWalk == RatSpec => Spec
<1>1. RatInit => Init
  BY DEF RatInit
<1>2. [RatNext]_ratVars => [Next]_vars
  BY DEF RatNext, Walk, MoveStore, Accept, Refuse, ratVars
<1>3. QED BY <1>1, <1>2, PTL DEF RatSpec, Spec

\* A bundle is walked as it asks to be, and is ratified only while its chain
\* holds.
RatInv ==
  /\ bundle # None => bundle \in Bundles /\ call = CallOf(bundle)
  /\ Ratified => ChainHolds(bundle)

LEMMA RatStarts == RatInit => RatInv
BY RatificationAssumption DEF RatInit, RatInv, Ratified

LEMMA RatStays == RatInv /\ [RatNext]_ratVars => RatInv'
<1> SUFFICES ASSUME RatInv, [RatNext]_ratVars PROVE RatInv'
  OBVIOUS
<1>1. call' = call /\ bundle' = bundle
  BY DEF RatNext, Walk, MoveStore, Accept, Refuse, ratVars, vars, Next, RefuseVersion,
         RefuseCount, AcceptRoot, Start, RefuseBeyondRoot, RefuseToken, RefuseAncestry,
         RefuseWidening, RefuseStatus, RefuseDelegate, RefuseParent, Hop, Finish, Tick,
         Return
<1>2. SUFFICES ASSUME Ratified' PROVE ChainHolds(bundle)'
  BY <1>1 DEF RatInv, CallOf
<1>3. CASE Walk \/ MoveStore
  BY <1>2, <1>3, RatificationAssumption DEF Walk, MoveStore, Ratified
<1>4. ASSUME vars' = vars, ChainHolds(bundle) PROVE ChainHolds(bundle)'
  <2>1. verdict' = verdict /\ DepthExceeded' = DepthExceeded
    BY <1>4 DEF vars, DepthExceeded
  <2>2. QED BY <1>1, <1>4, <2>1 DEF ChainHolds
<1>5. CASE Accept \/ Refuse
  <2>1. vars' = vars /\ \E holds \in BOOLEAN : passed' = Recorded(bundle, holds)
    BY <1>5 DEF Accept, Refuse
  <2>2. PICK holds \in BOOLEAN : passed' = Recorded(bundle, holds)
    BY <2>1
  <2>3. "ratifier_chain" \in Recorded(bundle, holds)
    BY <1>2, <2>2 DEF Ratified, CheckNames
  <2>4. ChainHolds(bundle)
    BY <2>3 DEF Recorded, Named
  <2>5. QED BY <1>4, <2>1, <2>4
<1>6. CASE UNCHANGED ratVars
  BY <1>2, <1>4, <1>6 DEF ratVars, Ratified, RatInv
<1>7. QED BY <1>3, <1>5, <1>6 DEF RatNext

LEMMA RatHolds == RatSpec => [](TypeOK /\ ChainInv /\ RatInv)
BY BundlesWalk, InvHolds, RatStarts, RatStays, PTL DEF RatSpec

\* What a ratified bundle establishes.
LEMMA RatifiedMeans ==
  ASSUME TypeOK, ChainInv, RatInv, Ratified
  PROVE  /\ call.leaf \in Slips
         /\ \A p \in Parents \cup {call.leaf} :
              WellFormed(p) /\ (p = call.leaf \/ Narrows(call.leaf, p))
         /\ EntryParses(bundle.entry)
         /\ [entry |-> bundle.entry, ratification |-> None] # None
         /\ WithinReach(Asks(bundle), call.leaf, bundle.ratification.rule)
<1>1. bundle \in Bundles /\ call.leaf = bundle.leaf /\ ChainHolds(bundle)
  BY DEF RatInv, Ratified, CallOf
<1>2. verdict = "valid" /\ Walked(bundle) /\ LeafBound(bundle)
  BY <1>1 DEF ChainHolds
<1>3. \A p \in Parents \cup {call.leaf} :
        WellFormed(p) /\ (p = call.leaf \/ Narrows(call.leaf, p))
  BY <1>2, ParentsTyped DEF ChainInv
<1>4. EntryParses(bundle.entry)
  BY <1>2 DEF Walked, Rebuilt, EntryBound
<1>5. WithinReach(Asks(bundle), call.leaf, bundle.ratification.rule)
  BY <1>1, <1>2 DEF LeafBound
<1>6. QED
  BY <1>1, <1>3, <1>4, <1>5, ParentsTyped, RatificationAssumption

\* What a ratified grant allows, the ratifier and all above it allow, and its
\* shared ceilings are no higher than their bounds (GrantWithinRatifier).
THEOREM GrantWithinRatifierHolds == RatSpec => []GrantWithinRatifier
<1>1. TypeOK /\ ChainInv /\ RatInv => GrantWithinRatifier
  <2>1. SUFFICES ASSUME TypeOK, ChainInv, RatInv, Ratified,
                        NEW p \in Parents \cup {call.leaf}, NEW r \in Requests
                 PROVE  /\ Allows(Asks(bundle), r) => Allows(p, r)
                        /\ \A d \in Charged(p, r.action, r.boundary),
                              b \in Aggregate(Asks(bundle).bounds) :
                             b.kind = d.kind =>
                               /\ BoundApplies(b, r.action, r.boundary)
                               /\ b.unit = d.unit /\ b.window = d.window
                               /\ b.amount_scaled =< d.amount_scaled
    BY DEF GrantWithinRatifier
  <2>2. Allows(Asks(bundle), r) => Allows(p, r)
    BY <2>1, RatifiedMeans, ReachAllows DEF Asks
  <2>3. ASSUME NEW d \in Charged(p, r.action, r.boundary),
               NEW b \in Aggregate(Asks(bundle).bounds), b.kind = d.kind
        PROVE  /\ BoundApplies(b, r.action, r.boundary)
               /\ b.unit = d.unit /\ b.window = d.window
               /\ b.amount_scaled =< d.amount_scaled
    BY <2>1, <2>3, RatifiedMeans, CeilingWithin DEF Asks
  <2>4. QED BY <2>2, <2>3
<1>2. QED BY <1>1, RatHolds, PTL

\* No delegation of a ratifier's chain goes back to an entry
\* (RatifierNotRatified).
THEOREM RatifierNotRatifiedHolds == RatSpec => []RatifierNotRatified
<1>1. TypeOK /\ ChainInv /\ RatInv => RatifierNotRatified
  <2>1. SUFFICES ASSUME TypeOK, ChainInv, RatInv, Ratified,
                        NEW p \in Parents \cup {call.leaf}
                 PROVE  p.lineage = None
    BY DEF RatifierNotRatified
  <2>2. call.leaf.lineage = None
    BY <2>1, RatifiedMeans, ReachStartsLineage DEF Asks
  <2>3. QED BY <2>1, <2>2, RatifiedMeans, NoLineageAbove
<1>2. QED BY <1>1, RatHolds, PTL

-----------------------------------------------------------------------------
(* The statuses of the ratifier's chain.                                   *)

Told == INSTANCE RevocationStoreProofs WITH now <- moment, Nonces <- {FALSE}

LEMMA StoreStarts == Revocation!StoreInit => Told!StoreOK
<1>1. Told!StoreInit => Told!StoreOK
  BY ChainAssumption, RatificationAssumption, Told!StoreStarts
<1>2. QED
  BY <1>1 DEF Revocation!StoreInit, Told!StoreInit

LEMMA StoreMoves == Told!StoreOK /\ Revocation!StoreNext => Told!StoreOK'
<1>1. Revocation!StoreNext => Told!StoreNext
  BY DEF Revocation!StoreNext, Told!StoreNext, Revocation!Tick, Told!Tick,
         Revocation!Revoke, Told!Revoke, Revocation!Restore, Told!Restore,
         Revocation!Hold, Told!Hold
<1>2. QED
  BY <1>1, ChainAssumption, RatificationAssumption, Told!StoreMoves

LEMMA StoreStays == Told!StoreOK /\ UNCHANGED storeVars => Told!StoreOK'
BY ChainAssumption, RatificationAssumption, Told!StoreStays DEF storeVars, Told!storeVars

\* The store of the first status held no revocation of the chain.
LEMMA RatifiersClear ==
  ASSUME TypeOK, Told!StoreOK, ~Revocation!Recounted, NEW at \in Int,
         NEW list \in StatusesRead(at), DOMAIN list = Revocation!Counted(list)
  PROVE  \E h \in history :
           /\ h.at = list[1].checked_at
           /\ h.at \in at - SignedAge .. at
           /\ \A i \in DOMAIN Ratifiers : Ratifiers[i].jti \notin h.store.revoked
<1>1. PICK n \in Nat : n > 0 /\ DOMAIN Ratifiers = 1 .. n
  <2>1. Len(verified) \in Nat /\ DOMAIN Ratifiers = 1 .. Len(verified) + 1
    BY DEF TypeOK, Ratifiers
  <2>2. QED BY <2>1
<1>2. /\ list \in [1 .. n -> Revocation!Answers] /\ ~Revocation!EpochRegression(list)
      /\ \A i \in 1 .. n : /\ list[i].jti = Ratifiers[i].jti /\ ~list[i].is_revoked
                           /\ list[i].checked_at <= at
                           /\ at <= list[i].checked_at + SignedAge
  BY <1>1 DEF StatusesRead
<1>3. /\ list \in [1 .. n -> Told!Answers] /\ ~Told!EpochRegression(list)
      /\ Told!Counted(list) = 1 .. n /\ ~Told!Recounted
  BY <1>2
  DEF Revocation!Answers, Told!Answers, Revocation!Answer, Told!Answer,
      Revocation!EpochRegression, Told!EpochRegression, Revocation!Counted,
      Told!Counted, Revocation!Recounted, Told!Recounted
<1>4. PICK h \in history :
        /\ h.at = list[1].checked_at
        /\ \A i \in 1 .. n : list[i].jti \notin h.store.revoked
  BY <1>1, <1>2, <1>3, ChainAssumption, RatificationAssumption, Told!FirstIsClear
<1>5. h.at \in Int
  BY ChainAssumption DEF Told!StoreOK, Told!StoreTypeOK, Told!Times
<1>6. h.at \in at - SignedAge .. at
  BY <1>1, <1>2, <1>4, <1>5, RatificationAssumption
<1>7. QED BY <1>1, <1>2, <1>4, <1>6

LEMMA StoreHolds == RatSpec => []Told!StoreOK
<1>1. RatInit => Told!StoreOK
  BY StoreStarts DEF RatInit
<1>2. Told!StoreOK /\ [RatNext]_ratVars => Told!StoreOK'
  BY StoreMoves, StoreStays DEF RatNext, Walk, MoveStore, Accept, Refuse, ratVars
<1>3. QED BY <1>1, <1>2, PTL DEF RatSpec

\* What an accepted bundle has read stays true of what it has read.
LEMMA ClearStays ==
  TypeOK /\ RatInv /\ Told!StoreOK /\ RatifierClearAtOneMoment /\ [RatNext]_ratVars
    => RatifierClearAtOneMoment'
<1> SUFFICES ASSUME TypeOK, RatInv, Told!StoreOK, RatifierClearAtOneMoment,
                    [RatNext]_ratVars, Ratified', ~Revocation!Recounted',
                    (DOMAIN statuses = Revocation!Counted(statuses))'
             PROVE  (\E h \in history :
                       /\ h.at = statuses[1].checked_at
                       /\ h.at \in bundle.ratification.ratified_at - SignedAge
                                     .. bundle.ratification.ratified_at
                       /\ \A i \in DOMAIN Ratifiers :
                            Ratifiers[i].jti \notin h.store.revoked)'
  BY DEF RatifierClearAtOneMoment
<1>1. CASE Walk \/ MoveStore
  BY <1>1, RatificationAssumption DEF Walk, MoveStore, Ratified
<1>2. CASE Accept
  <2>1. PICK list \in StatusesRead(bundle.ratification.ratified_at) : statuses' = list
    BY <1>2 DEF Accept
  <2>2. UNCHANGED <<call, verified, bundle, history, committed>>
    BY <1>2 DEF Accept, vars, storeVars
  <2>3. bundle.ratification.ratified_at \in Int
    BY <1>2, RatificationAssumption DEF Accept, RatInv
  <2>4. ~Revocation!Recounted /\ DOMAIN list = Revocation!Counted(list)
    BY <2>1, <2>2 DEF Revocation!Recounted, Revocation!Counted
  <2>5. PICK h \in history :
          /\ h.at = list[1].checked_at
          /\ h.at \in bundle.ratification.ratified_at - SignedAge
                        .. bundle.ratification.ratified_at
          /\ \A i \in DOMAIN Ratifiers : Ratifiers[i].jti \notin h.store.revoked
    BY <2>1, <2>3, <2>4, RatifiersClear
  <2>6. Ratifiers' = Ratifiers
    BY <2>2 DEF Ratifiers
  <2>7. QED BY <2>1, <2>2, <2>5, <2>6
<1>3. CASE Refuse
  <2>1. "status_evidence" \in Recorded(bundle, FALSE)
    BY <1>3 DEF Refuse, Ratified, CheckNames
  <2>2. QED BY <2>1 DEF Recorded, Named
<1>4. CASE UNCHANGED ratVars
  <2>1. /\ UNCHANGED <<call, verified, bundle, passed, statuses, history, committed>>
        /\ Ratifiers' = Ratifiers
    BY <1>4 DEF ratVars, vars, storeVars, Ratifiers
  <2>2. /\ Ratified /\ ~Revocation!Recounted
        /\ DOMAIN statuses = Revocation!Counted(statuses)
    BY <2>1 DEF Ratified, Revocation!Recounted, Revocation!Counted
  <2>3. QED BY <2>1, <2>2 DEF RatifierClearAtOneMoment
<1>5. QED BY <1>1, <1>2, <1>3, <1>4 DEF RatNext

\* The chain of a ratified bundle was clear as a whole at one moment near the
\* ratification (RatifierClearAtOneMoment).
THEOREM RatifierClearHolds == RatSpec => []RatifierClearAtOneMoment
<1>1. RatInit => RatifierClearAtOneMoment
  BY RatificationAssumption DEF RatInit, RatifierClearAtOneMoment, Ratified
<1>2. QED
  BY <1>1, ClearStays, RatHolds, StoreHolds, PTL DEF RatSpec
=============================================================================
