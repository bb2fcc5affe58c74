-------------------------- MODULE ForeignClearance --------------------------
(***************************************************************************)
(* The clearance of a customer deletion at B that rests on a dispatch of A *)
(* (foreign_revocation.py, with the fence of revocation_fence.py and the   *)
(* join of execution_evidence.py).  A authorizes a dispatch under its own  *)
(* delegation chain; B dispatches its operation on it, asks A for a fence, *)
(* reads the statuses of A's chain, passes its gate and records a          *)
(* terminal.  The verifier sees the terminal and what B retained, and      *)
(* decides whether the deletion was cleared.                               *)
(*                                                                         *)
(* A's store and the two parties are not part of the verifier.  They are   *)
(* modelled from the messages they sign; whoever writes the bundle may     *)
(* combine any of them.  All moments are read from one clock.              *)
(***************************************************************************)
EXTENDS RevocationStore

CONSTANTS
  Chain,             \* foreign_delegation_jtis: the identifiers of A's chain
  Operation, Other,  \* B's operations: the one verified, and another
  Settings,          \* B's points and what B's dispatch signs: see Setting
  PointAge,          \* the point's bound on the age of a status, and those
  DispatchAges,      \* the two dispatches may state, in moments
  ForeignWindow,     \* how long A's dispatch and B's dispatch are valid
  NativeWindow,
  MaxGrants          \* bound: fences A grants

\* A point is the consent chain configured for it, leaf first; the admission
\* may bind the policy of the points.  A dependency is A's dispatch and B's
\* policy as B's dispatch signs them, and retained is the dispatch of A that
\* B's decision keeps: none, the one of the dependency, or another.
Setting(s) ==
  /\ s.bound \in BOOLEAN /\ s.retained \in {None, "same", "other"}
  /\ \A p \in DOMAIN s.points : \A i \in DOMAIN s.points[p] :
       s.points[p][i].chain_depth \in Nat
  /\ s.dependency # None => s.dependency.nested \in BOOLEAN

ASSUME ClearanceAssumption ==
  /\ Chain \in Seq(Jtis) /\ Chain # <<>>
  /\ PointAge \in Nat /\ DispatchAges \subseteq Nat
  /\ ForeignWindow \in Nat /\ NativeWindow \in Nat /\ MaxGrants \in Nat
  /\ Operation # Other
  /\ \A s \in Settings : Setting(s)

ChainJtis == {Chain[i] : i \in 1 .. Len(Chain)}

Dispatches == [authorized_at : Times, not_after : Nat, revocation_epoch : Epochs]
Grants == [operation : {Operation, Other}, prepared_at : Times, revocation_epoch : Epochs]
Verdicts == {None, "refused", "ordinary", "unexecuted", "revoked", "cleared"}

\* What B may record, and the evidence of clearance in it.
ClearanceRecords ==
  [checked_at : Times, statuses : [1 .. Len(Chain) -> Statuses \cup {None}],
   grant : Grants \cup {None}]
TerminalRecords ==
  [status : {"committed", "not_executed"}, recorded_at : Times,
   clearance : ClearanceRecords \cup {None}]

ASSUME NoneAssumption ==
  /\ None \notin {"refused", "ordinary", "unexecuted", "revoked", "cleared"}
  /\ None \notin ClearanceRecords /\ None \notin TerminalRecords

VARIABLES
  setting,      \* one of Settings
  a_dispatch,   \* A's dispatch, or None
  b_dispatch,   \* the validity of B's dispatch, or None
  grants,       \* the fences A granted
  terminal,     \* the terminal that was verified, or None
  verdict

messageVars == <<setting, a_dispatch, b_dispatch, grants>>
vars == <<storeVars, messageVars, terminal, verdict>>

Init ==
  /\ StoreInit
  /\ setting \in Settings
  /\ a_dispatch = None /\ b_dispatch = None
  /\ grants = {}
  /\ terminal = None /\ verdict = None
-----------------------------------------------------------------------------
(* Which dispatch of A an operation of B depends on.                       *)

\* `_consent_jtis`: slips that verify, one for each level of depth, each the
\* parent of the one before, up to a root, and no identifier twice.
ExactConsent(consent) ==
  /\ \A i \in DOMAIN consent : consent[i].verifies
  /\ Len(consent) = consent[1].chain_depth + 1
  /\ \A i \in 1 .. Len(consent) - 1 :
       /\ consent[i].parent_jti = consent[i + 1].jti
       /\ consent[i].chain_depth = consent[i + 1].chain_depth + 1
  /\ consent[Len(consent)].parent_jti = None
  /\ \A i, k \in DOMAIN consent : consent[i].jti = consent[k].jti => i = k

\* `project_foreign_revocation_policy` and `foreign_revocation_policy_points`:
\* the points project to a policy when every consent chain is exact and no two
\* share a leaf.
Projects(points) ==
  /\ \A p \in DOMAIN points : ExactConsent(points[p])
  /\ \A p, q \in DOMAIN points : points[p][1].jti = points[q][1].jti => p = q

ConsentJtis(consent) == [i \in DOMAIN consent |-> consent[i].jti]

Policy(points) == [p \in DOMAIN points |-> ConsentJtis(points[p])]

\* The points whose consent leaf B's dispatch was delegated under.
LeafMatches(s) ==
  {p \in DOMAIN s.points : \E i \in DOMAIN s.jtis : s.jtis[i] = s.points[p][1].jti}

ExactMatches(s) == {p \in DOMAIN s.points : ConsentJtis(s.points[p]) = s.jtis}

\* Mutation of Ordinary: only the whole consent chain counts as consent.
OrdinaryUnlessExact(s) ==
  /\ s.dependency = None
  /\ s.bound => /\ Projects(s.points)
                /\ s.jtis # None => ExactMatches(s) = {}
                /\ s.retained = None

\* Without a dependency B's dispatch is an ordinary one, unless it was
\* delegated under a foreign consent.  A dispatch of the older generation
\* names no delegations, and without an admitted policy there is no consent.
Ordinary(s) ==
  /\ s.dependency = None
  /\ s.bound => /\ Projects(s.points)
                /\ s.jtis # None => LeafMatches(s) = {}
                /\ s.retained = None

\* `_verify_foreign_claims`: A's dispatch is the one of the point, on its
\* consent, for the same deletion, and rests on no further dispatch.
ForeignClaimsHold(s, p) ==
  /\ s.dependency.point = p
  /\ s.dependency.consent = ConsentJtis(s.points[p])
  /\ s.dependency.body = s.body
  /\ ~s.dependency.nested
  /\ a_dispatch.authorized_at <= b_dispatch.authorized_at
  /\ b_dispatch.authorized_at <= a_dispatch.not_after

\* `verify_foreign_dependency`: one point whose consent chain is the very
\* chain of B's dispatch, under the installed policy.
Dependent(s) ==
  /\ s.bound /\ Projects(s.points)
  /\ s.dependency # None /\ s.jtis # None
  /\ Cardinality(ExactMatches(s)) = 1
  /\ s.dependency.policy = Policy(s.points)
  /\ \A p \in ExactMatches(s) : ForeignClaimsHold(s, p)
  /\ s.dependency.identified
  /\ s.retained = "same"
-----------------------------------------------------------------------------
(* The parties.                                                            *)

ChainClear == ChainJtis \cap store.revoked = {}

\* A allows its own action and signs the dispatch with its store's epoch.
AuthorizeForeign ==
  /\ setting.dependency # None
  /\ a_dispatch = None /\ ChainClear
  /\ a_dispatch' = [authorized_at |-> now, not_after |-> now + ForeignWindow,
                    revocation_epoch |-> store.epoch]
  /\ UNCHANGED <<storeVars, setting, b_dispatch, grants, terminal, verdict>>

\* B dispatches its operation, on A's dispatch if it depends on one.
AuthorizeNative ==
  /\ b_dispatch = None
  /\ setting.dependency # None => a_dispatch # None
  /\ b_dispatch' = [authorized_at |-> now, not_after |-> now + NativeWindow,
                    revocation_epoch |-> 0]
  /\ UNCHANGED <<storeVars, setting, a_dispatch, grants, terminal, verdict>>

\* B asks A for a fence once it has dispatched; of a dispatch whose dependency
\* does not verify, nothing it retained is read.
Asks == b_dispatch # None /\ Dependent(setting)

\* A grants a fence for an operation of B.  Prepare refuses when a
\* delegation of the chain is revoked.
Grant(op) ==
  /\ Asks /\ ChainClear
  /\ Cardinality(grants) < MaxGrants
  /\ grants' = grants \cup {[operation |-> op, prepared_at |-> now,
                             revocation_epoch |-> store.epoch]}
  /\ UNCHANGED <<storeVars, setting, a_dispatch, b_dispatch, terminal, verdict>>

MoveStore ==
  /\ StoreNext
  /\ UNCHANGED <<messageVars, terminal, verdict>>
-----------------------------------------------------------------------------
(* What a clearance must show.                                             *)

\* The smallest of the bounds that are stated.
Fresh(age) == \A bound \in {PointAge} \cup DispatchAges : age <= bound

Within(dispatch, t) == dispatch.authorized_at <= t /\ t < dispatch.not_after

\* The gate lies in both half-open windows, and the terminal after it.
Timely(t) ==
  /\ Within(a_dispatch, t.clearance.checked_at)
  /\ Within(b_dispatch, t.clearance.checked_at)
  /\ t.recorded_at >= t.clearance.checked_at
  /\ t.recorded_at < a_dispatch.not_after /\ t.recorded_at < b_dispatch.not_after

\* One status of the list holds at the gate, revoked or not.
StatusHolds(status, jti, checked_at) ==
  /\ status # None
  /\ status.jti = jti
  /\ status.request_nonce
  /\ status.revocation_epoch # None
  /\ status.revocation_epoch >= a_dispatch.revocation_epoch
  /\ status.checked_at <= checked_at
  /\ Fresh(checked_at - status.checked_at)

\* Mutation of StatusesHold: each status is checked against the floors only.
StatusesHoldApart(statuses, checked_at) ==
  \A i \in 1 .. Len(Chain) : StatusHolds(statuses[i], Chain[i], checked_at)

\* `_verify_statuses`, up to the report of a revocation: one status for each
\* delegation of A's chain, all of one epoch of A's store.
StatusesHold(statuses, checked_at) ==
  /\ \A i \in 1 .. Len(Chain) : StatusHolds(statuses[i], Chain[i], checked_at)
  /\ \A i \in 1 .. Len(Chain) :
       statuses[i].revocation_epoch = statuses[1].revocation_epoch

StatesRevoked(statuses) == \E i \in 1 .. Len(Chain) : statuses[i].is_revoked

\* Mutation of FreshAtTerminal: the age at the gate is enough.
FreshAtGate(t) == TRUE

\* A terminal recorded late is not covered by what was read at the gate.
FreshAtTerminal(t) ==
  \A i \in 1 .. Len(Chain) :
    Fresh(t.recorded_at - t.clearance.statuses[i].checked_at)

\* The fence was granted for this operation on A's dispatch, before the gate,
\* and every status was read from a store at or past it.
FenceHolds(t) ==
  LET grant == t.clearance.grant IN
  /\ grant.operation = Operation
  /\ grant.revocation_epoch >= a_dispatch.revocation_epoch
  /\ grant.prepared_at <= t.clearance.checked_at
  /\ grant.prepared_at >= a_dispatch.authorized_at
  /\ \A i \in 1 .. Len(Chain) :
       /\ t.clearance.statuses[i].checked_at >= grant.prepared_at
       /\ t.clearance.statuses[i].revocation_epoch >= grant.revocation_epoch

\* What the verifier reads before it reports a revocation.
EvidenceHolds(t) ==
  /\ t.clearance.grant # None
  /\ Timely(t)
  /\ StatusesHold(t.clearance.statuses, t.clearance.checked_at)

Cleared(t) ==
  /\ EvidenceHolds(t)
  /\ ~StatesRevoked(t.clearance.statuses)
  /\ FreshAtTerminal(t)
  /\ FenceHolds(t)
-----------------------------------------------------------------------------
(* `_verify_foreign_execution` of one terminal.                            *)

\* A bundle shows whatever was retained, with or without a fence.  A
\* clearance that names another dispatch or policy is refused as a missing
\* one is.
Clearances ==
  [checked_at : 0 .. now, statuses : StatusLists(Len(Chain)),
   grant : grants \cup {None}]

\* The resource signs the moment it records.
Terminals(clearances) ==
  [status : {"committed", "not_executed"}, recorded_at : {now},
   clearance : clearances]

Return(v, t) ==
  /\ verdict' = v /\ terminal' = t
  /\ UNCHANGED <<storeVars, messageVars>>

\* Without a dependency there is nothing to clear, and no clearance.
PassOrdinary ==
  /\ Ordinary(setting)
  /\ \E t \in Terminals({None}) : Return("ordinary", t)

\* What was not executed may omit its clearance.
PassUnexecuted ==
  /\ Dependent(setting)
  /\ \E t \in Terminals({None}) :
       t.status = "not_executed" /\ Return("unexecuted", t)

\* A revocation is reported as such before the fence is looked at.
ReportRevoked ==
  /\ Dependent(setting)
  /\ ~\A t \in Terminals(Clearances) :
        ~(EvidenceHolds(t) /\ StatesRevoked(t.clearance.statuses))
  /\ Return("revoked", None)

Clear ==
  /\ Dependent(setting)
  /\ \E t \in Terminals(Clearances) : Cleared(t) /\ Return("cleared", t)

Passes(t) ==
  IF t.clearance = None
  THEN Ordinary(setting) \/ (Dependent(setting) /\ t.status = "not_executed")
  ELSE Dependent(setting) /\ EvidenceHolds(t)
         /\ (StatesRevoked(t.clearance.statuses) \/ Cleared(t))

\* Every other terminal is refused.
Refuse ==
  /\ ~\A t \in Terminals({None}) \cup Terminals(Clearances) : Passes(t)
  /\ Return("refused", None)

Verify ==
  /\ b_dispatch # None
  /\ PassOrdinary \/ PassUnexecuted \/ ReportRevoked \/ Clear \/ Refuse

Next ==
  /\ verdict = None
  /\ \/ MoveStore
     \/ AuthorizeForeign
     \/ AuthorizeNative
     \/ \E op \in {Operation, Other} : Grant(op)
     \/ Verify

Spec == Init /\ [][Next]_vars
-----------------------------------------------------------------------------
TypeOK ==
  /\ StoreTypeOK
  /\ setting \in Settings
  /\ a_dispatch \in Dispatches \cup {None}
  /\ b_dispatch \in Dispatches \cup {None}
  /\ grants \subseteq Grants
  /\ verdict \in Verdicts
  /\ terminal \in TerminalRecords \cup {None}
  /\ verdict \in {"ordinary", "unexecuted", "cleared"} =>
       /\ terminal # None
       /\ (terminal.clearance # None) = (verdict = "cleared")

\* A cleared deletion missed no revocation: none that A's store ever made of
\* a delegation of A's chain, restored over or not, is counted by the epoch
\* the statuses agree on, which is past the fence.  The statuses are read one
\* after another from a store that moves and may be restored in between.
\* Only a store that counted an epoch twice can hide one.
NoRevocationUnseen ==
  verdict = "cleared" /\ ~Recounted =>
    LET epoch == terminal.clearance.statuses[1].revocation_epoch IN
    /\ epoch >= terminal.clearance.grant.revocation_epoch
    /\ ChainJtis \cap RevokedBy(epoch) = {}

\* There was a moment, after A granted the fence for this operation, before
\* the gate and recent enough when the terminal was recorded, at which no
\* delegation of A's chain was revoked, all at once.
ClearAtOneMoment ==
  verdict = "cleared" /\ ~Recounted =>
    \E h \in history :
      /\ ChainJtis \cap h.store.revoked = {}
      /\ h.at <= terminal.clearance.checked_at
      /\ Fresh(terminal.recorded_at - h.at)
      /\ \E g \in grants : g.operation = Operation /\ g.prepared_at <= h.at

\* A deletion that was committed under a foreign consent of the admitted policy
\* is cleared before the verifier accepts it: no path around the clearance,
\* whatever else B's points and B's delegation chain share with it.
CommittedIsCleared ==
  (/\ verdict \in {"ordinary", "unexecuted", "cleared"}
   /\ terminal.status = "committed"
   /\ setting.bound /\ setting.jtis # None
   /\ LeafMatches(setting) # {})
    => verdict = "cleared"
=============================================================================
