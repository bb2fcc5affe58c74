-------------------------- MODULE AuthorityReceipt --------------------------
(***************************************************************************)
(* What verify_execution_authority (admission.py) reads of a retained      *)
(* receipt, apart from the statuses and the account rows: the signed       *)
(* admission, the path of delegations up to an admitted origin, the native *)
(* request and its holder, the retained credentials                        *)
(* (credential_evidence.py), and a foreign dispatch.                       *)
(*                                                                         *)
(* A signed artefact is a record of its claims and `verifies`, whether its *)
(* signature holds under the roots it is checked with.  A digest is the    *)
(* artefact it is taken of, so equality of digests is equality of records. *)
(* Fields that are only ever compared together are one value.              *)
(***************************************************************************)
EXTENDS Integers, FiniteSets, Sequences

CONSTANTS
  None,             \* what is absent or malformed
  Caller,           \* what the caller accepted beforehand: domain, ledger,
                    \* version floor, predecessor or None, revocation epoch floor
  DefaultProofAge   \* DEFAULT_FRESHNESS_SECONDS of actor_proof.py

-----------------------------------------------------------------------------
(* The signed admission.                                                   *)

\* The generations that carry counterparty points.
Counterparty == {4, 5}

Git == "git-publication/1"
CustomerDelete == "customer-delete/1"

\* `_counterparty_point_errors` of one point.
PointShape(a, point) ==
  /\ point.profile = CustomerDelete
  /\ point.max_revocation_age \in Nat \ {0}
  /\ point.selector # None => point.selector \in DOMAIN a.roots

\* Which fields a resource binding has depends on the admission's generation
\* and on the profile of its outcomes.
BindingShape(a) ==
  LET b == a.resource_binding IN
  /\ (b.outcome_profile = None) = (b.outcome_key = None)
  /\ b.outcome_profile # None =>
       a.schema_version >= 2 /\ b.outcome_key # b.receipt_key
  /\ (b.git_ref # None) = (b.outcome_profile = Git)
  /\ b.outcome_profile = Git => a.schema_version >= 3
  /\ a.schema_version = 3 => b.outcome_profile = Git
  /\ b.ingress => a.schema_version >= 2
  /\ IF a.schema_version = 5
     THEN b.ingress = (b.consent # None)
     ELSE b.consent = None /\ b.policy = None

\* `project_foreign_revocation_policy`, as far as two points may not share a
\* consent leaf; ForeignClearance has the rest.
Projected(points) == [p \in DOMAIN points |-> points[p].consent]

Projectable(points) ==
  \A p, q \in DOMAIN points : points[p].consent[1] = points[q].consent[1] => p = q

\* The fifth generation binds the policy of its points into the resource.
PolicyShape(a) ==
  a.schema_version = 5 =>
    LET b == a.resource_binding
        requires == b.outcome_profile = CustomerDelete /\ DOMAIN a.points # {}
    IN /\ (b.policy # None) = requires
       /\ requires => Projectable(a.points) /\ b.policy = Projected(a.points)

\* `_shape_errors` and `validate_authority_admission_claims`.
AdmissionShape(a) ==
  /\ a.schema_version \in 1 .. 5
  /\ a.version \in Nat \ {0}
  /\ (a.version = 1) = (a.previous = None)
  /\ a.origins # <<>>
  /\ \A i, k \in DOMAIN a.origins : a.origins[i] = a.origins[k] => i = k
  /\ (a.schema_version \in Counterparty) = (a.points # None)
  /\ a.points # None => \A p \in DOMAIN a.points : PointShape(a, a.points[p])
  /\ DOMAIN a.roots # {}
  /\ {a.max_revocation_age, a.max_cumulative_age, a.max_actor_proof_age} \subseteq Nat \ {0}
  /\ BindingShape(a)
  /\ PolicyShape(a)
  /\ a.nbf <= a.exp

\* `verify_authority_admission`: the admission of the caller's domain and
\* ledger, at or above its version floor and after its predecessor.
AdmissionHolds(a, at) ==
  /\ a.verifies
  /\ AdmissionShape(a)
  /\ a.nbf <= at /\ at <= a.exp
  /\ a.domain = Caller.domain /\ a.ledger = Caller.ledger
  /\ a.version >= Caller.minimum_version
  /\ Caller.previous # None => a.previous = Caller.previous

\* The public preimages the admission vouches for.
Configuration(a) ==
  [roots |-> a.roots,
   points |-> IF a.schema_version \in Counterparty THEN a.points ELSE None]

-----------------------------------------------------------------------------
(* What the receipt retains beside the admission.                          *)

Summary(a) ==
  [admission |-> a, configuration |-> Configuration(a),
   domain |-> Caller.domain, ledger |-> Caller.ledger, point |-> a.point,
   minimum_version |-> Caller.minimum_version, previous |-> Caller.previous,
   epoch_floor |-> Caller.epoch_floor]

\* The sixth generation of evidence also states the bound on holder proofs.
AdmissionRetained(r) ==
  /\ r.summary = Summary(r.admission)
  /\ (r.proof_age # None) = (r.schema_version = "6")

PointRetained(r) == r.summary.point = r.admission.point

ConfigurationRetained(r) == r.configuration = Configuration(r.admission)

\* `_retained_request_adapter`: the receipt and its request name one adapter,
\* the admitted one.
ResourceRetained(r) ==
  /\ r.resource_binding = r.admission.resource_binding
  /\ r.adapters = {r.admission.resource_binding.adapter}

-----------------------------------------------------------------------------
(* The admitted path.  A path is the retained delegations, leaf first; its *)
(* walk is the verdict DelegationChain reaches on it.                      *)

Leaf(r) == r.path[1]
Origin(r) == r.path[Len(r.path)]

\* `verify_admitted_origin`: an admitted grant for this enforcement point,
\* with the completed bundle of its own ratification.
OriginHolds(r) ==
  /\ \E i \in DOMAIN r.admission.origins : r.admission.origins[i] = Origin(r)
  /\ Origin(r).verifies
  /\ Origin(r).aud = {r.admission.point}
  /\ r.bundle.grant = Origin(r)
  /\ r.bundle.ok

\* Every delegation is signed by the issuer of the origin and, for a Git
\* resource, covers the admitted ref.
OneIssuer(r) ==
  /\ Origin(r).signer # None
  /\ \A i \in DOMAIN r.path :
       /\ r.path[i].signer = Origin(r).signer
       /\ r.admission.resource_binding.git_ref # None => r.path[i].covers_ref

\* `verify_admitted_path`, and the origin the receipt names.
PathHolds(r) ==
  /\ r.path # <<>> /\ r.bundle # None
  /\ Leaf(r).verifies
  /\ Leaf(r).nbf <= r.evaluated_at /\ r.evaluated_at <= Leaf(r).exp
  /\ r.walk = "valid"
  /\ OriginHolds(r)
  /\ OneIssuer(r)
  /\ r.origin = Origin(r)

-----------------------------------------------------------------------------
(* The retained credentials, credential_evidence.py.                       *)

\* `credential_registration_error`: an organisational root countersigned the
\* enrolment of a P-256 key, not after the moment it is used.
Registered(a, root, at) ==
  /\ root \in DOMAIN a.roots
  /\ a.roots[root].registered_at # None
  /\ a.roots[root].registered_at <= at

\* `_artifact`: the block beside an artefact restates its scheme, context and
\* root, and a P-256 root is registered.
ArtifactHolds(r, artifact) ==
  /\ artifact.restated
  /\ r.admission.roots[artifact.root].scheme = "p256" =>
       Registered(r.admission, artifact.root, r.evaluated_at)

\* `verify_actor_proof`: the key is registered to the actor, and it signed
\* this request for this ledger within the bound, before or after.
ProofHolds(r, request, age) ==
  LET proof == r.actor_proof
      registrations == r.admission.roots
  IN /\ Registered(r.admission, proof.root, r.evaluated_at)
     /\ registrations[proof.root].subject = r.actor
     /\ proof.audience = Caller.ledger
     /\ r.evaluated_at - proof.issued_at <= age
     /\ proof.issued_at - r.evaluated_at <= age
     /\ proof.request = request

\* `_verify_approval`: no approval, or one in its window that names this
\* request and the escalation the caller holds.
ApprovalHolds(r) ==
  r.approval # None =>
    /\ ArtifactHolds(r, r.approval)
    /\ r.approval.verifies
    /\ r.approval.request = r.fingerprint
    /\ r.approval.nbf <= r.evaluated_at /\ r.evaluated_at <= r.approval.exp
    /\ r.escalation = [hash |-> r.approval.escalation, outcome |-> "escalate",
                       request |-> r.fingerprint]

\* `verify_receipt_credentials` as it is called here: the path is replayed
\* under the rule the receipt recorded, and a live receipt without a foreign
\* dispatch carries a holder proof that the decision restates.
CredentialsHold(r) ==
  /\ r.execution_profile \in {None, "live", "simulation", "nonconsequential"}
  /\ r.foreign = None =>
       /\ r.actor_proof # None
       /\ ProofHolds(r, r.actor_proof.request, DefaultProofAge)
       /\ r.proof_summary = [root |-> r.actor_proof.root, nonce |-> r.actor_proof.nonce]
  /\ \A i \in DOMAIN r.path : ArtifactHolds(r, r.path[i])
  /\ r.replay = "valid"
  /\ ApprovalHolds(r)

-----------------------------------------------------------------------------
(* The native request.                                                     *)

\* Mutation of RequestBound: a request is bound by its leaf.
RequestBoundToLeaf(r) ==
  /\ r.request # None
  /\ r.request.actor = r.actor
  /\ r.request.path[1] = r.path[1]
  /\ r.request.approval = r.approval
  /\ r.request.call = r.call

\* `request_binding_matches`: the request names the retained actor, path,
\* approval and call, and carries the retained proof if any.
RequestBound(r) ==
  /\ r.request # None
  /\ r.request.actor = r.actor
  /\ r.request.proof # None => r.request.proof = r.actor_proof
  /\ r.request.path = r.path
  /\ r.request.approval = r.approval
  /\ r.request.call = r.call

\* The holder is the leaf's subject and the request's actor, and without a
\* foreign dispatch it proved that it made this request.
HolderHolds(r) ==
  /\ r.request # None
  /\ r.actor = Leaf(r).sub /\ r.request.actor = r.actor
  /\ r.foreign = None =>
       /\ r.actor_proof # None
       /\ r.request.proof # None => r.request.proof = r.actor_proof
       /\ ProofHolds(r, r.request.id, r.admission.max_actor_proof_age)

-----------------------------------------------------------------------------
(* A foreign dispatch, up to its statuses: `verify_foreign_dispatch`.      *)

\* The admitted points whose key signed the dispatch and that it names.
ForeignPoints(r) ==
  {p \in DOMAIN r.admission.points :
     r.admission.points[p].key = r.foreign.dispatch.key /\ r.foreign.dispatch.point = p}

ForeignPoint(r) == r.admission.points[CHOOSE p \in ForeignPoints(r) : TRUE]

\* The point's authority approved this dispatch for this destination, until
\* the dispatch ends at the latest.
ContextHolds(r, d, point) ==
  /\ r.context # None
  /\ point.selector # None
  /\ r.context.root = point.selector
  /\ r.context.dispatch = d /\ r.context.body = d.body
  /\ r.context.consent = point.consent
  /\ r.context.destination = <<r.admission.domain, r.admission.ledger, r.admission.point>>
  /\ r.context.issued_at <= r.evaluated_at /\ r.evaluated_at < r.context.expires_at
  /\ r.context.expires_at <= d.not_after

\* B's request is the deletion the dispatch names, made by the point's key
\* under the point's consent.
ForeignRequest(r, d, point) ==
  /\ r.request # None
  /\ r.request.dispatch = d
  /\ r.request.operation = d.operation
  /\ r.request.path = point.consent
  /\ r.request.actor = point.key /\ r.actor = point.key
  /\ r.request.call = d.body
  /\ r.admission.resource_binding.adapter = "http"

ForeignBound(r) ==
  LET d == r.foreign.dispatch
      point == ForeignPoint(r)
  IN /\ r.admission.schema_version \in Counterparty
     /\ r.actor_proof = None
     /\ r.foreign.points = r.admission.points
     /\ r.foreign_hash = d
     /\ ForeignPoints(r) # {}
     /\ ~d.nested
     /\ d.identity = point.identity
     /\ r.admission.schema_version = 5 => d.consent = point.consent
     /\ ForeignRequest(r, d, point)
     /\ ContextHolds(r, d, point)
     /\ d.authorized_at <= r.evaluated_at /\ r.evaluated_at <= d.not_after
     /\ d.identified

-----------------------------------------------------------------------------
(* The windowed accounts a schema-6 receipt answers for:                   *)
(* `required_account_bounds` over the path.                                *)

\* The windowed bounds of the path that apply to the action, each with its
\* place in the path.
Charges(r) ==
  UNION {{[at |-> i, bound |-> b] : b \in {c \in r.path[i].bounds : c.applies /\ c.window # None}}
           : i \in DOMAIN r.path}

\* Two bounds that state one shared account of an authority entry.
OneAccount(r, x, y) ==
  /\ x.bound.aggregation = "entry" /\ y.bound.aggregation = "entry"
  /\ r.path[x.at].entry = r.path[y.at].entry
  /\ x.bound.kind = y.bound.kind /\ x.bound.window = y.bound.window

\* What a status row says which account it is of.  It names the duration of
\* the window but not the period.
RowKey(r, x) ==
  [jti |-> r.path[x.at].jti, kind |-> x.bound.kind, duration |-> x.bound.window.duration,
   scope |-> x.bound.aggregation,
   scope_id |-> IF x.bound.aggregation = None THEN None ELSE r.path[x.at].entry]

\* Mutation of Accounts: the leaf restates all there is.
LeafAccounts(r) == {x \in Charges(r) : x.at = 1}

\* A shared account belongs to the first delegation that states it.
Accounts(r) ==
  {x \in Charges(r) : \A y \in Charges(r) : OneAccount(r, x, y) => x.at <= y.at}

\* No shared account is stated with two ceilings.
CeilingsAgree(r) ==
  \A x, y \in Charges(r) : OneAccount(r, x, y) => x.bound.ceiling = y.bound.ceiling

\* No identifier owns shared accounts of two entries.
OwnersAgree(r) ==
  \A x, y \in Accounts(r) :
    /\ x.bound.aggregation = "entry" /\ y.bound.aggregation = "entry"
    /\ r.path[x.at].jti = r.path[y.at].jti
    => r.path[x.at].entry = r.path[y.at].entry

\* A schema-5 receipt answers for the windowed bounds of its leaf, whatever
\* they apply to.
LeafBounds(r) ==
  {[at |-> 1, bound |-> b] : b \in {c \in Leaf(r).bounds : c.window # None}}

\* Three mismatches are errors although every named check may pass.
Consistent(r) ==
  r.schema_version = "6" =>
    /\ r.admission.schema_version >= 2
    /\ r.proof_age = r.admission.max_actor_proof_age
    /\ CeilingsAgree(r)
=============================================================================
