----------------------- MODULE MCExecutionAuthority -----------------------
(* A small instance of ExecutionAuthority: a chain of two delegations, four  *)
(* receipts that may be accepted, and receipts that each differ from one of  *)
(* them in what one check reads.                                             *)
EXTENDS ExecutionAuthority, TLC

CONSTANTS
  leaf, parent,                          \* delegations of the store followed
  issuer, workload, pointA, keyA, body,  \* signers, actors and their request
  domain, ledger, place, remote,
  rootP, rootE, selected, entry, other

MCCaller ==
  [domain |-> domain, ledger |-> ledger, minimum_version |-> 1, previous |-> None,
   epoch_floor |-> 0]

Roots ==
  (rootE :> [scheme |-> "ed25519", registered_at |-> None, subject |-> None])
    @@ (rootP :> [scheme |-> "p256", registered_at |-> 1, subject |-> workload])
    @@ (selected :> [scheme |-> "ed25519", registered_at |-> None, subject |-> None])

Windowed(kind, aggregation) ==
  [kind |-> kind, aggregation |-> aggregation, applies |-> TRUE, ceiling |-> 5,
   window |-> [epoch |-> 0, duration |-> 4]]

Token(jti, sub, age, bounds) ==
  [jti |-> jti, sub |-> sub, verifies |-> TRUE, signer |-> issuer, nbf |-> 0, exp |-> MaxTime,
   aud |-> {place}, covers_ref |-> TRUE, max_revocation_age |-> age, bounds |-> bounds,
   entry |-> entry, root |-> rootE, restated |-> TRUE]

Path(sub, bounds) == <<Token(leaf, sub, 1, bounds), Token(parent, sub, None, bounds)>>

Binding ==
  [adapter |-> "http", outcome_profile |-> None, outcome_key |-> None, receipt_key |-> "k1",
   git_ref |-> None, ingress |-> FALSE, consent |-> None, policy |-> None]

Admission(path) ==
  [verifies |-> TRUE, schema_version |-> 2, version |-> 1, previous |-> None, domain |-> domain,
   ledger |-> ledger, point |-> place, nbf |-> 0, exp |-> MaxTime, origins |-> <<path[2]>>,
   points |-> None, roots |-> Roots, resource_binding |-> Binding,
   max_revocation_age |-> 2, max_cumulative_age |-> 1, max_actor_proof_age |-> 1]

\* A receipt that retains the evidence of admission a and path p.
Shown(a, p, at) ==
  [schema_version |-> "6", execution_profile |-> "live", evaluated_at |-> at, side |-> "native",
   admission |-> a, summary |-> Summary(a), proof_age |-> a.max_actor_proof_age,
   configuration |-> Configuration(a), resource_binding |-> a.resource_binding,
   adapters |-> {"http"}, path |-> p, walk |-> "valid", replay |-> "valid", origin |-> p[2],
   bundle |-> [grant |-> p[2], ok |-> TRUE], foreign |-> None, foreign_hash |-> None,
   context |-> None, actor |-> workload, call |-> body, fingerprint |-> body,
   approval |-> None, escalation |-> None,
   actor_proof |-> [root |-> rootP, nonce |-> 1, audience |-> ledger, issued_at |-> at,
                    request |-> body],
   proof_summary |-> [root |-> rootP, nonce |-> 1],
   request |-> [id |-> body, actor |-> workload, proof |-> None, path |-> p, approval |-> None,
                call |-> body, dispatch |-> None, operation |-> None]]

Native == LET p == Path(workload, {}) IN Shown(Admission(p), p, 2)

\* Registered before the decision, and a path with bounds of each kind.
Bounded(bounds, at) ==
  LET p == Path(workload, bounds)
      a == [Admission(p) EXCEPT !.roots[rootP].registered_at = 0]
  IN Shown(a, p, at)

\* A dispatch of A admitted at B for the whole consent.
Consent == Path(keyA, {})
PointA ==
  [key |-> keyA, identity |-> remote, profile |-> CustomerDelete, max_revocation_age |-> 1,
   consent |-> Consent, selector |-> selected]

ForeignAdmission ==
  [Admission(Consent) EXCEPT
     !.schema_version = 5, !.points = pointA :> PointA,
     !.resource_binding.outcome_profile = CustomerDelete,
     !.resource_binding.outcome_key = "k2",
     !.resource_binding.policy = pointA :> Consent]

Dispatch ==
  [key |-> keyA, point |-> pointA, identity |-> remote, nested |-> FALSE, consent |-> Consent,
   operation |-> other, body |-> body, authorized_at |-> 1, not_after |-> MaxTime,
   identified |-> TRUE, jtis |-> <<leaf, parent>>, max_revocation_age |-> None,
   revocation_epoch |-> 1]

Foreign ==
  [Shown(ForeignAdmission, Consent, 2) EXCEPT
     !.side = "foreign", !.actor = keyA, !.actor_proof = None, !.proof_summary = None,
     !.foreign = [dispatch |-> Dispatch, points |-> pointA :> PointA],
     !.foreign_hash = Dispatch,
     !.request.actor = keyA, !.request.dispatch = Dispatch, !.request.operation = other,
     !.context = [root |-> selected, dispatch |-> Dispatch, body |-> body, consent |-> Consent,
                  destination |-> <<domain, ledger, place>>, issued_at |-> 1,
                  expires_at |-> MaxTime]]

Approval ==
  [root |-> rootP, restated |-> TRUE, verifies |-> TRUE, request |-> body, nbf |-> 2, exp |-> 2,
   escalation |-> other]

Approved ==
  [Native EXCEPT !.approval = Approval, !.request.approval = Approval,
                 !.escalation = [hash |-> other, outcome |-> "escalate", request |-> body]]

\* A path whose parent is not the consent's.
Elsewhere == <<Consent[1], Token(other, keyA, None, {})>>
OffConsent ==
  [Shown([ForeignAdmission EXCEPT !.origins = <<Consent[2], Elsewhere[2]>>], Elsewhere, 2) EXCEPT
     !.side = "foreign", !.actor = keyA, !.actor_proof = None, !.proof_summary = None,
     !.foreign = Foreign.foreign, !.foreign_hash = Dispatch, !.context = Foreign.context,
     !.request = Foreign.request]

\* One shared account stated with two ceilings.
Contradictory ==
  LET r == Bounded({Windowed("money", "entry")}, 2)
      p == [r.path EXCEPT ![2].bounds = {[b EXCEPT !.ceiling = 4] : b \in @}]
      a == [r.admission EXCEPT !.origins = <<p[2]>>]
  IN Shown(a, p, 2)

MCReceipts ==
  {Contradictory, Native, Approved, Foreign, Bounded({Windowed("calls", None)}, 0),
   Bounded({Windowed("money", "entry")}, 2),
   [Bounded({Windowed("calls", None)}, 2) EXCEPT !.schema_version = "5", !.proof_age = None],
   [Foreign EXCEPT !.side = "native"],
   OffConsent,
   [Native EXCEPT !.schema_version = "4"],
   [Native EXCEPT !.execution_profile = "simulation"],
   [Native EXCEPT !.evaluated_at = None],
   [Native EXCEPT !.evaluated_at = 0],
   [Native EXCEPT !.admission = None],
   [Native EXCEPT !.summary.domain = remote],
   [Native EXCEPT !.summary.point = remote],
   [Native EXCEPT !.proof_age = 3],
   [Native EXCEPT !.adapters = {"http", "mcp"}],
   [Native EXCEPT !.configuration.points = <<>>],
   [Native EXCEPT !.foreign_hash = Dispatch],
   [Native EXCEPT !.walk = "refused"],
   [Native EXCEPT !.bundle.ok = FALSE],
   [Native EXCEPT !.actor_proof.issued_at = 0],
   [Native EXCEPT !.request.call = other],
   [Approved EXCEPT !.escalation = None],
   [Foreign EXCEPT !.foreign.dispatch.nested = TRUE],
   [Foreign EXCEPT !.context.expires_at = 2]}
=============================================================================
