----------------------------- MODULE Ratification ----------------------------
(***************************************************************************)
(* A ratification approves the grant one authority entry asks for, with    *)
(* the authority of the ratifier's own delegation (authority_entry.py,     *)
(* ratification.py, ratification_bundle.py).  The verifier is handed a     *)
(* bundle and rebuilds the grant from the entry, walks the ratifier's      *)
(* chain at the moment of ratification with DelegationChain, compares the  *)
(* grant with the ratifier's leaf and reads the statuses of the chain.     *)
(*                                                                         *)
(* A digest is the artefact it is taken of.  The store whose statuses are  *)
(* retained is read only once the chain holds, so it moves only then.      *)
(***************************************************************************)
EXTENDS DelegationChain

CONSTANTS
  Bundles,      \* the bundles that may be shown
  Roots,        \* trust root |-> its key, scheme, and when it was enrolled
  Jtis,         \* identifiers of delegations
  SignedAge,    \* the freshness bound the store signs, in moments
  MaxEpoch, MaxRestores, Counting

\* The checks of a bundle, in their order.
CheckNames ==
  {"trust_roots", "ratification", "ratifier_registration", "entry", "candidate",
   "ratifier_chain", "status_evidence", "grant"}

\* A delegation states both keys of its lineage or neither; a candidate, which
\* is approved by a ratification, does not name it yet.
ASSUME RatificationAssumption ==
  /\ None # "entry" /\ None # CheckNames
  /\ \A s \in Slips : s.lineage # None => s.lineage.ratification # None
  /\ \A b \in Bundles : /\ [entry |-> b.entry, ratification |-> None] # None
                        /\ b.ratification.ratified_at \in Nat
  /\ None \notin Bundles
  /\ SignedAge \in Nat /\ MaxEpoch \in Nat /\ MaxRestores \in Nat
  /\ Counting \subseteq BOOLEAN /\ None \notin Int
  /\ \A s \in Slips : s.jti \in Jtis

VARIABLES
  bundle,       \* the bundle whose ratifier chain is walked, None for a walk alone
  statuses,     \* the statuses that were read
  passed,       \* the checks that passed, None until they ran
  moment, store, history, committed, restores    \* the revocation store

storeVars == <<moment, store, history, committed, restores>>
ratVars == <<vars, bundle, statuses, passed, storeVars>>

Revocation == INSTANCE RevocationStore WITH now <- moment, Nonces <- {FALSE}

-----------------------------------------------------------------------------
(* The authority entry.                                                    *)

OnAction(b, e) ==
  b.amount_scaled \in Nat /\ (b.actions # None => b.actions \subseteq {e.action})

\* `parse_authority_entry`.
EntryParses(e) ==
  /\ e.revision \in Nat \ {0}
  /\ (e.previous = None) = (e.revision = 1)
  /\ {e.nbf, e.exp, e.effective_at} \subseteq Int
  /\ e.nbf < e.exp /\ e.effective_at < e.exp
  /\ e.bound.aggregation = None /\ OnAction(e.bound, e)
  /\ e.aggregate_bound # None =>
       /\ e.aggregate_bound.aggregation = "entry" /\ e.aggregate_bound.window # None
       /\ OnAction(e.aggregate_bound, e)
  /\ e.enforcement_points # {}
  /\ e.max_depth \in Nat
  /\ e.onward_delegation => e.action # "delegate" /\ e.max_depth >= 1
  /\ e.max_depth >= 1 => e.action = "delegate" \/ e.onward_delegation

Later(s, t) == IF s >= t THEN s ELSE t
Earlier(s, t) == IF s <= t THEN s ELSE t

\* `build_candidate_core` and `_candidate_claims`: all an entry can state.
\* What it cannot state is absent, and the ratification is not known yet.
Candidate(e, attempt) ==
  [jti |-> <<e.entry_id, e.revision, attempt>>, sub |-> e.subject,
   parent_jti |-> None, chain_depth |-> 0, max_depth |-> e.max_depth,
   scope_actions |-> {e.action} \cup (IF e.onward_delegation THEN {"delegate"} ELSE {}),
   scope_paths |-> e.scope_paths, scope_domains |-> {e.domain}, scope_tools |-> {},
   nbf |-> Later(e.nbf, e.effective_at), exp |-> e.exp, capabilities |-> {},
   named_set_ref |-> None, bounds |-> {e.bound} \cup ({e.aggregate_bound} \ {None}),
   approval_quorum |-> None, lineage |-> [entry |-> e, ratification |-> None],
   aud |-> e.enforcement_points, max_revocation_age_ms |-> None]

-----------------------------------------------------------------------------
(* The ratifier's reach.                                                   *)

Historical == "historical"
ReachRules == {Historical, "ratifier_reach/2"}

\* A shared ceiling as a bound of one grant.
Alone(b) ==
  [kind |-> b.kind, unit |-> b.unit, amount_scaled |-> b.amount_scaled, window |-> b.window,
   aggregation |-> None, actions |-> b.actions, boundaries |-> b.boundaries]

\* A shared ceiling in place of the grant's own bound of its kind.
Converted(candidate, b) ==
  [candidate EXCEPT !.bounds = {c \in PerGrant(@) : c.kind # b.kind} \cup {Alone(b)}]

\* Mutation of WithinReach: a shared ceiling is not compared.
WithinReachOfOne(candidate, parent, rule) ==
  IF rule = Historical \/ Aggregate(candidate.bounds) = {} \/ Aggregate(parent.bounds) # {}
  THEN Narrows(candidate, parent)
  ELSE Narrows([candidate EXCEPT !.bounds = PerGrant(@)], parent)

\* `ratifier_reach_widening_axis` finds none.  A ratifier that states no
\* shared ceiling may approve one, as far as it fits its own bound.
WithinReach(candidate, parent, rule) ==
  IF rule = Historical \/ Aggregate(candidate.bounds) = {} \/ Aggregate(parent.bounds) # {}
  THEN Narrows(candidate, parent)
  ELSE /\ parent.lineage = None
       /\ Narrows([candidate EXCEPT !.bounds = PerGrant(@)], parent)
       /\ \A b \in Aggregate(candidate.bounds) :
            /\ \E d \in PerGrant(parent.bounds) : d.kind = b.kind
            /\ Narrows(Converted(candidate, b), parent)

-----------------------------------------------------------------------------
(* The checks of verify_ratification_bundle, in their order.               *)

Asks(b) == Candidate(b.entry, b.ratification.attempt)

\* `parse_ratification`.
SlipVerifies(b) == b.ratification.verifies /\ b.ratification.signer = b.ratification.ratifier_root

\* `_check_ratifier_registration`.
Enrolled(b) ==
  LET own == Roots[b.ratification.ratifier_root] IN
  own.scheme = "p256" =>
    own.registered_at # None /\ own.registered_at <= b.ratification.ratified_at

EntryBound(b) ==
  /\ EntryParses(b.entry)
  /\ b.ratification.entry = b.entry
  /\ b.ratification.entry_id = b.entry.entry_id
  /\ b.ratification.revision = b.entry.revision
  /\ b.ratification.issuer = b.entry.issuer
  /\ b.ratification.effective_at = b.entry.effective_at

CandidateBound(b) ==
  /\ b.ratification.attempt \in Nat \ {0}
  /\ b.candidate = Asks(b)
  /\ b.ratification.candidate = b.candidate

\* `_verify_ratification_contract`.
Contract(b) ==
  LET r == b.ratification IN
  /\ r.rule \in ReachRules /\ r.attenuation_known
  /\ b.leaf.nbf <= r.ratified_at /\ r.ratified_at <= b.leaf.exp
  /\ r.effective_at = Asks(b).nbf
  /\ r.nbf = Later(Asks(b).nbf, r.ratified_at)
  /\ r.exp = Earlier(Asks(b).exp, b.leaf.exp)
  /\ r.nbf <= r.exp

\* The entry and its candidate were found in the bundle and hold.
Rebuilt(b) == SlipVerifies(b) /\ EntryBound(b) /\ CandidateBound(b)

\* The ratifier's chain is walked.
Walked(b) ==
  Rebuilt(b) /\ b.leaf_verifies /\ b.leaf.chain_depth <= MaxDepth /\ Contract(b)

\* Two different keys, both known; two roots may name one key.
KeysApart(b) ==
  LET identity(name) ==
        IF name \in DOMAIN Roots THEN <<Roots[name].scheme, Roots[name].key>> ELSE None
      issued == identity(b.ratification.issuer)
      approved == identity(b.ratification.ratifier_root)
  IN issued # None /\ approved # None /\ issued # approved

\* What is bound to the ratifier's leaf once its chain is valid.
LeafBound(b) ==
  LET r == b.ratification IN
  /\ b.leaf.jti = r.ratifier_jti /\ b.leaf.sub = r.ratifier_sub
  /\ b.leaf.sub = r.ratifier_root
  /\ r.leaf = b.leaf /\ r.binds_parents
  /\ HoldsRight(b.leaf, "delegate", r.ratified_at)
  /\ WithinReach(Asks(b), b.leaf, r.rule)
  /\ Asks(b).sub # b.leaf.sub
  /\ KeysApart(b)

\* `_check_ratifier_chain`, after the walk of `call`.
ChainHolds(b) == Walked(b) /\ verdict = "valid" /\ ~DepthExceeded /\ LeafBound(b)

\* The leaf first, then its parents.
Ratifiers == <<call.leaf>> \o verified

\* Mutation of StatusesRead: each status is read on its own.
StatusesReadApart(at) ==
  {list \in [DOMAIN Ratifiers -> Revocation!Answers] :
     \A i \in DOMAIN list :
       /\ list[i].jti = Ratifiers[i].jti /\ ~list[i].is_revoked
       /\ list[i].checked_at <= at /\ at <= list[i].checked_at + SignedAge}

\* `_verify_status_evidence` and `_check_status_evidence`: a status of each
\* delegation, not after the ratification and not too long before it, and no
\* epoch below the one before.
StatusesRead(at) ==
  {list \in [DOMAIN Ratifiers -> Revocation!Answers] :
     /\ \A i \in DOMAIN list :
          /\ list[i].jti = Ratifiers[i].jti /\ ~list[i].is_revoked
          /\ list[i].checked_at <= at /\ at <= list[i].checked_at + SignedAge
     /\ ~Revocation!EpochRegression(list)}

\* `_check_grant`: none yet, or the candidate that the approved issuer signed
\* with the ratification and nothing else added.
GrantHolds(b) ==
  b.grant # None =>
    /\ b.grant.verifies
    /\ b.grant.signer = b.ratification.issuer
    /\ b.grant.claims = [Asks(b) EXCEPT !.lineage.ratification = b.ratification]

Named(name, holds) == IF holds THEN {name} ELSE {}

\* The checks that pass, with or without statuses that hold.  A check behind a
\* failed one on which it rests is not run.
Recorded(b, statusesHold) ==
  Named("trust_roots", b.roots_match)
    \cup Named("ratification", SlipVerifies(b))
    \cup Named("ratifier_registration", SlipVerifies(b) /\ Enrolled(b))
    \cup Named("entry", SlipVerifies(b) /\ EntryBound(b))
    \cup Named("candidate", Rebuilt(b))
    \cup (IF ChainHolds(b)
          THEN {"ratifier_chain"}
                 \cup Named("status_evidence", b.roots_apart /\ statusesHold)
                 \cup Named("grant", GrantHolds(b))
          ELSE {})

-----------------------------------------------------------------------------
CallOf(b) ==
  [leaf |-> b.leaf, supplied |-> b.leaf.chain_depth, version |-> "2",
   at |-> b.ratification.ratified_at]

\* A walk alone, or that of a bundle shown at the last moment of the clock.
RatInit ==
  /\ \/ bundle = None /\ Init
     \/ bundle \in Bundles /\ call = CallOf(bundle) /\ now = MaxTime /\ Init
  /\ statuses = <<>> /\ passed = None
  /\ Revocation!StoreInit

Walk ==
  /\ passed = None
  /\ bundle # None => Walked(bundle)
  /\ Next
  /\ UNCHANGED <<bundle, statuses, passed, storeVars>>

\* What the store does after the ratification can be in no status of it.
MoveStore ==
  /\ bundle # None /\ passed = None
  /\ ChainHolds(bundle)
  /\ moment <= bundle.ratification.ratified_at
  /\ Revocation!StoreNext
  /\ UNCHANGED <<vars, bundle, statuses, passed>>

\* Statuses that hold, if the chain does.
Accept ==
  /\ bundle # None /\ passed = None
  /\ ChainHolds(bundle)
  /\ \E list \in StatusesRead(bundle.ratification.ratified_at) : statuses' = list
  /\ passed' = Recorded(bundle, TRUE)
  /\ UNCHANGED <<vars, bundle, storeVars>>

\* A status that is missing, malformed or does not hold; or no status is read.
Refuse ==
  /\ bundle # None /\ passed = None
  /\ ~Walked(bundle) \/ verdict \in {"valid", "refused"}
  /\ passed' = Recorded(bundle, FALSE)
  /\ UNCHANGED <<vars, bundle, statuses, storeVars>>

RatNext == Walk \/ MoveStore \/ Accept \/ Refuse

RatSpec == RatInit /\ [][RatNext]_ratVars

-----------------------------------------------------------------------------
(* Properties.                                                             *)

Ratified == bundle # None /\ passed = CheckNames

\* Nobody approves more than it holds, and nobody above it held less: what a
\* ratified grant allows, at any time and on every axis, the ratifier and all
\* its ancestors allow.  All grants of one entry together draw on its shared
\* ceiling, so that is no higher than each of their own accounts either.
GrantWithinRatifier ==
  Ratified =>
    \A p \in Parents \cup {call.leaf}, r \in Requests :
      /\ Allows(Asks(bundle), r) => Allows(p, r)
      /\ \A d \in Charged(p, r.action, r.boundary), b \in Aggregate(Asks(bundle).bounds) :
           b.kind = d.kind =>
             /\ BoundApplies(b, r.action, r.boundary)
             /\ b.unit = d.unit /\ b.window = d.window
             /\ b.amount_scaled =< d.amount_scaled

\* A ratified grant is no authority to ratify with, nor is anything delegated
\* from one: no delegation of a ratifier's chain goes back to an entry.  The
\* code compares lineages of neighbours only.
RatifierNotRatified ==
  Ratified => \A p \in Parents \cup {call.leaf} : p.lineage = None

\* The ratifier's chain was clear as a whole at one moment, that of its first
\* status and recent at the ratification, in a store that counts its changes
\* and did not count one number twice.  Its statuses are read one after
\* another from a store that revokes and may be restored in between.
RatifierClearAtOneMoment ==
  Ratified /\ ~Revocation!Recounted /\ (DOMAIN statuses = Revocation!Counted(statuses)) =>
    \E h \in history :
      /\ h.at = statuses[1].checked_at
      /\ h.at \in bundle.ratification.ratified_at - SignedAge .. bundle.ratification.ratified_at
      /\ \A i \in DOMAIN Ratifiers : Ratifiers[i].jti \notin h.store.revoked
=============================================================================
