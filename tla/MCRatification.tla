--------------------------- MODULE MCRatification ---------------------------
(* A small instance of Ratification: one body per axis of the rule, each at  *)
(* the three places of a chain, headers that do not fit, and the bundles of  *)
(* entries that ask for different grants, some with one part that fails.     *)
EXTENDS Ratification, TLC

CONSTANTS j0, j1, j2,            \* identifiers of delegations
          root, src, refs,       \* paths
          web, mail,             \* domains
          cat, grep,             \* tools
          setA, setB,            \* named sets and signer sets
          pointA, pointB,        \* enforcement points
          week, day,             \* periods of bounds
          entryA, entryB,        \* lineages
          holder, agent,         \* subjects
          issuer, alias, late, keyH, keyI, keyL    \* trust roots and their keys

\* src and refs lie below root; root is written in one way only.
MCWithin == {<<root, root>>, <<src, src>>, <<refs, refs>>, <<src, root>>, <<refs, root>>}

Cap(actions, nbf, exp) == [actions |-> actions, nbf |-> nbf, exp |-> exp]

Bound(amount, window, aggregation, actions) ==
  [kind |-> "money", unit |-> "cent", amount_scaled |-> amount, window |-> window,
   aggregation |-> aggregation, actions |-> actions, boundaries |-> None]

Lineage(entry) == [entry |-> entry, ratification |-> entryB]

-----------------------------------------------------------------------------
\* An entry for one action of the agent, and entries that differ from it.
Entry ==
  [entry_id |-> entryA, revision |-> 1, previous |-> None, issuer |-> issuer,
   subject |-> agent, action |-> "send", domain |-> web, scope_paths |-> {src},
   bound |-> Bound(1, week, None, None), aggregate_bound |-> None, nbf |-> 0, exp |-> 2,
   max_depth |-> 0, effective_at |-> 0, onward_delegation |-> FALSE,
   enforcement_points |-> None]

Onward == [Entry EXCEPT !.onward_delegation = TRUE, !.max_depth = 1]
Shared(amount) == [Entry EXCEPT !.aggregate_bound = Bound(amount, week, "entry", {"send"})]

Entries ==
  {Entry, Onward, Shared(1), Shared(2), Shared(3),
   [Shared(1) EXCEPT !.aggregate_bound.window = day],
   [Entry EXCEPT !.bound.amount_scaled = 2, !.bound.actions = {"send"}],
   [Entry EXCEPT !.bound.window = None],
   [Entry EXCEPT !.action = "delegate", !.max_depth = 2],
   [Entry EXCEPT !.effective_at = 1], [Entry EXCEPT !.nbf = 1, !.exp = 3],
   [Entry EXCEPT !.scope_paths = {root}, !.domain = mail],
   [Entry EXCEPT !.enforcement_points = {pointB}],
   [Entry EXCEPT !.subject = holder],
   [Entry EXCEPT !.max_depth = 1]}

-----------------------------------------------------------------------------

Full ==
  [jti |-> j0, sub |-> holder, parent_jti |-> None, chain_depth |-> 0, max_depth |-> 2,
   scope_actions |-> {"send", "delegate"}, scope_paths |-> {root},
   nbf |-> 0, exp |-> 2, capabilities |-> {},
   scope_tools |-> {}, scope_domains |-> {web, mail},
   named_set_ref |-> None, bounds |-> {}, approval_quorum |-> None,
   lineage |-> None, aud |-> None, max_revocation_age_ms |-> None]

\* What sets a delegation apart, one axis or two at a time.
Bodies ==
  {Full,
   [Full EXCEPT !.scope_actions = {"delegate"}],
   [Full EXCEPT !.exp = 1],
   [Full EXCEPT !.capabilities = {Cap({"delegate"}, 0, 1), Cap({"send"}, 0, 2)}],
   [Full EXCEPT !.capabilities = {Cap({"delegate"}, 1, 2), Cap({"send"}, 2, 2)}],
   [Full EXCEPT !.capabilities = {Cap({"send"}, 1, 2)}],
   [Full EXCEPT !.scope_paths = {src}],
   [Full EXCEPT !.scope_paths = {src, refs}, !.scope_tools = {cat}],
   [Full EXCEPT !.scope_tools = {cat, grep}, !.scope_domains = {web}],
   [Full EXCEPT !.named_set_ref = setA, !.aud = {pointA, pointB}],
   [Full EXCEPT !.named_set_ref = setB, !.aud = {pointB}],
   [Full EXCEPT !.max_revocation_age_ms = 1],
   [Full EXCEPT !.max_revocation_age_ms = 2, !.max_depth = 1],
   [Full EXCEPT !.approval_quorum = [signers |-> setA, threshold |-> 1]],
   [Full EXCEPT !.approval_quorum = [signers |-> setA, threshold |-> 2], !.max_depth = 0],
   [Full EXCEPT !.bounds = {Bound(2, None, None, None)}],
   [Full EXCEPT !.bounds = {Bound(2, week, None, {"send"})}],
   [Full EXCEPT !.bounds = {Bound(1, week, None, None)}],
   [Full EXCEPT !.bounds = {Bound(1, day, None, {"send"})}],
   [Full EXCEPT !.lineage = Lineage(entryA), !.bounds = {Bound(2, week, "entry", None)}],
   [Full EXCEPT !.lineage = Lineage(entryA),
                !.bounds = {Bound(2, week, "entry", None), Bound(1, week, None, None)}],
   [Full EXCEPT !.lineage = Lineage(entryA), !.bounds = {Bound(1, week, "entry", None)}],
   [Full EXCEPT !.lineage = Lineage(Entry)]}

At(body, jti, parent, depth) ==
  [body EXCEPT !.jti = jti, !.parent_jti = parent, !.chain_depth = depth]

\* Headers that break the chain: a child of nobody, of another, of the leaf,
\* too deep, at a wrong level, and a root with a parent; and a root held by
\* somebody enrolled late.
Misfits ==
  {At(Full, j1, None, 1), At(Full, j1, j2, 1), At(Full, j2, j1, 3),
   At(Full, j1, j0, 0), At(Full, j0, j1, 0), [Full EXCEPT !.sub = late]}

MCSlips ==
  {At(b, j0, None, 0) : b \in Bodies} \cup {At(b, j1, j0, 1) : b \in Bodies}
    \cup {At(b, j2, j1, 2) : b \in Bodies} \cup Misfits

-----------------------------------------------------------------------------
MCRoots ==
  (holder :> [key |-> keyH, scheme |-> "p256", registered_at |-> 0])
    @@ (late :> [key |-> keyL, scheme |-> "p256", registered_at |-> 1])
    @@ (alias :> [key |-> keyH, scheme |-> "p256", registered_at |-> 0])
    @@ (issuer :> [key |-> keyI, scheme |-> "ed25519", registered_at |-> None])

\* The grant that an issuer signs of a ratified candidate.
Issued(b) ==
  [b EXCEPT !.grant = [verifies |-> TRUE, signer |-> issuer,
     claims |-> [b.candidate EXCEPT !.lineage.ratification = b.ratification]]]

\* A ratification of entry e, at a moment, by the holder of a delegation.
Ratify(e, leaf, at, rule) ==
  LET c == Candidate(e, 1) IN
  [roots_match |-> TRUE, roots_apart |-> TRUE, entry |-> e, candidate |-> c,
   leaf |-> leaf, leaf_verifies |-> TRUE, grant |-> None,
   ratification |->
     [verifies |-> TRUE, signer |-> leaf.sub, ratifier_root |-> leaf.sub,
      ratifier_jti |-> leaf.jti, ratifier_sub |-> leaf.sub, leaf |-> leaf,
      binds_parents |-> TRUE, entry |-> e, entry_id |-> e.entry_id, revision |-> e.revision,
      attempt |-> 1, candidate |-> c, issuer |-> e.issuer, rule |-> rule,
      attenuation_known |-> TRUE, ratified_at |-> at, effective_at |-> c.nbf,
      nbf |-> Later(c.nbf, at), exp |-> Earlier(c.exp, leaf.exp)]]

Leaf == At([Full EXCEPT !.scope_paths = {src}], j2, j1, 2)
Base == Issued(Ratify(Entry, Leaf, 2, "ratifier_reach/2"))

\* Bundles in which one part does not hold.
Broken ==
  {[Base EXCEPT !.roots_match = FALSE], [Base EXCEPT !.roots_apart = FALSE],
   [Base EXCEPT !.ratification.signer = issuer], [Base EXCEPT !.entry.exp = 1], [Base EXCEPT !.candidate.exp = 1],
   [Base EXCEPT !.leaf_verifies = FALSE], [Base EXCEPT !.ratification.nbf = 0],
   [Base EXCEPT !.ratification.binds_parents = FALSE],
   [Base EXCEPT !.grant.signer = alias], [Base EXCEPT !.grant.claims.exp = 1],
   Ratify([Entry EXCEPT !.issuer = alias], Leaf, 1, "ratifier_reach/2"),
   Ratify(Entry, Leaf, 1, "ratifier_reach/1")}

MCBundles ==
  {Ratify(e, leaf, 0, "ratifier_reach/2") : e \in Entries,
     leaf \in {At(b, j0, None, 0) : b \in Bodies} \cup Misfits}
    \cup {Ratify(e, leaf, 0, "ratifier_reach/2") : e \in {Entry, Shared(1), Shared(2)},
             leaf \in {At(b, j1, j0, 1) : b \in Bodies} \cup {Leaf}}
    \cup {Ratify(e, leaf, 1, Historical) : e \in {Entry, Shared(1)},
             leaf \in {At(b, j0, None, 0) : b \in Bodies}}
    \cup {Base} \cup Broken

-----------------------------------------------------------------------------
Plain ==
  [action |-> "send", at |-> 1, path |-> src, domain |-> web, tool |-> cat,
   boundary |-> web, kind |-> "money", unit |-> "cent", amount |-> 1, set |-> setA,
   signers |-> setA, approvals |-> 1, point |-> pointA, status_age |-> 1]

\* A plain request, and requests that differ from it on one axis.
MCRequests ==
  {Plain, [Plain EXCEPT !.action = "delegate"], [Plain EXCEPT !.at = 0],
   [Plain EXCEPT !.at = 2], [Plain EXCEPT !.path = refs], [Plain EXCEPT !.path = root],
   [Plain EXCEPT !.domain = mail], [Plain EXCEPT !.tool = grep],
   [Plain EXCEPT !.amount = 2], [Plain EXCEPT !.amount = 3],
   [Plain EXCEPT !.set = setB], [Plain EXCEPT !.signers = setB],
   [Plain EXCEPT !.approvals = 2], [Plain EXCEPT !.point = pointB],
   [Plain EXCEPT !.status_age = 2], [Plain EXCEPT !.status_age = 3],
   [Plain EXCEPT !.action = "delegate", !.amount = 2]}
=============================================================================
