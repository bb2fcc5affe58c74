--------------------------- MODULE DelegationChain --------------------------
(***************************************************************************)
(* The walk of tokens.py from a leaf delegation to its root, one parent    *)
(* token per step, under the rule version the caller selects.  The tokens  *)
(* a call supplies are chosen when they are read.  Without an evaluation   *)
(* time the code reads the clock again at every hop, so time may pass      *)
(* between two hops.                                                       *)
(***************************************************************************)
EXTENDS Attenuation, Sequences

CONSTANTS
  Slips,         \* the delegations whose signature verifies under the roots
  MaxDepth,      \* MAX_VERIFICATION_CHAIN_DEPTH
  MaxSupplied,   \* bound on the parent tokens of a call
  Versions,      \* the rule versions a receipt may name
  MaxTime,       \* bound on the clock
  Requests       \* what one may ask a delegation to allow

ASSUME ChainAssumption ==
  /\ \A s \in Slips : WellFormed(s)
  /\ MaxDepth \in Nat /\ MaxSupplied \in Nat /\ MaxTime \in Nat
  /\ None \notin Nat
  /\ None \notin Slips
  /\ \A r \in Requests : r.at \in Int /\ r.amount \in Int
                         /\ r.approvals \in Int /\ r.status_age \in Int

VARIABLES
  call,       \* the arguments: leaf, number of parents, rule, evaluation time
  called,     \* the clock when the call was made (history)
  now,        \* the clock
  current,    \* the claims whose parent is read next
  verified,   \* verified_parents, nearest first
  verdict     \* "called", "walking", "valid", "refused" or "unsupported"

vars == <<call, called, now, current, verified, verdict>>

Times == 0 .. MaxTime
Calls == [leaf : Slips, supplied : 0 .. MaxSupplied, version : Versions \cup {None},
          at : Times \cup {None}]

Init ==
  /\ call \in Calls
  /\ now \in Times
  /\ called = now
  /\ current = call.leaf
  /\ verified = <<>>
  /\ verdict = "called"

-----------------------------------------------------------------------------
\* A receipt from before the key existed was decided under version 1.
RuleVersion == IF call.version = None THEN "1" ELSE call.version

Supported == RuleVersion \in {"1", "2"}

CheckTime == IF call.at = None THEN now ELSE call.at

IsRoot(slip) == slip.parent_jti = None /\ slip.chain_depth = 0

\* Mutation of HoldsDelegate: the legacy rule decides every call.
NamesDelegate(parent) == "delegate" \in parent.scope_actions

HoldsDelegate(parent) ==
  IF RuleVersion = "1"
  THEN "delegate" \in parent.scope_actions
  ELSE HoldsRight(parent, "delegate", CheckTime)

\* The parent is in its window, is the one named, and sits one level above.
AncestryHolds(parent) ==
  /\ parent.nbf =< CheckTime /\ CheckTime =< parent.exp
  /\ current.parent_jti = parent.jti
  /\ parent.chain_depth = current.chain_depth - 1

DepthExceeded == call.leaf.chain_depth > call.leaf.max_depth

-----------------------------------------------------------------------------
Return(v) == verdict' = v /\ UNCHANGED <<call, called, now, current, verified>>

\* replay_delegation_chain runs no rule it does not know.
RefuseVersion ==
  /\ verdict = "called"
  /\ ~Supported
  /\ Return("unsupported")

\* Limits, and the count of tokens, before the first token is read.
CountHolds ==
  /\ call.leaf.chain_depth =< MaxDepth
  /\ call.supplied =< MaxDepth
  /\ IF call.supplied = 0 THEN IsRoot(call.leaf)
     ELSE call.supplied = call.leaf.chain_depth

RefuseCount ==
  /\ verdict = "called"
  /\ Supported
  /\ ~CountHolds
  /\ Return("refused")

AcceptRoot ==
  /\ verdict = "called"
  /\ Supported
  /\ CountHolds
  /\ call.supplied = 0
  /\ Return("valid")

Start ==
  /\ verdict = "called"
  /\ Supported
  /\ CountHolds
  /\ call.supplied # 0
  /\ Return("walking")

-----------------------------------------------------------------------------
\* The child names a parent and a token is left.
ReadsOn == verdict = "walking" /\ Len(verified) < call.supplied /\ current.parent_jti # None

\* The verified tokens that continue the chain, those that also hold the
\* child's scope, and those that may delegate as well.
Linked     == {p \in Slips : AncestryHolds(p)}
Wider      == {p \in Linked : Narrows(current, p)}
Delegators == {p \in Wider : HoldsDelegate(p)}

\* The child declares a root although more tokens follow.
RefuseBeyondRoot ==
  /\ verdict = "walking"
  /\ Len(verified) < call.supplied
  /\ current.parent_jti = None
  /\ Return("refused")

\* A refusal after the parent was added to the result.
RefuseParent(parent) ==
  /\ verified' = Append(verified, parent)
  /\ verdict' = "refused"
  /\ UNCHANGED <<call, called, now, current>>

\* A token that does not parse or verify.
RefuseToken == ReadsOn /\ Return("refused")

RefuseAncestry == ReadsOn /\ Slips \ Linked # {} /\ Return("refused")

RefuseWidening == ReadsOn /\ \E parent \in Linked \ Wider : RefuseParent(parent)

\* The caller's parent_status_check (external) may refuse any parent.
RefuseStatus == ReadsOn /\ \E parent \in Wider : RefuseParent(parent)

RefuseDelegate == ReadsOn /\ \E parent \in Wider \ Delegators : RefuseParent(parent)

Hop ==
  /\ ReadsOn
  /\ \E parent \in Delegators :
       /\ verified' = Append(verified, parent)
       /\ current' = parent
  /\ UNCHANGED <<call, called, now, verdict>>

Finish ==
  /\ verdict = "walking"
  /\ Len(verified) = call.supplied
  /\ Return(IF IsRoot(current) THEN "valid" ELSE "refused")

\* Time passes while the call runs.
Tick ==
  /\ verdict \in {"called", "walking"}
  /\ now < MaxTime
  /\ now' = now + 1
  /\ UNCHANGED <<call, called, current, verified, verdict>>

Next ==
  \/ RefuseVersion \/ RefuseCount \/ AcceptRoot \/ Start
  \/ RefuseBeyondRoot \/ RefuseToken \/ RefuseAncestry
  \/ RefuseWidening \/ RefuseStatus \/ RefuseDelegate
  \/ Hop
  \/ Finish
  \/ Tick

Spec == Init /\ [][Next]_vars

-----------------------------------------------------------------------------
(* Properties.                                                             *)

Parents == {verified[i] : i \in 1 .. Len(verified)}

\* Types of the walk's state.
TypeOK ==
  /\ call \in Calls
  /\ called \in Times /\ now \in Times
  /\ current \in Slips
  /\ verified \in Seq(Slips)
  /\ verdict \in {"called", "walking", "valid", "refused", "unsupported"}

\* Authority does not grow over a valid chain: whatever the leaf allows, at
\* any time and on every axis, each of its ancestors allows too.  The code
\* compares neighbours only, axis by axis.
ChainNarrows ==
  verdict = "valid" =>
    \A p \in Parents, r \in Requests : Allows(call.leaf, r) => Allows(p, r)

\* All parents are in their window and may delegate.
HeldTogether(t) ==
  \A p \in Parents :
    /\ p.nbf =< t /\ t =< p.exp
    /\ HoldsRight(p, "delegate", t)

\* A moment of the call.
InMoment(t) == IF call.at = None THEN called =< t /\ t =< now ELSE t = call.at

\* Under the current rule, all parents of a valid chain were in their window
\* and held the right to delegate at one and the same moment of the call, even
\* when the clock was read anew at each hop.
DelegatedAtOneMoment ==
  verdict = "valid" /\ RuleVersion = "2" =>
    \E t \in Times : InMoment(t) /\ HeldTogether(t)

\* The code compares the depth of the leaf with its own max_depth only.  No
\* grant of the chain is delegated further down than it permits.
DepthWithinEveryGrant ==
  verdict = "valid" /\ ~DepthExceeded =>
    \A p \in Parents : call.leaf.chain_depth =< p.max_depth

\* required_account_bounds on a valid chain never meets two ceilings for one
\* shared account; and an account that an ancestor states is restated by the
\* leaf with the same period and no higher ceiling.
AccountsInherited ==
  verdict = "valid" =>
    \A p \in Parents \cup {call.leaf}, r \in Requests :
      /\ \A q \in Parents \cup {call.leaf} : ~Contradictory(p, q, r.action, r.boundary)
      /\ \A d \in Charged(p, r.action, r.boundary) :
           \E b \in Charged(call.leaf, r.action, r.boundary) :
             /\ b.kind = d.kind /\ b.unit = d.unit
             /\ b.aggregation = d.aggregation /\ b.window = d.window
             /\ b.amount_scaled =< d.amount_scaled

-----------------------------------------------------------------------------
(* The inductive invariant of the walk.                                    *)

ChainInv ==
  /\ called =< now
  /\ verdict \in {"called", "walking", "valid"} =>
       /\ IF verified = <<>> THEN current = call.leaf ELSE current \in Parents
       /\ \A p \in Parents : Narrows(call.leaf, p)
       /\ RuleVersion = "2" /\ verified # <<>> =>
            \E t \in Times : InMoment(t) /\ HeldTogether(t)
=============================================================================
