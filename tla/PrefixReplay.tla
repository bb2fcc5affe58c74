---------------------------- MODULE PrefixReplay ----------------------------
(***************************************************************************)
(* The replay of a canonical evidence prefix, `_replay_prefix` of          *)
(* execution_evidence.py: the verifier reads the records of a ledger in    *)
(* order, keeps the accounting and lifecycle state they imply, and refuses *)
(* the whole prefix at the first record that does not fit.                 *)
(*                                                                         *)
(* The environment is whoever wrote the ledger: any record may come next,  *)
(* and record times need not grow with record order.  A state with         *)
(* verdict = "reading" is what the code has computed when the bundle ends  *)
(* here, so a property of these states is a property of every accepted     *)
(* bundle.                                                                 *)
(*                                                                         *)
(* Records are read online, so whatever the state retains comes from an     *)
(* earlier record and no sequence numbers are needed: a decision is named  *)
(* by its operation (an accepted prefix has one per operation), an intent  *)
(* by what it joins, an authentication by the proof it consumed and when.  *)
(* The state space is finite without a bound on the length of the prefix.  *)
(* Signatures are external: a piece of evidence in the input sets is one   *)
(* that verifies, and a record whose evidence does not verify, or whose    *)
(* wire shape is wrong, is one of those Fail reads.                        *)
(***************************************************************************)
EXTENDS Integers, FiniteSets

CONSTANTS
  Ops,               \* operation identifiers
  NativeOps,         \* those whose descriptor names the registered point
  Foreign,           \* (counterparty point, A operation id) identities
  Proofs,            \* actor proofs: [id, from, until]
  ForeignDispatches, \* raw A dispatches: [id, from, until, identity]
  Approvals,         \* approval tokens: [id, from, until]
  Ids,               \* consumed (namespace, identifier) pairs
  Times,             \* values of evaluated_at
  Keys,              \* account keys: grant or entry, kind, unit, window
  Reservations,      \* reservation identifiers
  Amounts, Ceilings, \* scaled amounts and signed ceilings
  Variants,          \* distinct dispatches one operation could be given
  Bodies,            \* frozen counterparty request bodies
  LegacyDecisions,   \* decisions without consumption evidence
  Intents,           \* bound: the consequence intents the writer may record
  Tokens,            \* bound: the dispatch tokens it may record
  Kinds,             \* bound: the authentications it may record
  None               \* absent

Evidence == [id : Ids, from : Int, until : Int]

ASSUME ReplayAssumption ==
  /\ NativeOps \subseteq Ops
  /\ Proofs \subseteq Evidence /\ Approvals \subseteq Evidence
  /\ ForeignDispatches \subseteq
       [id : Ids, from : Int, until : Int, identity : Foreign]
  /\ Times \subseteq Nat \ {0}
  /\ Amounts \subseteq Nat /\ Ceilings \subseteq Nat
  /\ Ops \cap LegacyDecisions = {}
  /\ Intents \subseteq [op : Ops, decision : Ops \cup LegacyDecisions]
  /\ Tokens \subseteq {"absent", "forged", "genuine"}
  /\ Kinds \subseteq {"retry", "reconciliation", "delegation_issuance",
                     "counterparty_resume"}
  /\ None \notin Ops \cup Foreign \cup Keys \cup Bodies \cup Ceilings
  /\ None \notin [op : Ops, variant : Variants]
  /\ None \notin [dispatch : [op : Ops, variant : Variants],
                 status : {"committed", "not_executed", "unknown"}]

Dispatches == [op : Ops, variant : Variants]

\* A signed B terminal over the dispatch fields it joins.
Outcomes == [dispatch : Dispatches,
             status : {"committed", "not_executed", "unknown"}]

Accounts == [reservation : Reservations, amount : Amounts, ceiling : Ceilings]

\* The accounts of one decision, by key, with distinct reservation ids.
AccountLists ==
  {list \in UNION {[D -> Accounts] : D \in SUBSET Keys} :
     \A j, k \in DOMAIN list :
       list[j].reservation = list[k].reservation => j = k}

OperationStates ==
  {"none", "authorized", "refused", "fenced", "pending", "committed", "released"}

NoReservation == [key |-> None, amount |-> 0, owner |-> None, state |-> "none"]
NoFence == [claims |-> None, token |-> "absent"]

VARIABLES
  verdict,                \* "reading", or "failed" once a record is refused
  operation_states,       \* "none" until the operation's decision is read
  intents,                \* consequence intents read so far
  legacy,                 \* legacy decisions read so far
  fences, pending, recovered,
  resume_authentications, reconciliation_authentications,
  foreign_authorizations, foreign_fences, foreign_cancellations,
  consumed_resume_authentication_hashes,
  consumed_recovery_authentication_hashes,
  reservations, operation_reservations, charged,
  consumed                \* identifier -> expiry, 0 if never consumed

\* History variables: what the evidence says, whatever the replay keeps of it.
VARIABLES
  uses,                   \* every accepted use of a single-use identifier
  resumes,                \* operation -> number of accepted resumes
  settled                 \* operation -> terminal receipt it settled on

counterpartyVars ==
  <<pending, recovered, resume_authentications, reconciliation_authentications,
    consumed_resume_authentication_hashes,
    consumed_recovery_authentication_hashes>>
foreignVars == <<foreign_authorizations, foreign_fences, foreign_cancellations>>
accountVars == <<reservations, operation_reservations, charged>>
intentVars == <<intents, legacy>>
identifierVars == <<consumed, uses>>
historyVars == <<resumes, settled>>
vars == <<verdict, operation_states, fences, counterpartyVars, foreignVars,
          accountVars, intentVars, identifierVars, historyVars>>

Init ==
  /\ verdict = "reading"
  /\ operation_states = [o \in Ops |-> "none"]
  /\ intents = {} /\ legacy = {}
  /\ fences = [o \in Ops |-> NoFence]
  /\ pending = [o \in Ops |-> None]
  /\ recovered = [o \in Ops |-> None]
  /\ resume_authentications = {} /\ reconciliation_authentications = {}
  /\ foreign_authorizations = [o \in Ops |-> None]
  /\ foreign_fences = {} /\ foreign_cancellations = {}
  /\ consumed_resume_authentication_hashes = {}
  /\ consumed_recovery_authentication_hashes = {}
  /\ reservations = [r \in Reservations |-> NoReservation]
  /\ operation_reservations = [o \in Ops |-> {}]
  /\ charged = [k \in Keys |-> [used |-> 0, ceiling |-> None]]
  /\ consumed = [i \in Ids |-> 0]
  /\ uses = {}
  /\ resumes = [o \in Ops |-> 0]
  /\ settled = [o \in Ops |-> None]

\* The next record is read and none of its checks raises.
ReadRecord == verdict = "reading" /\ UNCHANGED verdict
-----------------------------------------------------------------------------
(* Single-use identifiers.  The identifiers a record declares must be      *)
(* exactly those its verified evidence carries, each until the evidence    *)
(* itself would no longer verify.                                          *)

\* Evidence verifies at a time of its closed validity interval.
Live(e, t) == e.from <= t /\ t <= e.until

\* Mutation of Unexpired: an identifier is free again at its expiry.
UnexpiredBefore(i, t) == consumed[i] # 0 /\ t < consumed[i]

\* A consumed identifier cannot be used again up to and at its expiry.
Unexpired(i, t) == consumed[i] # 0 /\ t <= consumed[i]

\* A record repeats no identifier, and none may be unexpired.
MayConsume(es, t) ==
  /\ \A e \in es : Live(e, t) /\ ~Unexpired(e.id, t)
  /\ \A e, f \in es : e.id = f.id => e = f

\* consumed[key] is overwritten with the new expiry.
Expiries(es) ==
  [i \in Ids |-> IF \E e \in es : e.id = i
                 THEN (CHOOSE e \in es : e.id = i).until
                 ELSE consumed[i]]

Consume(es, t) ==
  /\ MayConsume(es, t)
  /\ consumed' = Expiries(es)
  /\ uses' = uses \cup
       {[id |-> e.id, at |-> t, until |-> e.until] : e \in es}
-----------------------------------------------------------------------------
(* Accounts: every reservation debits one key whose ceiling is signed.     *)

\* Mutations of MayReserve: what is already used is forgotten, a reservation
\* may be repeated, a ceiling may change.
MayReserveAfresh(list) ==
  \A k \in DOMAIN list :
    /\ reservations[list[k].reservation] = NoReservation
    /\ charged[k].ceiling \in {None, list[k].ceiling}
    /\ list[k].amount <= list[k].ceiling
MayReserveTwice(list) ==
  \A k \in DOMAIN list :
    /\ charged[k].ceiling \in {None, list[k].ceiling}
    /\ list[k].amount <= list[k].ceiling - charged[k].used
MayReserveAtAnyCeiling(list) ==
  \A k \in DOMAIN list :
    /\ reservations[list[k].reservation] = NoReservation
    /\ list[k].amount <= list[k].ceiling - charged[k].used

\* The loop over the decision's accounts raises for none of them.
MayReserve(list) ==
  \A k \in DOMAIN list :
    /\ reservations[list[k].reservation] = NoReservation
    /\ charged[k].ceiling \in {None, list[k].ceiling}
    /\ list[k].amount <= list[k].ceiling - charged[k].used

Reserve(op, list) ==
  /\ MayReserve(list)
  /\ charged' =
       [k \in Keys |->
          IF k \in DOMAIN list
          THEN [used |-> charged[k].used + list[k].amount,
                ceiling |-> list[k].ceiling]
          ELSE charged[k]]
  /\ reservations' =
       [r \in Reservations |->
          IF \E k \in DOMAIN list : list[k].reservation = r
          THEN LET k == CHOOSE j \in DOMAIN list : list[j].reservation = r
               IN  [key |-> k, amount |-> list[k].amount, owner |-> op,
                    state |-> "authorized"]
          ELSE reservations[r]]
  /\ operation_reservations' =
       [operation_reservations EXCEPT ![op] =
          @ \cup {list[k].reservation : k \in DOMAIN list}]

\* The operation's reservations move to a new state.
MoveReservations(rs, state) ==
  reservations' =
    [r \in Reservations |->
       IF r \in rs THEN [reservations[r] EXCEPT !.state = state]
                   ELSE reservations[r]]

\* Mutation of Relevant: a settlement closes fenced reservations only.
RelevantFenced(op) ==
  {r \in operation_reservations[op] : reservations[r].state = "fenced"}

\* Reservations of an operation a settlement still has to close.
Relevant(op) ==
  {r \in operation_reservations[op] :
     reservations[r].state \in {"authorized", "fenced"}}

\* What an operation's open reservations charge to a key.
Held(op, k) ==
  IF \E r \in Relevant(op) : reservations[r].key = k
  THEN reservations[CHOOSE r \in Relevant(op) : reservations[r].key = k].amount
  ELSE 0

ReleaseReservations(op) ==
  /\ charged' =
       [k \in Keys |-> [charged[k] EXCEPT !.used = @ - Held(op, k)]]
  /\ MoveReservations(Relevant(op), "released")
  /\ UNCHANGED operation_reservations
-----------------------------------------------------------------------------
(* Decisions and intents.                                                  *)

\* A decision without consumption evidence is tolerated while nothing
\* consequential hangs on it: it allows nothing and no intent names it.
LegacyDecision(d) ==
  /\ ReadRecord
  /\ ~\E i \in intents : i.decision = d
  /\ legacy' = legacy \cup {d}
  /\ UNCHANGED <<operation_states, fences, counterpartyVars, foreignVars,
                 accountVars, intents, identifierVars, historyVars>>

\* An intent may name any decision, read already or not, whatever operation
\* it retains; naming a legacy decision makes the prefix unsupported.
ConsequenceIntent(i) ==
  /\ ReadRecord
  /\ i.decision \notin legacy
  /\ intents' = intents \cup {i}
  /\ UNCHANGED <<operation_states, fences, counterpartyVars, foreignVars,
                 accountVars, legacy, identifierVars, historyVars>>

NewOperation(op, state) ==
  /\ operation_states[op] = "none"
  /\ operation_states' = [operation_states EXCEPT ![op] = state]

\* A refused decision carries no identifiers and no accounts.
Refuse(op) ==
  /\ ReadRecord
  /\ NewOperation(op, "refused")
  /\ UNCHANGED <<fences, counterpartyVars, foreignVars, accountVars,
                 intentVars, identifierVars, historyVars>>

\* An authorization on the holder's proof, with the approvals it retains.
AuthorizeNative(op, t, proof, approvals, list) ==
  /\ ReadRecord
  /\ NewOperation(op, "authorized")
  /\ Consume({proof} \cup approvals, t)
  /\ Reserve(op, list)
  /\ UNCHANGED <<fences, counterpartyVars, foreignVars, intentVars, historyVars>>

\* An authorization on a counterparty's dispatch: the dispatch takes the
\* proof's place, and its identity must not have been cancelled.
AuthorizeForeign(op, t, dispatch, approvals, list) ==
  /\ ReadRecord
  /\ NewOperation(op, "authorized")
  /\ dispatch.identity \notin foreign_cancellations
  /\ foreign_authorizations' =
       [foreign_authorizations EXCEPT ![op] = dispatch.identity]
  /\ Consume({dispatch} \cup approvals, t)
  /\ Reserve(op, list)
  /\ UNCHANGED <<fences, counterpartyVars, foreign_fences,
                 foreign_cancellations, intentVars, historyVars>>
-----------------------------------------------------------------------------
(* Authentications and cancellations.                                      *)

\* Only two kinds of authentication are kept for later joins.
RecordAuthentication(kind, auth) ==
  /\ resume_authentications' =
       resume_authentications \cup
         (IF kind = "counterparty_resume" THEN {auth} ELSE {})
  /\ reconciliation_authentications' =
       reconciliation_authentications \cup
         (IF kind = "reconciliation" THEN {auth} ELSE {})

\* A fresh holder proof for a later request about a known operation, or, for
\* delegation_issuance, about none; a resume request binds the acknowledgment
\* of the body it resumes.
AuthenticationSubject(kind, op, body) ==
  /\ IF kind = "delegation_issuance" THEN op = None
                                     ELSE op # None /\ operation_states[op] # "none"
  /\ body # None <=> kind = "counterparty_resume"

Authentication(kind, op, t, proof, body) ==
  /\ ReadRecord
  /\ AuthenticationSubject(kind, op, body)
  /\ Consume({proof}, t)
  /\ RecordAuthentication(
       kind, [id |-> proof.id, at |-> t, op |-> op, body |-> body])
  /\ UNCHANGED <<operation_states, fences, pending, recovered,
                 consumed_resume_authentication_hashes,
                 consumed_recovery_authentication_hashes, foreignVars,
                 accountVars, intentVars, historyVars>>

CancellationAllowed(identity) ==
  /\ identity \notin foreign_cancellations
  /\ identity \notin foreign_fences

CounterpartyCancelled(identity) ==
  /\ ReadRecord
  /\ CancellationAllowed(identity)
  /\ foreign_cancellations' = foreign_cancellations \cup {identity}
  /\ UNCHANGED <<operation_states, fences, counterpartyVars,
                 foreign_authorizations, foreign_fences, accountVars,
                 intentVars, identifierVars, historyVars>>
-----------------------------------------------------------------------------
(* Lifecycle events.  Each retains the operation and the hash of its       *)
(* decision, so an accepted one belongs to the decision read for op.       *)

JoinedIntent(op, i) == i.op = op /\ i.decision = op

\* Mutation of FenceJoins: the token's claims are not compared.
FenceJoinsAny(op, claims, token) == TRUE

\* The dispatch a fence records: its claims, and a token that is absent,
\* forged or genuine.  The replay checks the token's claims against the
\* operation, never its signature.
FenceJoins(op, claims, token) == token # "absent" => claims.op = op

\* Mutation of ForeignFenceAllowed: the fence does not look at cancellations.
ForeignFenceUnchecked(op) == TRUE

ForeignFenceAllowed(op) ==
  foreign_authorizations[op] # None =>
    foreign_authorizations[op] \notin foreign_cancellations

DispatchFenced(op, i, claims, token) ==
  /\ ReadRecord
  /\ JoinedIntent(op, i)
  /\ FenceJoins(op, claims, token)
  /\ ForeignFenceAllowed(op)
  /\ foreign_fences' =
       foreign_fences \cup ({foreign_authorizations[op]} \ {None})
  /\ operation_states[op] = "authorized"
  /\ operation_states' = [operation_states EXCEPT ![op] = "fenced"]
  /\ \A r \in operation_reservations[op] :
       reservations[r].owner = op /\ reservations[r].state = "authorized"
  /\ MoveReservations(operation_reservations[op], "fenced")
  /\ fences' = [fences EXCEPT ![op] = [claims |-> claims, token |-> token]]
  /\ UNCHANGED <<counterpartyVars, foreign_authorizations,
                 foreign_cancellations, operation_reservations, charged,
                 intentVars, identifierVars, historyVars>>

\* A pending acknowledgment of the fenced dispatch; its token is retained
\* byte for byte, so the fence has one.
CounterpartyPending(op, body) ==
  /\ ReadRecord
  /\ fences[op] # NoFence /\ fences[op].token # "absent"
  /\ operation_states[op] = "fenced"
  /\ operation_states' = [operation_states EXCEPT ![op] = "pending"]
  /\ pending' = [pending EXCEPT ![op] = body]
  /\ UNCHANGED <<fences, recovered, resume_authentications,
                 reconciliation_authentications,
                 consumed_resume_authentication_hashes,
                 consumed_recovery_authentication_hashes, foreignVars,
                 accountVars, intentVars, identifierVars, historyVars>>

\* Mutation of MayResume: an authentication is never used up.
MayResumeAgain(op, a) == a.op = op /\ a.body = pending[op]

\* An unused authentication of this operation's resume, for the body the
\* pending record froze.
MayResume(op, a) ==
  /\ a \notin consumed_resume_authentication_hashes
  /\ a.op = op
  /\ a.body = pending[op]

CounterpartyResumeFenced(op, a) ==
  /\ ReadRecord
  /\ fences[op] # NoFence
  /\ operation_states[op] = "pending" /\ pending[op] # None
  /\ MayResume(op, a)
  /\ consumed_resume_authentication_hashes' =
       consumed_resume_authentication_hashes \cup {a}
  /\ operation_states' = [operation_states EXCEPT ![op] = "fenced"]
  /\ pending' = [pending EXCEPT ![op] = None]
  /\ resumes' = [resumes EXCEPT ![op] = @ + 1]
  /\ UNCHANGED <<fences, recovered, resume_authentications,
                 reconciliation_authentications,
                 consumed_recovery_authentication_hashes, foreignVars,
                 accountVars, intentVars, identifierVars, settled>>

\* A fresh reconciliation of an in-flight dispatch that found B's terminal.
MayRecover(op, a, outcome) ==
  /\ op \in NativeOps
  /\ fences[op] # NoFence
  /\ operation_states[op] \in {"fenced", "pending"}
  /\ a.op = op
  /\ a \notin consumed_recovery_authentication_hashes
  /\ fences[op].token = "genuine"
  /\ outcome.dispatch = fences[op].claims
  /\ recovered[op] = None

CounterpartyRecovered(op, a, outcome) ==
  /\ ReadRecord
  /\ MayRecover(op, a, outcome)
  /\ consumed_recovery_authentication_hashes' =
       consumed_recovery_authentication_hashes \cup {a}
  /\ recovered' = [recovered EXCEPT ![op] = outcome]
  /\ UNCHANGED <<operation_states, fences, pending, resume_authentications,
                 reconciliation_authentications,
                 consumed_resume_authentication_hashes, foreignVars,
                 accountVars, intentVars, identifierVars, historyVars>>
-----------------------------------------------------------------------------
(* Settlement: the unique terminal transition of an operation.             *)

\* Nothing was dispatched: an authorized operation is released as it stands.
ReleaseBeforeFence(op) ==
  /\ ReadRecord
  /\ operation_states[op] = "authorized"
  /\ ReleaseReservations(op)
  /\ operation_states' = [operation_states EXCEPT ![op] = "released"]
  /\ UNCHANGED <<fences, counterpartyVars, foreignVars, intentVars,
                 identifierVars, historyVars>>

\* Mutation of SettlesAfterFence: a pending operation settles at any time.
SettlesUnrecovered(op) ==
  fences[op] # NoFence /\ operation_states[op] \in {"fenced", "pending"}

\* A settlement after the fence.  A pending operation settles only once its
\* terminal has been recovered.
SettlesAfterFence(op) ==
  /\ fences[op] # NoFence
  /\ \/ operation_states[op] = "fenced"
     \/ recovered[op] # None /\ operation_states[op] \in {"fenced", "pending"}

\* Mutation of CapacityUnfenced: nothing is asked of the reservations.
CapacityIgnored(op) == TRUE

CapacityUnfenced(op) == ~\E r \in Relevant(op) : reservations[r].state = "fenced"

\* Released without a receipt: legal only while no capacity is fenced.
ReleaseWithoutReceipt(op) ==
  /\ ReadRecord
  /\ SettlesAfterFence(op)
  /\ recovered[op] = None
  /\ CapacityUnfenced(op)
  /\ ReleaseReservations(op)
  /\ operation_states' = [operation_states EXCEPT ![op] = "released"]
  /\ UNCHANGED <<fences, counterpartyVars, foreignVars, intentVars,
                 identifierVars, historyVars>>

\* Mutation of MaySettle: the receipt need not be the recovered terminal.
MaySettleAfresh(op, outcome) ==
  SettlesAfterFence(op) /\ outcome.dispatch = fences[op].claims

\* B's signed receipt joins the fenced dispatch and, when a terminal was
\* recovered before, is that terminal.
MaySettle(op, outcome) ==
  /\ SettlesAfterFence(op)
  /\ recovered[op] \in {None, outcome}
  /\ outcome.dispatch = fences[op].claims

ReleaseOnReceipt(op, outcome) ==
  /\ ReadRecord
  /\ MaySettle(op, outcome)
  /\ outcome.status = "not_executed"
  /\ ReleaseReservations(op)
  /\ operation_states' = [operation_states EXCEPT ![op] = "released"]
  /\ settled' = [settled EXCEPT ![op] = outcome]
  /\ UNCHANGED <<fences, counterpartyVars, foreignVars, intentVars,
                 identifierVars, resumes>>

Commit(op, outcome) ==
  /\ ReadRecord
  /\ MaySettle(op, outcome)
  /\ outcome.status = "committed"
  /\ fences[op].token # "absent"
  /\ \A r \in Relevant(op) : reservations[r].state = "fenced"
  /\ MoveReservations(Relevant(op), "committed")
  /\ operation_states' = [operation_states EXCEPT ![op] = "committed"]
  /\ settled' = [settled EXCEPT ![op] = outcome]
  /\ UNCHANGED <<fences, counterpartyVars, foreignVars,
                 operation_reservations, charged, intentVars, identifierVars,
                 resumes>>
-----------------------------------------------------------------------------
\* A record no other action takes raises ValueError, and the prefix is lost.
\* A malformed record is one, so the writer can always produce it.
Fail ==
  /\ verdict = "reading" /\ verdict' = "failed"
  /\ UNCHANGED <<operation_states, fences, counterpartyVars, foreignVars,
                 accountVars, intentVars, identifierVars, historyVars>>

Decide ==
  \E op \in Ops :
    \/ Refuse(op)
    \/ \E t \in Times, as \in SUBSET Approvals, list \in AccountLists :
         \/ \E p \in Proofs : AuthorizeNative(op, t, p, as, list)
         \/ \E d \in ForeignDispatches : AuthorizeForeign(op, t, d, as, list)

Authenticate ==
  \E kind \in Kinds, op \in Ops \cup {None}, t \in Times,
     p \in Proofs, body \in Bodies \cup {None} :
    Authentication(kind, op, t, p, body)

Advance ==
  \E op \in Ops :
    \/ \E i \in intents, claims \in Dispatches,
          token \in Tokens :
         DispatchFenced(op, i, claims, token)
    \/ \E body \in Bodies : CounterpartyPending(op, body)
    \/ \E a \in resume_authentications : CounterpartyResumeFenced(op, a)
    \/ \E a \in reconciliation_authentications, outcome \in Outcomes :
         CounterpartyRecovered(op, a, outcome)

Settle ==
  \E op \in Ops :
    \/ ReleaseBeforeFence(op)
    \/ ReleaseWithoutReceipt(op)
    \/ \E outcome \in Outcomes : ReleaseOnReceipt(op, outcome)
    \/ \E outcome \in Outcomes : Commit(op, outcome)

Next ==
  \/ \E d \in LegacyDecisions : LegacyDecision(d)
  \/ \E i \in Intents : ConsequenceIntent(i)
  \/ Decide
  \/ Authenticate
  \/ \E identity \in Foreign : CounterpartyCancelled(identity)
  \/ Advance
  \/ Settle
  \/ Fail

Spec == Init /\ [][Next]_vars
-----------------------------------------------------------------------------
(* Properties.                                                             *)

AuthenticationRecords ==
  [id : Ids, at : Times, op : Ops, body : Bodies \cup {None}]

TypeOK ==
  /\ verdict \in {"reading", "failed"}
  /\ operation_states \in [Ops -> OperationStates]
  /\ intents \subseteq Intents
  /\ legacy \subseteq LegacyDecisions
  /\ fences \in [Ops -> {NoFence} \cup
                  [claims : Dispatches,
                   token : Tokens]]
  /\ pending \in [Ops -> Bodies \cup {None}]
  /\ recovered \in [Ops -> Outcomes \cup {None}]
  /\ resume_authentications \subseteq AuthenticationRecords
  /\ reconciliation_authentications \subseteq AuthenticationRecords
  /\ foreign_authorizations \in [Ops -> Foreign \cup {None}]
  /\ foreign_fences \subseteq Foreign /\ foreign_cancellations \subseteq Foreign
  /\ consumed_resume_authentication_hashes \subseteq resume_authentications
  /\ consumed_recovery_authentication_hashes \subseteq
       reconciliation_authentications
  /\ reservations \in
       [Reservations -> {NoReservation} \cup
          [key : Keys, amount : Amounts, owner : Ops,
           state : {"authorized", "fenced", "committed", "released"}]]
  /\ operation_reservations \in [Ops -> SUBSET Reservations]
  /\ charged \in [Keys -> [used : Int, ceiling : Ceilings \cup {None}]]
  /\ consumed \in [Ids -> Int]
  /\ uses \subseteq [id : Ids, at : Times, until : Int]
  /\ resumes \in [Ops -> Nat]
  /\ settled \in [Ops -> Outcomes \cup {None}]

\* Replay of evidence: in an accepted prefix no identifier is used while an
\* earlier use of it would still verify, at whatever times the records claim
\* (execution_evidence.py: "reuses an unexpired consumed identifier").
SingleUse ==
  \A u, v \in uses :
    u.id = v.id /\ u # v => u.until < v.at \/ v.until < u.at

\* README: counterparty_cancelled "excludes every later use of the same
\* foreign point/operation identity", and no cancellation follows a native
\* fence: no operation of a cancelled identity ever leaves for the resource.
CancellationExcludes ==
  \A op \in Ops :
    foreign_authorizations[op] \in foreign_cancellations =>
      /\ fences[op] = NoFence
      /\ operation_states[op] \in {"authorized", "released"}

\* README: the resume_authentication_hash is single-use.  An operation is
\* resumed at most as often as its holder authenticated a resume before.
ResumesAuthenticated ==
  \A op \in Ops :
    resumes[op] <= Cardinality({a \in resume_authentications : a.op = op})

\* README: counterparty_recovered joins the B-signed terminal before
\* settlement, and replay rejects a terminal that does not match.  However an
\* operation with a recovered terminal ends, it ends as that terminal says,
\* on a genuinely signed dispatch of its own.
RecoveryDecides ==
  \A op \in Ops : recovered[op] # None =>
    /\ fences[op].token = "genuine" /\ recovered[op].dispatch.op = op
    /\ operation_states[op] \in {"committed", "released"} =>
         settled[op] = recovered[op]

\* A committed operation was authorized, then intended, then dispatched with a
\* token, and B's committed receipt names that very operation: no receipt
\* settles another operation's commitment.
CommittedWasDispatched ==
  \A op \in Ops : operation_states[op] = "committed" =>
    /\ settled[op] # None /\ settled[op].status = "committed"
    /\ settled[op].dispatch.op = op
    /\ [op |-> op, decision |-> op] \in intents

\* "fenced capacity may release only on a retained not-executed receipt":
\* capacity an operation took to the resource never comes back on its word.
FencedCapacityNeedsReceipt ==
  \A op \in Ops :
    /\ operation_states[op] = "released" /\ fences[op] # NoFence
    /\ operation_reservations[op] # {}
    => settled[op] # None /\ settled[op].status = "not_executed"

\* Every reservation is in the state its owner's lifecycle puts it in.
ReservationStateOf(state) ==
  IF state = "pending" THEN "fenced" ELSE state

ReservationsFollowOwner ==
  /\ \A op \in Ops : \A r \in operation_reservations[op] :
       /\ reservations[r].owner = op
       /\ reservations[r].state = ReservationStateOf(operation_states[op])
  /\ \A r \in Reservations : reservations[r] # NoReservation =>
       r \in operation_reservations[reservations[r].owner]

\* The running total of an account never passes its signed ceiling, whatever
\* reservations, releases and commitments the prefix interleaves.
WithinCeiling ==
  \A k \in Keys :
    IF charged[k].ceiling = None THEN charged[k].used = 0
                                 ELSE charged[k].used <= charged[k].ceiling

\* An operation leaves "pending" by an authenticated resume or, once its
\* terminal has been recovered, by a settlement; a terminal state is final.
LifecycleOrder ==
  [][\A op \in Ops :
       operation_states'[op] # operation_states[op] =>
         /\ operation_states[op] \notin {"refused", "committed", "released"}
         /\ operation_states[op] = "pending" =>
              \/ resumes' # resumes /\ operation_states'[op] = "fenced"
              \/ recovered[op] # None /\ settled'[op] = recovered[op]]_vars
-----------------------------------------------------------------------------
(* The inductive strengthening the proofs use.                             *)

\* consumed remembers the latest expiry of every identifier used so far.
IdentifiersInv ==
  \A u \in uses : u.at <= u.until /\ 0 < u.until /\ u.until <= consumed[u.id]

\* What the lifecycle state of one operation says of its evidence.
OperationInv(op) ==
  /\ operation_states[op] \in {"none", "refused", "authorized"} =>
       fences[op] = NoFence
  /\ operation_states[op] \in {"none", "refused"} =>
       /\ foreign_authorizations[op] = None
       /\ operation_reservations[op] = {}
  /\ operation_states[op] \in {"fenced", "pending", "committed"} =>
       fences[op] # NoFence
  /\ fences[op] # NoFence =>
       /\ [op |-> op, decision |-> op] \in intents
       /\ fences[op].token # "absent" => fences[op].claims.op = op
       /\ foreign_authorizations[op] \in foreign_fences \cup {None}
  /\ recovered[op] # None =>
       /\ fences[op].token = "genuine" /\ recovered[op].dispatch = fences[op].claims
       /\ operation_states[op] \in {"committed", "released"} =>
            settled[op] = recovered[op]
  /\ settled[op] # None =>
       /\ operation_states[op] \in {"committed", "released"}
       /\ settled[op].dispatch = fences[op].claims
  /\ operation_states[op] = "committed" =>
       /\ settled[op] # None /\ settled[op].status = "committed"
       /\ fences[op].token # "absent"

LifecycleInv ==
  /\ \A op \in Ops : OperationInv(op)
  /\ foreign_fences \cap foreign_cancellations = {}

\* A key that was ever reserved has its ceiling.
CeilingsKnown ==
  \A r \in Reservations : reservations[r] # NoReservation =>
    charged[reservations[r].key].ceiling # None

\* Every resume consumed one of finitely many authentications.
ResumesInv ==
  /\ IsFiniteSet(resume_authentications)
  /\ \A op \in Ops :
       resumes[op] =
         Cardinality({a \in consumed_resume_authentication_hashes : a.op = op})

Inductive ==
  /\ IdentifiersInv /\ SingleUse
  /\ LifecycleInv
  /\ ReservationsFollowOwner /\ FencedCapacityNeedsReceipt
  /\ CeilingsKnown /\ WithinCeiling
  /\ ResumesInv
=============================================================================
