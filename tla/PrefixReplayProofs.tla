------------------------- MODULE PrefixReplayProofs -------------------------
(***************************************************************************)
(* The theorems of PrefixReplay and PrefixBudget, proved for every value   *)
(* of the constants that satisfies ReplayAssumption: the type invariant    *)
(* first, then one part of what the replay's tables mean after the other.  *)
(* Each part is preserved by every record the replay accepts, and the      *)
(* properties the runs check follow from it.  Then come sums: the running  *)
(* totals are sums of reservations, and with them the replay implements    *)
(* OperationBudget (which also needs OperationsFinite).  Last come the     *)
(* pairs: an accepted prefix is a ledger PairedBundles considers on either *)
(* side (which also needs DependenciesAssumption), and a valid pair of     *)
(* ledgers is linked.                                                      *)
(***************************************************************************)
EXTENDS PrefixBudget, PairedReplay, PairedBundles, FiniteSetTheorems,
        SequenceTheorems, TLAPS

UseRecords == [id : Ids, at : Times, until : Int]
ReservationRecords ==
  {NoReservation} \cup
    [key : Keys, amount : Amounts, owner : Ops,
     state : {"authorized", "fenced", "committed", "released"}]
AccountTotals == [used : Int, ceiling : Ceilings \cup {None}]

-----------------------------------------------------------------------------
(* What the helpers of the actions preserve.                               *)

\* Consuming verified evidence keeps the identifier tables well typed.
LEMMA ConsumeTyped ==
  ASSUME TypeOK, NEW es, NEW t \in Times, Consume(es, t),
         \A e \in es : e.id \in Ids /\ e.until \in Int
  PROVE  consumed' \in [Ids -> Int] /\ uses' \subseteq UseRecords
<1>1. consumed' \in [Ids -> Int]
  <2>1. SUFFICES ASSUME NEW i \in Ids
                 PROVE  (IF \E e \in es : e.id = i
                         THEN (CHOOSE e \in es : e.id = i).until
                         ELSE consumed[i]) \in Int
    BY DEF Consume, Expiries
  <2>2. CASE \E e \in es : e.id = i
    <3>1. (CHOOSE e \in es : e.id = i) \in es
      BY <2>2
    <3>2. QED BY <2>2, <3>1
  <2>3. CASE ~\E e \in es : e.id = i
    BY <2>3 DEF TypeOK
  <2>4. QED BY <2>2, <2>3
<1>2. uses' \subseteq UseRecords
  BY DEF Consume, TypeOK, UseRecords
<1>3. QED BY <1>1, <1>2

\* Reserving a list of accounts keeps the account tables well typed.
LEMMA ReserveTyped ==
  ASSUME TypeOK, NEW op \in Ops, NEW list \in AccountLists, Reserve(op, list)
  PROVE  /\ reservations' \in [Reservations -> ReservationRecords]
         /\ operation_reservations' \in [Ops -> SUBSET Reservations]
         /\ charged' \in [Keys -> AccountTotals]
<1>1. PICK D \in SUBSET Keys : list \in [D -> Accounts]
  BY DEF AccountLists
<1>2. \A k \in DOMAIN list :
         /\ k \in Keys /\ list[k].reservation \in Reservations
         /\ list[k].amount \in Amounts /\ list[k].ceiling \in Ceilings
  BY <1>1 DEF Accounts
<1>3. reservations' \in [Reservations -> ReservationRecords]
  <2>1. SUFFICES ASSUME NEW r \in Reservations
                 PROVE  reservations'[r] \in ReservationRecords
    BY DEF Reserve
  <2>2. CASE \E k \in DOMAIN list : list[k].reservation = r
    <3> DEFINE k == CHOOSE j \in DOMAIN list : list[j].reservation = r
    <3>1. k \in DOMAIN list
      BY <2>2
    <3>2. reservations'[r] = [key |-> k, amount |-> list[k].amount,
                              owner |-> op, state |-> "authorized"]
      BY <2>2 DEF Reserve
    <3>3. QED BY <1>2, <3>1, <3>2 DEF ReservationRecords
  <2>3. CASE ~\E k \in DOMAIN list : list[k].reservation = r
    BY <2>3 DEF Reserve, TypeOK, ReservationRecords
  <2>4. QED BY <2>2, <2>3
<1>4. operation_reservations' \in [Ops -> SUBSET Reservations]
  BY <1>2 DEF Reserve, TypeOK
<1>5. charged' \in [Keys -> AccountTotals]
  <2>1. SUFFICES ASSUME NEW k \in Keys
                 PROVE  charged'[k] \in AccountTotals
    BY DEF Reserve
  <2>2. charged[k] \in AccountTotals
    BY DEF TypeOK, AccountTotals
  <2>3. CASE k \in DOMAIN list
    <3>1. list[k].amount \in Int /\ list[k].ceiling \in Ceilings
      BY <1>2, <2>3, ReplayAssumption
    <3>2. charged'[k] = [used |-> charged[k].used + list[k].amount,
                         ceiling |-> list[k].ceiling]
      BY <2>3 DEF Reserve
    <3>3. QED BY <2>2, <3>1, <3>2 DEF AccountTotals
  <2>4. CASE k \notin DOMAIN list
    BY <2>2, <2>4 DEF Reserve
  <2>5. QED BY <2>3, <2>4
<1>6. QED BY <1>3, <1>4, <1>5

\* Moving reservations that exist keeps them well typed.
LEMMA MoveTyped ==
  ASSUME TypeOK, NEW rs, NEW state \in {"fenced", "committed", "released"},
         \A r \in rs \cap Reservations : reservations[r] # NoReservation,
         MoveReservations(rs, state)
  PROVE  reservations' \in [Reservations -> ReservationRecords]
BY DEF MoveReservations, TypeOK, ReservationRecords

\* A settlement only moves reservations that exist.
LEMMA RelevantExist ==
  ASSUME NEW op \in Ops, NEW r \in Relevant(op)
  PROVE  reservations[r] # NoReservation /\ r \in operation_reservations[op]
BY DEF Relevant, NoReservation

\* An operation's claim on a key is one of the signed amounts, or nothing.
LEMMA HeldTyped ==
  ASSUME TypeOK, NEW op \in Ops, NEW k \in Keys
  PROVE  Held(op, k) \in Nat
<1>1. CASE \E r \in Relevant(op) : reservations[r].key = k
  <2> DEFINE r == CHOOSE r \in Relevant(op) : reservations[r].key = k
  <2>1. r \in Relevant(op)
    BY <1>1
  <2>2. reservations[r].amount \in Amounts
    BY <2>1, RelevantExist DEF TypeOK
  <2>3. QED BY <1>1, <2>2, ReplayAssumption DEF Held
<1>2. CASE ~\E r \in Relevant(op) : reservations[r].key = k
  BY <1>2 DEF Held
<1>3. QED BY <1>1, <1>2

\* Releasing an operation keeps the account tables well typed.
LEMMA ReleaseTyped ==
  ASSUME TypeOK, NEW op \in Ops, ReleaseReservations(op)
  PROVE  /\ reservations' \in [Reservations -> ReservationRecords]
         /\ operation_reservations' \in [Ops -> SUBSET Reservations]
         /\ charged' \in [Keys -> AccountTotals]
<1>1. reservations' \in [Reservations -> ReservationRecords]
  BY RelevantExist, MoveTyped DEF ReleaseReservations
<1>2. charged' \in [Keys -> AccountTotals]
  <2>1. charged \in [Keys -> AccountTotals]
    BY DEF TypeOK, AccountTotals
  <2>2. ASSUME NEW k \in Keys
        PROVE  [charged[k] EXCEPT !.used = @ - Held(op, k)] \in AccountTotals
    <3>1. charged[k] \in AccountTotals
      BY <2>1
    <3>2. Held(op, k) \in Nat
      BY HeldTyped
    <3>3. charged[k].used - Held(op, k) \in Int
      BY <3>1, <3>2 DEF AccountTotals
    <3>4. QED BY <3>1, <3>3 DEF AccountTotals
  <2>3. QED BY <2>2 DEF ReleaseReservations
<1>3. operation_reservations \in [Ops -> SUBSET Reservations]
  BY DEF TypeOK
<1>4. operation_reservations' \in [Ops -> SUBSET Reservations]
  BY <1>3 DEF ReleaseReservations
<1>5. QED BY <1>1, <1>2, <1>4
-----------------------------------------------------------------------------
(* The type invariant.                                                     *)

LEMMA InitTyped == Init => TypeOK
BY DEF Init, TypeOK, OperationStates, NoReservation, NoFence

\* The decisions and intents.
LEMMA DecideTyped == TypeOK /\ Decide => TypeOK'
<1>1. SUFFICES ASSUME TypeOK, NEW op \in Ops,
                      \/ Refuse(op)
                      \/ \E t \in Times, as \in SUBSET Approvals,
                           list \in AccountLists :
                           \/ \E p \in Proofs : AuthorizeNative(op, t, p, as, list)
                           \/ \E d \in ForeignDispatches :
                                AuthorizeForeign(op, t, d, as, list)
               PROVE  TypeOK'
  BY DEF Decide
<1>2. CASE Refuse(op)
  BY <1>1, <1>2 DEF Refuse, ReadRecord, NewOperation, TypeOK, OperationStates,
     counterpartyVars, foreignVars, accountVars, intentVars, identifierVars,
     historyVars
<1>3. ASSUME NEW t \in Times, NEW as \in SUBSET Approvals,
             NEW list \in AccountLists, NEW p \in Proofs,
             AuthorizeNative(op, t, p, as, list)
      PROVE  TypeOK'
  <2>1. \A e \in {p} \cup as : e.id \in Ids /\ e.until \in Int
    BY ReplayAssumption DEF Evidence
  <2>2. consumed' \in [Ids -> Int] /\ uses' \subseteq UseRecords
    BY <1>1, <1>3, <2>1, ConsumeTyped DEF AuthorizeNative
  <2>3. /\ reservations' \in [Reservations -> ReservationRecords]
        /\ operation_reservations' \in [Ops -> SUBSET Reservations]
        /\ charged' \in [Keys -> AccountTotals]
    BY <1>1, <1>3, ReserveTyped DEF AuthorizeNative
  <2>4. operation_states' \in [Ops -> OperationStates]
    BY <1>1, <1>3 DEF AuthorizeNative, NewOperation, TypeOK, OperationStates
  <2>5. QED
    BY <1>1, <1>3, <2>2, <2>3, <2>4 DEF AuthorizeNative, ReadRecord, TypeOK,
       UseRecords, ReservationRecords, AccountTotals,
       counterpartyVars, foreignVars, intentVars, historyVars
<1>4. ASSUME NEW t \in Times, NEW as \in SUBSET Approvals,
             NEW list \in AccountLists, NEW d \in ForeignDispatches,
             AuthorizeForeign(op, t, d, as, list)
      PROVE  TypeOK'
  <2>1. \A e \in {d} \cup as : e.id \in Ids /\ e.until \in Int
    BY ReplayAssumption DEF Evidence
  <2>2. consumed' \in [Ids -> Int] /\ uses' \subseteq UseRecords
    BY <1>1, <1>4, <2>1, ConsumeTyped DEF AuthorizeForeign
  <2>3. /\ reservations' \in [Reservations -> ReservationRecords]
        /\ operation_reservations' \in [Ops -> SUBSET Reservations]
        /\ charged' \in [Keys -> AccountTotals]
    BY <1>1, <1>4, ReserveTyped DEF AuthorizeForeign
  <2>4. /\ operation_states' \in [Ops -> OperationStates]
        /\ foreign_authorizations' \in [Ops -> Foreign \cup {None}]
    BY <1>1, <1>4, ReplayAssumption
       DEF AuthorizeForeign, NewOperation, TypeOK, OperationStates
  <2>5. QED
    BY <1>1, <1>4, <2>2, <2>3, <2>4 DEF AuthorizeForeign, ReadRecord, TypeOK,
       UseRecords, ReservationRecords, AccountTotals,
       counterpartyVars, intentVars, historyVars
<1>5. QED BY <1>1, <1>2, <1>3, <1>4

\* Legacy decisions, intents, cancellations and the refusal of the prefix.
LEMMA RecordTyped ==
  ASSUME TypeOK,
         \/ \E d \in LegacyDecisions : LegacyDecision(d)
         \/ \E i \in Intents : ConsequenceIntent(i)
         \/ \E identity \in Foreign : CounterpartyCancelled(identity)
         \/ Fail
  PROVE  TypeOK'
<1>1. CASE \E d \in LegacyDecisions : LegacyDecision(d)
  BY <1>1 DEF LegacyDecision, ReadRecord, TypeOK, counterpartyVars, foreignVars,
     accountVars, identifierVars, historyVars
<1>2. CASE \E i \in Intents : ConsequenceIntent(i)
  BY <1>2 DEF ConsequenceIntent, ReadRecord, TypeOK, counterpartyVars,
     foreignVars, accountVars, identifierVars, historyVars
<1>3. CASE \E identity \in Foreign : CounterpartyCancelled(identity)
  BY <1>3 DEF CounterpartyCancelled, ReadRecord, TypeOK, counterpartyVars,
     accountVars, intentVars, identifierVars, historyVars
<1>4. CASE Fail
  BY <1>4 DEF Fail, TypeOK, counterpartyVars, foreignVars, accountVars,
     intentVars, identifierVars, historyVars
<1>5. QED BY <1>1, <1>2, <1>3, <1>4

LEMMA AuthenticateTyped == TypeOK /\ Authenticate => TypeOK'
<1>1. SUFFICES ASSUME TypeOK, NEW kind \in Kinds, NEW op \in Ops \cup {None},
                      NEW t \in Times, NEW p \in Proofs,
                      NEW body \in Bodies \cup {None},
                      Authentication(kind, op, t, p, body)
               PROVE  TypeOK'
  BY DEF Authenticate
<1> DEFINE auth == [id |-> p.id, at |-> t, op |-> op, body |-> body]
<1>2. p.id \in Ids /\ p.until \in Int
  BY ReplayAssumption DEF Evidence
<1>3. consumed' \in [Ids -> Int] /\ uses' \subseteq UseRecords
  BY <1>1, <1>2, ConsumeTyped DEF Authentication
<1>4. kind # "delegation_issuance" => auth \in AuthenticationRecords
  BY <1>1, <1>2, ReplayAssumption
     DEF Authentication, AuthenticationSubject, AuthenticationRecords
<1>5. /\ resume_authentications' \subseteq AuthenticationRecords
      /\ reconciliation_authentications' \subseteq AuthenticationRecords
      /\ resume_authentications \subseteq resume_authentications'
      /\ reconciliation_authentications \subseteq reconciliation_authentications'
  BY <1>1, <1>4 DEF Authentication, RecordAuthentication, TypeOK
<1>6. QED
  BY <1>1, <1>3, <1>5 DEF Authentication, ReadRecord, TypeOK, UseRecords,
     foreignVars, accountVars, intentVars, historyVars

\* The lifecycle events between the decision and the settlement.
LEMMA AdvanceTyped == TypeOK /\ Advance => TypeOK'
<1>1. SUFFICES ASSUME TypeOK, NEW op \in Ops,
        \/ \E i \in intents, claims \in Dispatches, token \in Tokens :
             DispatchFenced(op, i, claims, token)
        \/ \E body \in Bodies : CounterpartyPending(op, body)
        \/ \E a \in resume_authentications : CounterpartyResumeFenced(op, a)
        \/ \E a \in reconciliation_authentications, outcome \in Outcomes :
             CounterpartyRecovered(op, a, outcome)
               PROVE  TypeOK'
  BY DEF Advance
<1>2. ASSUME NEW i \in intents, NEW claims \in Dispatches, NEW token \in Tokens,
             DispatchFenced(op, i, claims, token)
      PROVE  TypeOK'
  <2>1. reservations' \in [Reservations -> ReservationRecords]
    <3>1. \A r \in operation_reservations[op] \cap Reservations :
             reservations[r] # NoReservation
      BY <1>2 DEF DispatchFenced, NoReservation
    <3>2. QED BY <1>1, <1>2, <3>1, MoveTyped DEF DispatchFenced
  <2>2. /\ fences' \in [Ops -> {NoFence} \cup [claims : Dispatches, token : Tokens]]
        /\ operation_states' \in [Ops -> OperationStates]
        /\ foreign_fences' \subseteq Foreign
    BY <1>1, <1>2 DEF DispatchFenced, TypeOK, OperationStates
  <2>3. QED
    BY <1>1, <1>2, <2>1, <2>2 DEF DispatchFenced, ReadRecord, TypeOK,
       ReservationRecords, counterpartyVars, intentVars, identifierVars,
       historyVars
<1>3. ASSUME NEW body \in Bodies, CounterpartyPending(op, body)
      PROVE  TypeOK'
  BY <1>1, <1>3 DEF CounterpartyPending, ReadRecord, TypeOK, OperationStates,
     foreignVars, accountVars, intentVars, identifierVars, historyVars
<1>4. ASSUME NEW a \in resume_authentications, CounterpartyResumeFenced(op, a)
      PROVE  TypeOK'
  BY <1>1, <1>4 DEF CounterpartyResumeFenced, ReadRecord, TypeOK,
     OperationStates, foreignVars, accountVars, intentVars, identifierVars
<1>5. ASSUME NEW a \in reconciliation_authentications, NEW outcome \in Outcomes,
             CounterpartyRecovered(op, a, outcome)
      PROVE  TypeOK'
  BY <1>1, <1>5 DEF CounterpartyRecovered, ReadRecord, TypeOK, foreignVars,
     accountVars, intentVars, identifierVars, historyVars
<1>6. QED BY <1>1, <1>2, <1>3, <1>4, <1>5

LEMMA SettleTyped == TypeOK /\ Settle => TypeOK'
<1>1. SUFFICES ASSUME TypeOK, NEW op \in Ops,
        \/ ReleaseBeforeFence(op)
        \/ ReleaseWithoutReceipt(op)
        \/ \E outcome \in Outcomes : ReleaseOnReceipt(op, outcome)
        \/ \E outcome \in Outcomes : Commit(op, outcome)
               PROVE  TypeOK'
  BY DEF Settle
<1>2. ASSUME ReleaseBeforeFence(op) \/ ReleaseWithoutReceipt(op)
      PROVE  TypeOK'
  <2>1. /\ reservations' \in [Reservations -> ReservationRecords]
        /\ operation_reservations' \in [Ops -> SUBSET Reservations]
        /\ charged' \in [Keys -> AccountTotals]
    BY <1>1, <1>2, ReleaseTyped DEF ReleaseBeforeFence, ReleaseWithoutReceipt
  <2>2. QED
    BY <1>1, <1>2, <2>1 DEF ReleaseBeforeFence, ReleaseWithoutReceipt,
       ReadRecord, TypeOK, OperationStates, ReservationRecords, AccountTotals,
       counterpartyVars, foreignVars, intentVars, identifierVars, historyVars
<1>3. ASSUME NEW outcome \in Outcomes, ReleaseOnReceipt(op, outcome)
      PROVE  TypeOK'
  <2>1. /\ reservations' \in [Reservations -> ReservationRecords]
        /\ operation_reservations' \in [Ops -> SUBSET Reservations]
        /\ charged' \in [Keys -> AccountTotals]
    BY <1>1, <1>3, ReleaseTyped DEF ReleaseOnReceipt
  <2>2. QED
    BY <1>1, <1>3, <2>1 DEF ReleaseOnReceipt, ReadRecord, TypeOK,
       OperationStates, ReservationRecords, AccountTotals, counterpartyVars,
       foreignVars, intentVars, identifierVars
<1>4. ASSUME NEW outcome \in Outcomes, Commit(op, outcome)
      PROVE  TypeOK'
  <2>1. reservations' \in [Reservations -> ReservationRecords]
    BY <1>1, <1>4, RelevantExist, MoveTyped DEF Commit
  <2>2. QED
    BY <1>1, <1>4, <2>1 DEF Commit, ReadRecord, TypeOK, OperationStates,
       ReservationRecords, counterpartyVars, foreignVars, intentVars,
       identifierVars
<1>5. QED BY <1>1, <1>2, <1>3, <1>4

LEMMA NextTyped == TypeOK /\ [Next]_vars => TypeOK'
<1>1. CASE Next
  BY <1>1, RecordTyped, DecideTyped, AuthenticateTyped, AdvanceTyped, SettleTyped
     DEF Next
<1>2. CASE UNCHANGED vars
  BY <1>2 DEF vars, TypeOK, counterpartyVars, foreignVars, accountVars,
     intentVars, identifierVars, historyVars
<1>3. QED BY <1>1, <1>2

\* Every accepted prefix leaves the replay with well-typed tables: each
\* retained authentication, dispatch, outcome and reservation is one the
\* writer could have recorded for an operation of the prefix.
THEOREM TypeCorrect == Spec => []TypeOK
<1>1. QED BY InitTyped, NextTyped, PTL DEF Spec

-----------------------------------------------------------------------------
(* Single-use identifiers.                                                 *)

\* Whatever a step does to the identifier tables, it does by consuming
\* verified evidence at one time.
LEMMA IdentifierSteps ==
  ASSUME TypeOK, [Next]_vars
  PROVE  \/ UNCHANGED <<consumed, uses>>
         \/ \E t \in Times, es \in SUBSET (Evidence \cup ForeignDispatches) :
              Consume(es, t)
<1>1. CASE UNCHANGED vars
  BY <1>1 DEF vars, identifierVars
<1>2. CASE Next
  <2>1. CASE Decide
    <3>1. PICK op \in Ops :
            \/ Refuse(op)
            \/ \E t \in Times, as \in SUBSET Approvals, list \in AccountLists :
                 \/ \E p \in Proofs : AuthorizeNative(op, t, p, as, list)
                 \/ \E d \in ForeignDispatches :
                      AuthorizeForeign(op, t, d, as, list)
      BY <2>1 DEF Decide
    <3>2. CASE Refuse(op)
      BY <3>2 DEF Refuse, identifierVars
    <3>3. ASSUME NEW t \in Times, NEW as \in SUBSET Approvals, NEW p \in Proofs,
                 NEW list \in AccountLists, AuthorizeNative(op, t, p, as, list)
          PROVE  \E es \in SUBSET (Evidence \cup ForeignDispatches) : Consume(es, t)
      <4>1. {p} \cup as \in SUBSET (Evidence \cup ForeignDispatches)
        BY ReplayAssumption
      <4>2. QED BY <3>3, <4>1 DEF AuthorizeNative
    <3>4. ASSUME NEW t \in Times, NEW as \in SUBSET Approvals,
                 NEW d \in ForeignDispatches, NEW list \in AccountLists,
                 AuthorizeForeign(op, t, d, as, list)
          PROVE  \E es \in SUBSET (Evidence \cup ForeignDispatches) : Consume(es, t)
      <4>1. {d} \cup as \in SUBSET (Evidence \cup ForeignDispatches)
        BY ReplayAssumption
      <4>2. QED BY <3>4, <4>1 DEF AuthorizeForeign
    <3>5. QED BY <3>1, <3>2, <3>3, <3>4
  <2>2. CASE Authenticate
    <3>1. PICK kind \in Kinds, op \in Ops \cup {None}, t \in Times, p \in Proofs,
               body \in Bodies \cup {None} : Authentication(kind, op, t, p, body)
      BY <2>2 DEF Authenticate
    <3>2. {p} \in SUBSET (Evidence \cup ForeignDispatches)
      BY ReplayAssumption
    <3>3. QED BY <3>1, <3>2 DEF Authentication
  <2>3. CASE \/ \E d \in LegacyDecisions : LegacyDecision(d)
             \/ \E i \in Intents : ConsequenceIntent(i)
             \/ \E identity \in Foreign : CounterpartyCancelled(identity)
             \/ Fail
    BY <2>3 DEF LegacyDecision, ConsequenceIntent, CounterpartyCancelled, Fail,
       identifierVars
  <2>4. CASE Advance
    BY <2>4 DEF Advance, DispatchFenced, CounterpartyPending,
       CounterpartyResumeFenced, CounterpartyRecovered, identifierVars
  <2>5. CASE Settle
    BY <2>5 DEF Settle, ReleaseBeforeFence, ReleaseWithoutReceipt,
       ReleaseOnReceipt, Commit, identifierVars
  <2>6. QED BY <1>2, <2>1, <2>2, <2>3, <2>4, <2>5 DEF Next
<1>3. QED BY <1>1, <1>2

\* Consuming overwrites an expiry only with a later one.
LEMMA ConsumeExpiries ==
  ASSUME TypeOK, IdentifiersInv, NEW t \in Times,
         NEW es \in SUBSET (Evidence \cup ForeignDispatches), Consume(es, t)
  PROVE  /\ \A e \in es : consumed'[e.id] = e.until /\ t <= e.until
         /\ \A i \in Ids : consumed[i] # 0 => consumed[i] <= consumed'[i]
<1>1. \A e \in es : e.id \in Ids /\ e.until \in Int /\ e.from \in Int
  BY ReplayAssumption DEF Evidence
<1>2. \A e \in es : consumed'[e.id] = e.until /\ t <= e.until
  <2>1. SUFFICES ASSUME NEW e \in es
                 PROVE  consumed'[e.id] = e.until /\ t <= e.until
    OBVIOUS
  <2>2. (CHOOSE f \in es : f.id = e.id) = e
    BY DEF Consume, MayConsume
  <2>3. consumed'[e.id] = e.until
    BY <1>1, <2>2 DEF Consume, Expiries
  <2>4. QED BY <2>3 DEF Consume, MayConsume, Live
<1>3. \A i \in Ids : consumed[i] # 0 => consumed[i] <= consumed'[i]
  <2>1. SUFFICES ASSUME NEW i \in Ids, consumed[i] # 0
                 PROVE  consumed[i] <= consumed'[i]
    OBVIOUS
  <2>2. consumed[i] \in Int /\ t \in Int
    BY ReplayAssumption DEF TypeOK
  <2>3. CASE \E e \in es : e.id = i
    <3>1. PICK e \in es : e.id = i
      BY <2>3
    <3>2. consumed[i] < t
      BY <2>1, <2>2, <3>1 DEF Consume, MayConsume, Unexpired
    <3>3. QED BY <1>1, <1>2, <2>2, <3>1, <3>2
  <2>4. CASE ~\E e \in es : e.id = i
    BY <2>2, <2>4 DEF Consume, Expiries
  <2>5. QED BY <2>3, <2>4
<1>4. QED BY <1>2, <1>3

LEMMA IdentifiersStep ==
  ASSUME TypeOK, IdentifiersInv, SingleUse, [Next]_vars
  PROVE  IdentifiersInv' /\ SingleUse'
<1>1. CASE UNCHANGED <<consumed, uses>>
  BY <1>1 DEF IdentifiersInv, SingleUse
<1>2. ASSUME NEW t \in Times,
             NEW es \in SUBSET (Evidence \cup ForeignDispatches), Consume(es, t)
      PROVE  IdentifiersInv' /\ SingleUse'
  <2>1. \A e \in es : e.id \in Ids /\ e.until \in Int
    BY ReplayAssumption DEF Evidence
  <2>2. t \in Nat /\ 0 < t
    BY ReplayAssumption
  <2>3. \A u \in uses : /\ u.id \in Ids /\ u.until \in Int /\ u.at \in Nat
                        /\ consumed[u.id] \in Int
    BY ReplayAssumption DEF TypeOK
  <2>4. /\ \A e \in es : consumed'[e.id] = e.until /\ t <= e.until
        /\ \A i \in Ids : consumed[i] # 0 => consumed[i] <= consumed'[i]
    BY <1>2, ConsumeExpiries
  <2>5. \A u \in uses' :
          \/ u \in uses
          \/ \E e \in es : u = [id |-> e.id, at |-> t, until |-> e.until]
    BY <1>2 DEF Consume
  <2>6. consumed' \in [Ids -> Int]
    BY <1>2, <2>1, ConsumeTyped
  <2>7. IdentifiersInv'
    <3>1. SUFFICES ASSUME NEW u \in uses'
                   PROVE  u.at <= u.until /\ 0 < u.until /\ u.until <= consumed'[u.id]
      BY DEF IdentifiersInv
    <3>2. CASE u \in uses
      BY <2>3, <2>4, <2>6, <3>2 DEF IdentifiersInv
    <3>3. ASSUME NEW e \in es, u = [id |-> e.id, at |-> t, until |-> e.until]
          PROVE  u.at <= u.until /\ 0 < u.until /\ u.until <= consumed'[u.id]
      BY <2>1, <2>2, <2>4, <3>3
    <3>4. QED BY <2>5, <3>2, <3>3
  <2>8. ASSUME NEW u \in uses, NEW e \in es, u.id = e.id
        PROVE  u.until < t
    <3>1. u.until <= consumed[u.id] /\ consumed[u.id] # 0
      BY <2>3 DEF IdentifiersInv
    <3>2. consumed[u.id] < t
      BY <1>2, <2>2, <2>3, <2>8, <3>1 DEF Consume, MayConsume, Unexpired
    <3>3. QED BY <2>2, <2>3, <3>1, <3>2
  <2>9. ASSUME NEW e \in es, NEW f \in es, e.id = f.id
        PROVE  e = f
    BY <1>2, <2>9 DEF Consume, MayConsume
  <2>10. SingleUse'
    <3>1. SUFFICES ASSUME NEW u \in uses', NEW v \in uses', u.id = v.id, u # v
                   PROVE  u.until < v.at \/ v.until < u.at
      BY DEF SingleUse
    <3>2. CASE u \in uses /\ v \in uses
      BY <3>1, <3>2 DEF SingleUse
    <3>3. CASE u \in uses /\ v \notin uses
      BY <2>5, <2>8, <3>1, <3>3
    <3>4. CASE u \notin uses /\ v \in uses
      BY <2>5, <2>8, <3>1, <3>4
    <3>5. CASE u \notin uses /\ v \notin uses
      BY <2>5, <2>9, <3>1, <3>5
    <3>6. QED BY <3>2, <3>3, <3>4, <3>5
  <2>11. QED BY <2>7, <2>10
<1>3. QED BY <1>1, <1>2, IdentifierSteps

LEMMA IdentifiersInit == Init => IdentifiersInv /\ SingleUse
BY DEF Init, IdentifiersInv, SingleUse

\* In no accepted prefix, of any length and with any record times, is an
\* identifier used while an earlier use of it would still verify: overwriting
\* the expiry of a consumed identifier never forgets a live use.
THEOREM SingleUseHolds == Spec => []SingleUse
<1>1. TypeOK /\ IdentifiersInv /\ SingleUse /\ [Next]_vars
      => IdentifiersInv' /\ SingleUse'
  BY IdentifiersStep
<1>2. QED BY <1>1, IdentifiersInit, TypeCorrect, PTL DEF Spec
-----------------------------------------------------------------------------
(* The lifecycle of an operation.                                          *)

\* A record about another operation leaves what is known of this one true.
LEMMA OperationFrame ==
  ASSUME NEW o \in Ops, OperationInv(o),
         operation_states'[o] = operation_states[o],
         fences'[o] = fences[o], recovered'[o] = recovered[o],
         settled'[o] = settled[o],
         foreign_authorizations'[o] = foreign_authorizations[o],
         operation_reservations'[o] = operation_reservations[o],
         intents \subseteq intents', foreign_fences \subseteq foreign_fences'
  PROVE  OperationInv(o)'
BY DEF OperationInv

LEMMA LifecycleInit == Init => LifecycleInv
BY DEF Init, LifecycleInv, OperationInv

LEMMA LifecycleDecide ==
  ASSUME TypeOK, LifecycleInv, Decide
  PROVE  LifecycleInv'
<1>1. PICK op \in Ops :
        \/ Refuse(op)
        \/ \E t \in Times, as \in SUBSET Approvals, list \in AccountLists :
             \/ \E p \in Proofs : AuthorizeNative(op, t, p, as, list)
             \/ \E d \in ForeignDispatches : AuthorizeForeign(op, t, d, as, list)
  BY DEF Decide
<1>2. CASE Refuse(op)
  <2>1. \A o \in Ops : OperationInv(o)
    BY DEF LifecycleInv
  <2>2. /\ UNCHANGED <<fences, recovered, settled, foreign_authorizations,
                       operation_reservations, intents, foreign_fences,
                       foreign_cancellations>>
        /\ operation_states[op] = "none"
        /\ operation_states' = [operation_states EXCEPT ![op] = "refused"]
    BY <1>2 DEF Refuse, NewOperation, counterpartyVars, foreignVars,
       accountVars, intentVars, historyVars
  <2>3. OperationInv(op)'
    BY <2>1, <2>2 DEF OperationInv, TypeOK
  <2>4. \A o \in Ops \ {op} : OperationInv(o)'
    BY <2>1, <2>2, OperationFrame DEF TypeOK
  <2>5. QED BY <2>2, <2>3, <2>4 DEF LifecycleInv
<1>3. ASSUME NEW t, NEW es, NEW list, Reserve(op, list),
             NewOperation(op, "authorized"),
             UNCHANGED <<fences, recovered, settled, intents, foreign_fences,
                         foreign_cancellations>>,
             \A o \in Ops \ {op} :
               foreign_authorizations'[o] = foreign_authorizations[o]
      PROVE  LifecycleInv'
  <2>1. \A o \in Ops : OperationInv(o)
    BY DEF LifecycleInv
  <2>2. OperationInv(op)'
    BY <1>3, <2>1 DEF OperationInv, NewOperation, TypeOK
  <2>3. \A o \in Ops \ {op} : OperationInv(o)'
    BY <1>3, <2>1, OperationFrame DEF TypeOK, NewOperation, Reserve
  <2>4. QED BY <1>3, <2>2, <2>3 DEF LifecycleInv
<1>4. ASSUME NEW t, NEW as, NEW list, NEW p, AuthorizeNative(op, t, p, as, list)
      PROVE  LifecycleInv'
  BY <1>3, <1>4 DEF AuthorizeNative, counterpartyVars, foreignVars, intentVars,
     historyVars
<1>5. ASSUME NEW t, NEW as, NEW list, NEW d, AuthorizeForeign(op, t, d, as, list)
      PROVE  LifecycleInv'
  BY <1>3, <1>5 DEF AuthorizeForeign, counterpartyVars, intentVars,
     historyVars, TypeOK
<1>6. QED BY <1>1, <1>2, <1>4, <1>5

\* The records that are not about the lifecycle of a decided operation.
LEMMA LifecycleRecord ==
  ASSUME TypeOK, LifecycleInv,
         \/ \E d \in LegacyDecisions : LegacyDecision(d)
         \/ \E i \in Intents : ConsequenceIntent(i)
         \/ \E identity \in Foreign : CounterpartyCancelled(identity)
         \/ Authenticate \/ Fail
  PROVE  LifecycleInv'
<1>1. /\ UNCHANGED <<operation_states, fences, recovered, settled,
                     foreign_authorizations, operation_reservations,
                     foreign_fences>>
      /\ intents \subseteq intents'
      /\ \/ UNCHANGED foreign_cancellations
         \/ \E identity \in Foreign :
              /\ identity \notin foreign_fences
              /\ foreign_cancellations' = foreign_cancellations \cup {identity}
  BY DEF LegacyDecision, ConsequenceIntent, CounterpartyCancelled,
     CancellationAllowed, Authenticate, Authentication, Fail, counterpartyVars,
     foreignVars, accountVars, intentVars, historyVars
<1>2. \A o \in Ops : OperationInv(o)'
  BY <1>1, OperationFrame DEF LifecycleInv
<1>3. QED BY <1>1, <1>2 DEF LifecycleInv

LEMMA LifecycleAdvance ==
  ASSUME TypeOK, LifecycleInv, Advance
  PROVE  LifecycleInv'
<1>1. PICK op \in Ops :
        \/ \E i \in intents, claims \in Dispatches, token \in Tokens :
             DispatchFenced(op, i, claims, token)
        \/ \E body \in Bodies : CounterpartyPending(op, body)
        \/ \E a \in resume_authentications : CounterpartyResumeFenced(op, a)
        \/ \E a \in reconciliation_authentications, outcome \in Outcomes :
             CounterpartyRecovered(op, a, outcome)
  BY DEF Advance
<1>2. \A o \in Ops : OperationInv(o)
  BY DEF LifecycleInv
<1>3. ASSUME NEW i \in intents, NEW claims \in Dispatches, NEW token \in Tokens,
             DispatchFenced(op, i, claims, token)
      PROVE  LifecycleInv'
  <2>1. /\ UNCHANGED <<recovered, settled, foreign_authorizations, intents,
                       operation_reservations, foreign_cancellations>>
        /\ operation_states[op] = "authorized"
        /\ operation_states' = [operation_states EXCEPT ![op] = "fenced"]
        /\ fences' = [fences EXCEPT ![op] = [claims |-> claims, token |-> token]]
        /\ foreign_fences' =
             foreign_fences \cup ({foreign_authorizations[op]} \ {None})
    BY <1>3 DEF DispatchFenced, counterpartyVars, intentVars, historyVars
  <2>2. [op |-> op, decision |-> op] \in intents
    <3>1. i \in [op : Ops, decision : Ops \cup LegacyDecisions]
      BY ReplayAssumption DEF TypeOK
    <3>2. i = [op |-> op, decision |-> op]
      BY <1>3, <3>1 DEF DispatchFenced, JoinedIntent
    <3>3. QED BY <3>2
  <2>3. /\ token # "absent" => claims.op = op
        /\ foreign_authorizations[op] # None =>
             foreign_authorizations[op] \notin foreign_cancellations
    BY <1>3 DEF DispatchFenced, FenceJoins, ForeignFenceAllowed
  <2>4. [claims |-> claims, token |-> token] # NoFence
    <3>1. claims # None
      BY ReplayAssumption DEF Dispatches
    <3>2. QED BY <3>1 DEF NoFence
  <2>5. recovered[op] = None /\ settled[op] = None
    <3>1. OperationInv(op) /\ fences[op] = NoFence
      BY <1>2, <2>1 DEF OperationInv
    <3>2. fences[op].token # "genuine"
      BY <3>1 DEF NoFence
    <3>3. QED BY <2>1, <3>1, <3>2 DEF OperationInv
  <2>6. OperationInv(op)'
    BY <1>2, <2>1, <2>2, <2>3, <2>4, <2>5 DEF OperationInv, TypeOK
  <2>7. \A o \in Ops \ {op} : OperationInv(o)'
    BY <1>2, <2>1, OperationFrame DEF TypeOK
  <2>8. QED BY <2>1, <2>3, <2>6, <2>7 DEF LifecycleInv
<1>4. ASSUME NEW body \in Bodies, CounterpartyPending(op, body)
      PROVE  LifecycleInv'
  <2>1. /\ UNCHANGED <<fences, recovered, settled, foreign_authorizations,
                       intents, operation_reservations, foreign_fences,
                       foreign_cancellations>>
        /\ fences[op] # NoFence /\ operation_states[op] = "fenced"
        /\ operation_states' = [operation_states EXCEPT ![op] = "pending"]
    BY <1>4 DEF CounterpartyPending, foreignVars, accountVars, intentVars,
       historyVars
  <2>2. OperationInv(op)'
    BY <1>2, <2>1 DEF OperationInv, TypeOK
  <2>3. \A o \in Ops \ {op} : OperationInv(o)'
    BY <1>2, <2>1, OperationFrame DEF TypeOK
  <2>4. QED BY <2>1, <2>2, <2>3 DEF LifecycleInv
<1>5. ASSUME NEW a \in resume_authentications, CounterpartyResumeFenced(op, a)
      PROVE  LifecycleInv'
  <2>1. /\ UNCHANGED <<fences, recovered, settled, foreign_authorizations,
                       intents, operation_reservations, foreign_fences,
                       foreign_cancellations>>
        /\ fences[op] # NoFence /\ operation_states[op] = "pending"
        /\ operation_states' = [operation_states EXCEPT ![op] = "fenced"]
    BY <1>5 DEF CounterpartyResumeFenced, foreignVars, accountVars, intentVars
  <2>2. OperationInv(op)'
    BY <1>2, <2>1 DEF OperationInv, TypeOK
  <2>3. \A o \in Ops \ {op} : OperationInv(o)'
    BY <1>2, <2>1, OperationFrame DEF TypeOK
  <2>4. QED BY <2>1, <2>2, <2>3 DEF LifecycleInv
<1>6. ASSUME NEW a \in reconciliation_authentications, NEW outcome \in Outcomes,
             CounterpartyRecovered(op, a, outcome)
      PROVE  LifecycleInv'
  <2>1. /\ UNCHANGED <<operation_states, fences, settled, intents,
                       foreign_authorizations, operation_reservations,
                       foreign_fences, foreign_cancellations>>
        /\ operation_states[op] \in {"fenced", "pending"}
        /\ fences[op].token = "genuine" /\ outcome.dispatch = fences[op].claims
        /\ recovered' = [recovered EXCEPT ![op] = outcome]
    BY <1>6 DEF CounterpartyRecovered, MayRecover, foreignVars, accountVars,
       intentVars, historyVars
  <2>2. OperationInv(op)'
    BY <1>2, <2>1 DEF OperationInv, TypeOK
  <2>3. \A o \in Ops \ {op} : OperationInv(o)'
    BY <1>2, <2>1, OperationFrame DEF TypeOK
  <2>4. QED BY <2>1, <2>2, <2>3 DEF LifecycleInv
<1>7. QED BY <1>1, <1>3, <1>4, <1>5, <1>6

LEMMA LifecycleSettle ==
  ASSUME TypeOK, LifecycleInv, Settle
  PROVE  LifecycleInv'
<1>1. PICK op \in Ops :
        \/ ReleaseBeforeFence(op)
        \/ ReleaseWithoutReceipt(op)
        \/ \E outcome \in Outcomes : ReleaseOnReceipt(op, outcome)
        \/ \E outcome \in Outcomes : Commit(op, outcome)
  BY DEF Settle
<1>2. \A o \in Ops : OperationInv(o)
  BY DEF LifecycleInv
<1>3. /\ UNCHANGED <<fences, recovered, foreign_authorizations, intents,
                     operation_reservations, foreign_fences,
                     foreign_cancellations>>
      /\ \E s \in {"committed", "released"} :
           operation_states' = [operation_states EXCEPT ![op] = s]
      /\ \A o \in Ops \ {op} : settled'[o] = settled[o]
  BY <1>1 DEF ReleaseBeforeFence, ReleaseWithoutReceipt, ReleaseOnReceipt,
     Commit, ReleaseReservations, counterpartyVars, foreignVars, intentVars,
     historyVars, TypeOK
<1>4. \A o \in Ops \ {op} : OperationInv(o)'
  BY <1>2, <1>3, OperationFrame DEF TypeOK
<1>5. CASE ReleaseBeforeFence(op) \/ ReleaseWithoutReceipt(op)
  <2>1. /\ UNCHANGED settled
        /\ operation_states' = [operation_states EXCEPT ![op] = "released"]
        /\ \/ operation_states[op] = "authorized"
           \/ operation_states[op] \in {"fenced", "pending"} /\ recovered[op] = None
    BY <1>5 DEF ReleaseBeforeFence, ReleaseWithoutReceipt, SettlesAfterFence,
       historyVars
  <2>2. OperationInv(op)'
    BY <1>2, <1>3, <2>1 DEF OperationInv, TypeOK, NoFence
  <2>3. QED BY <1>3, <1>4, <2>2 DEF LifecycleInv
<1>6. ASSUME NEW outcome \in Outcomes,
             ReleaseOnReceipt(op, outcome) \/ Commit(op, outcome)
      PROVE  LifecycleInv'
  <2>1. /\ settled' = [settled EXCEPT ![op] = outcome]
        /\ fences[op] # NoFence /\ outcome.dispatch = fences[op].claims
        /\ recovered[op] \in {None, outcome}
        /\ operation_states[op] \in {"fenced", "pending"}
        /\ \/ operation_states' = [operation_states EXCEPT ![op] = "released"]
           \/ /\ operation_states' = [operation_states EXCEPT ![op] = "committed"]
              /\ outcome.status = "committed" /\ fences[op].token # "absent"
    BY <1>6 DEF ReleaseOnReceipt, Commit, MaySettle, SettlesAfterFence
  <2>2. outcome # None
    BY ReplayAssumption DEF Outcomes, Dispatches
  <2>3. OperationInv(op)'
    BY <1>2, <1>3, <2>1, <2>2 DEF OperationInv, TypeOK
  <2>4. QED BY <1>3, <1>4, <2>3 DEF LifecycleInv
<1>7. QED BY <1>1, <1>5, <1>6

LEMMA LifecycleStep ==
  ASSUME TypeOK, LifecycleInv, [Next]_vars
  PROVE  LifecycleInv'
<1>1. CASE UNCHANGED vars
  BY <1>1 DEF vars, counterpartyVars, foreignVars, accountVars, intentVars,
     historyVars, LifecycleInv, OperationInv
<1>2. CASE Next
  BY <1>2, LifecycleRecord, LifecycleDecide, LifecycleAdvance, LifecycleSettle
     DEF Next
<1>3. QED BY <1>1, <1>2

LEMMA LifecycleHolds == Spec => [](TypeOK /\ LifecycleInv)
<1>1. TypeOK /\ LifecycleInv /\ [Next]_vars => LifecycleInv'
  BY LifecycleStep
<1>2. QED BY <1>1, LifecycleInit, TypeCorrect, PTL DEF Spec

\* No operation of a cancelled foreign identity is dispatched, whatever comes
\* first: a fence keeps the identity from being cancelled and a cancellation
\* keeps the operation from being fenced.
THEOREM CancellationExcludesHolds == Spec => []CancellationExcludes
<1>1. TypeOK /\ LifecycleInv => CancellationExcludes
  <2>1. SUFFICES ASSUME TypeOK, LifecycleInv, NEW op \in Ops,
                        foreign_authorizations[op] \in foreign_cancellations
                 PROVE  /\ fences[op] = NoFence
                        /\ operation_states[op] \in {"authorized", "released"}
    BY DEF CancellationExcludes
  <2>2. OperationInv(op) /\ foreign_authorizations[op] # None
    BY <2>1, ReplayAssumption DEF LifecycleInv, TypeOK
  <2>3. fences[op] = NoFence
    BY <2>1, <2>2 DEF OperationInv, LifecycleInv
  <2>4. QED BY <2>1, <2>2, <2>3 DEF OperationInv, TypeOK, OperationStates
<1>2. QED BY <1>1, LifecycleHolds, PTL

\* A commitment always traces back to an intent, a dispatch with a token and
\* a committed receipt, all of the operation that committed.
THEOREM CommittedWasDispatchedHolds == Spec => []CommittedWasDispatched
<1>1. TypeOK /\ LifecycleInv => CommittedWasDispatched
  BY DEF CommittedWasDispatched, LifecycleInv, OperationInv
<1>2. QED BY <1>1, LifecycleHolds, PTL

\* An operation whose terminal was recovered ends as that terminal says, and
\* on its own genuinely signed dispatch.
THEOREM RecoveryDecidesHolds == Spec => []RecoveryDecides
<1>1. TypeOK /\ LifecycleInv => RecoveryDecides
  <2>1. SUFFICES ASSUME TypeOK, LifecycleInv, NEW op \in Ops, recovered[op] # None
                 PROVE  /\ fences[op].token = "genuine"
                        /\ recovered[op].dispatch.op = op
                        /\ operation_states[op] \in {"committed", "released"} =>
                             settled[op] = recovered[op]
    BY DEF RecoveryDecides
  <2>2. fences[op].token = "genuine" /\ recovered[op].dispatch = fences[op].claims
    BY <2>1 DEF LifecycleInv, OperationInv
  <2>3. fences[op] # NoFence
    BY <2>2 DEF NoFence
  <2>4. fences[op].claims.op = op
    BY <2>1, <2>2, <2>3 DEF LifecycleInv, OperationInv
  <2>5. QED BY <2>1, <2>2, <2>4 DEF LifecycleInv, OperationInv
<1>2. QED BY <1>1, LifecycleHolds, PTL

-----------------------------------------------------------------------------
(* The accounts: reservations follow the lifecycle of the operation that   *)
(* owns them, running totals stay within the signed ceilings, and fenced   *)
(* capacity returns on a receipt only.  First, reservations and owners.    *)

LEMMA OwnersInit == Init => ReservationsFollowOwner /\ FencedCapacityNeedsReceipt
BY DEF Init, ReservationsFollowOwner, FencedCapacityNeedsReceipt

\* An accepted decision gives fresh reservations to an operation without any.
LEMMA OwnersReserve ==
  ASSUME TypeOK, LifecycleInv, ReservationsFollowOwner,
         NEW op \in Ops, NEW list \in AccountLists,
         NewOperation(op, "authorized"), Reserve(op, list)
  PROVE  ReservationsFollowOwner'
<1>1. PICK D \in SUBSET Keys : list \in [D -> Accounts]
  BY DEF AccountLists
<1> DEFINE rs == {list[k].reservation : k \in DOMAIN list}
<1>2. rs \subseteq Reservations
  BY <1>1 DEF Accounts
<1>3. operation_states[op] = "none" /\ operation_reservations[op] = {}
  BY DEF NewOperation, LifecycleInv, OperationInv
<1>4. operation_reservations' = [operation_reservations EXCEPT ![op] = rs]
  BY <1>3 DEF Reserve, TypeOK
<1>5. \A r \in rs : reservations[r] = NoReservation
  BY DEF Reserve, MayReserve
<1>6. \A r \in rs : reservations'[r].owner = op
                    /\ reservations'[r].state = "authorized"
  BY <1>2 DEF Reserve
<1>7. \A r \in Reservations \ rs : reservations'[r] = reservations[r]
  BY DEF Reserve
<1>8. \A o \in Ops : operation_reservations[o] \cap rs = {}
  <2>1. SUFFICES ASSUME NEW o \in Ops, NEW r \in operation_reservations[o], r \in rs
                 PROVE  FALSE
    OBVIOUS
  <2>2. reservations[r].owner = o
    BY DEF ReservationsFollowOwner
  <2>3. reservations[r].owner = None
    BY <1>5, <2>1 DEF NoReservation
  <2>4. QED BY <2>2, <2>3, ReplayAssumption
<1>9. operation_states' = [operation_states EXCEPT ![op] = "authorized"]
  BY DEF NewOperation
<1>10. ASSUME NEW o \in Ops, NEW r \in operation_reservations'[o]
       PROVE  /\ reservations'[r].owner = o
              /\ reservations'[r].state = ReservationStateOf(operation_states'[o])
  <2>1. CASE o = op
    BY <1>4, <1>6, <1>9, <1>10, <2>1 DEF TypeOK, ReservationStateOf
  <2>2. CASE o # op
    <3>1. r \in operation_reservations[o] /\ r \in Reservations \ rs
      BY <1>4, <1>8, <1>10, <2>2 DEF TypeOK
    <3>2. QED BY <1>7, <1>9, <2>2, <3>1 DEF ReservationsFollowOwner, TypeOK
  <2>3. QED BY <2>1, <2>2
<1>11. ASSUME NEW r \in Reservations, reservations'[r] # NoReservation
       PROVE  r \in operation_reservations'[reservations'[r].owner]
  <2>1. CASE r \in rs
    BY <1>4, <1>6, <2>1 DEF TypeOK
  <2>2. CASE r \notin rs
    <3>1. /\ reservations'[r] = reservations[r]
          /\ r \in operation_reservations[reservations[r].owner]
          /\ reservations[r].owner \in Ops
      BY <1>7, <1>11, <2>2 DEF ReservationsFollowOwner, TypeOK
    <3>2. reservations[r].owner # op
      BY <1>3, <3>1
    <3>3. QED BY <1>4, <3>1, <3>2 DEF TypeOK
  <2>3. QED BY <2>1, <2>2
<1>12. QED BY <1>10, <1>11 DEF ReservationsFollowOwner

\* All reservations of an operation move with it.
LEMMA OwnersMove ==
  ASSUME TypeOK, ReservationsFollowOwner, NEW op \in Ops,
         NEW state \in {"fenced", "committed", "released"},
         MoveReservations(operation_reservations[op], state),
         operation_states' = [operation_states EXCEPT ![op] = state],
         UNCHANGED operation_reservations
  PROVE  ReservationsFollowOwner'
<1>1. ASSUME NEW r \in Reservations
      PROVE  IF r \in operation_reservations[op]
             THEN reservations'[r] = [reservations[r] EXCEPT !.state = state]
             ELSE reservations'[r] = reservations[r]
  BY DEF MoveReservations
<1>2. ASSUME NEW r \in Reservations, r \in operation_reservations[op]
      PROVE  /\ reservations[r] \in
                  [key : Keys, amount : Amounts, owner : Ops,
                   state : {"authorized", "fenced", "committed", "released"}]
             /\ reservations[r].owner = op
  <2>1. reservations[r].owner = op
    BY <1>2 DEF ReservationsFollowOwner
  <2>2. reservations[r] # NoReservation
    BY <2>1, ReplayAssumption DEF NoReservation
  <2>3. QED BY <2>1, <2>2 DEF TypeOK
<1>3. ASSUME NEW o \in Ops, NEW r \in operation_reservations'[o]
      PROVE  /\ reservations'[r].owner = o
             /\ reservations'[r].state = ReservationStateOf(operation_states'[o])
  <2>1. r \in Reservations /\ r \in operation_reservations[o]
    BY <1>3 DEF TypeOK
  <2>2. CASE o = op
    BY <1>1, <1>2, <2>1, <2>2 DEF ReservationStateOf, TypeOK
  <2>3. CASE o # op
    <3>1. r \notin operation_reservations[op]
      BY <2>1, <2>3 DEF ReservationsFollowOwner
    <3>2. reservations'[r] = reservations[r]
      BY <1>1, <2>1, <3>1
    <3>3. operation_states'[o] = operation_states[o]
      BY <2>3 DEF TypeOK
    <3>4. QED BY <2>1, <3>2, <3>3 DEF ReservationsFollowOwner
  <2>4. QED BY <2>2, <2>3
<1>4. ASSUME NEW r \in Reservations, reservations'[r] # NoReservation
      PROVE  r \in operation_reservations'[reservations'[r].owner]
  <2>1. CASE r \in operation_reservations[op]
    BY <1>1, <1>2, <2>1
  <2>2. CASE r \notin operation_reservations[op]
    BY <1>1, <1>4, <2>2 DEF ReservationsFollowOwner
  <2>3. QED BY <2>1, <2>2
<1>5. QED BY <1>3, <1>4 DEF ReservationsFollowOwner

\* Whatever an unsettled operation owns is still to be settled.
LEMMA AllRelevant ==
  ASSUME TypeOK, ReservationsFollowOwner, NEW op \in Ops,
         operation_states[op] \in {"authorized", "fenced", "pending"}
  PROVE  Relevant(op) = operation_reservations[op]
BY DEF Relevant, ReservationsFollowOwner, ReservationStateOf

LEMMA OwnersStep ==
  ASSUME TypeOK, LifecycleInv, ReservationsFollowOwner, [Next]_vars
  PROVE  ReservationsFollowOwner'
<1>1. CASE UNCHANGED <<operation_states, reservations, operation_reservations>>
  BY <1>1 DEF ReservationsFollowOwner
<1>2. CASE Decide
  <2>1. PICK op \in Ops :
          \/ Refuse(op)
          \/ \E t \in Times, as \in SUBSET Approvals, list \in AccountLists :
               \/ \E p \in Proofs : AuthorizeNative(op, t, p, as, list)
               \/ \E d \in ForeignDispatches : AuthorizeForeign(op, t, d, as, list)
    BY <1>2 DEF Decide
  <2>2. CASE Refuse(op)
    <3>1. /\ UNCHANGED <<reservations, operation_reservations>>
          /\ operation_states[op] = "none"
          /\ operation_states' = [operation_states EXCEPT ![op] = "refused"]
      BY <2>2 DEF Refuse, NewOperation, accountVars
    <3>2. operation_reservations[op] = {}
      BY <3>1 DEF LifecycleInv, OperationInv
    <3>3. QED BY <3>1, <3>2 DEF ReservationsFollowOwner, TypeOK
  <2>3. CASE \E t \in Times, as \in SUBSET Approvals, list \in AccountLists :
               \/ \E p \in Proofs : AuthorizeNative(op, t, p, as, list)
               \/ \E d \in ForeignDispatches : AuthorizeForeign(op, t, d, as, list)
    BY <2>3, OwnersReserve DEF AuthorizeNative, AuthorizeForeign
  <2>4. QED BY <2>1, <2>2, <2>3
<1>3. CASE Advance
  <2>1. PICK op \in Ops :
        \/ \E i \in intents, claims \in Dispatches, token \in Tokens :
             DispatchFenced(op, i, claims, token)
        \/ \E body \in Bodies : CounterpartyPending(op, body)
        \/ \E a \in resume_authentications : CounterpartyResumeFenced(op, a)
        \/ \E a \in reconciliation_authentications, outcome \in Outcomes :
             CounterpartyRecovered(op, a, outcome)
    BY <1>3 DEF Advance
  <2>2. CASE \E i \in intents, claims \in Dispatches, token \in Tokens :
               DispatchFenced(op, i, claims, token)
    BY <2>2, OwnersMove DEF DispatchFenced
  <2>3. CASE \/ \E body \in Bodies : CounterpartyPending(op, body)
             \/ \E a \in resume_authentications : CounterpartyResumeFenced(op, a)
    <3>1. /\ UNCHANGED <<reservations, operation_reservations>>
          /\ \/ /\ operation_states[op] = "fenced"
                /\ operation_states' = [operation_states EXCEPT ![op] = "pending"]
             \/ /\ operation_states[op] = "pending"
                /\ operation_states' = [operation_states EXCEPT ![op] = "fenced"]
      BY <2>3 DEF CounterpartyPending, CounterpartyResumeFenced, accountVars
    <3>2. \A o \in Ops : ReservationStateOf(operation_states'[o])
                         = ReservationStateOf(operation_states[o])
      BY <3>1 DEF ReservationStateOf, TypeOK
    <3>3. QED BY <3>1, <3>2 DEF ReservationsFollowOwner
  <2>4. CASE \E a \in reconciliation_authentications, outcome \in Outcomes :
               CounterpartyRecovered(op, a, outcome)
    BY <1>1, <2>4 DEF CounterpartyRecovered, accountVars
  <2>5. QED BY <2>1, <2>2, <2>3, <2>4
<1>4. CASE Settle
  <2>1. PICK op \in Ops :
        \/ ReleaseBeforeFence(op) \/ ReleaseWithoutReceipt(op)
        \/ \E outcome \in Outcomes : ReleaseOnReceipt(op, outcome)
        \/ \E outcome \in Outcomes : Commit(op, outcome)
    BY <1>4 DEF Settle
  <2>2. /\ operation_states[op] \in {"authorized", "fenced", "pending"}
        /\ UNCHANGED operation_reservations
        /\ \E s \in {"committed", "released"} :
             /\ MoveReservations(Relevant(op), s)
             /\ operation_states' = [operation_states EXCEPT ![op] = s]
    BY <2>1 DEF ReleaseBeforeFence, ReleaseWithoutReceipt, ReleaseOnReceipt,
       Commit, MaySettle, SettlesAfterFence, ReleaseReservations
  <2>3. QED BY <2>2, AllRelevant, OwnersMove
<1>5. CASE Authenticate \/ Fail \/ UNCHANGED vars
  BY <1>1, <1>5 DEF Authenticate, Authentication, Fail, vars, accountVars
<1>6. CASE \/ \E d \in LegacyDecisions : LegacyDecision(d)
           \/ \E i \in Intents : ConsequenceIntent(i)
           \/ \E identity \in Foreign : CounterpartyCancelled(identity)
  BY <1>1, <1>6 DEF LegacyDecision, ConsequenceIntent, CounterpartyCancelled,
     accountVars
<1>7. QED BY <1>2, <1>3, <1>4, <1>5, <1>6 DEF Next

LEMMA OwnersHold == Spec => [](TypeOK /\ LifecycleInv /\ ReservationsFollowOwner)
<1>1. TypeOK /\ LifecycleInv /\ ReservationsFollowOwner /\ [Next]_vars
      => ReservationsFollowOwner'
  BY OwnersStep
<1>2. QED BY <1>1, OwnersInit, LifecycleHolds, PTL DEF Spec

\* Reservations are never orphaned: each one that exists belongs to one
\* operation, and is authorized, fenced, committed or released as that
\* operation is.
THEOREM ReservationsFollowOwnerHolds == Spec => []ReservationsFollowOwner
BY OwnersHold, PTL
-----------------------------------------------------------------------------
(* What one record can do to one operation.                                *)

\* A record moves an operation one step along its lifecycle, or leaves its
\* state, its dispatch, its reservations and its receipt alone.
LEMMA OperationSteps ==
  ASSUME TypeOK, [Next]_vars, NEW o \in Ops
  PROVE  \/ /\ operation_states'[o] = operation_states[o]
            /\ fences'[o] = fences[o] /\ settled'[o] = settled[o]
            /\ operation_reservations'[o] = operation_reservations[o]
         \/ /\ operation_states[o] = "none"
            /\ operation_states'[o] \in {"authorized", "refused"}
         \/ /\ operation_states[o] = "authorized"
            /\ operation_states'[o] = "fenced"
         \/ /\ operation_states[o] = "fenced"
            /\ operation_states'[o] = "pending"
         \/ /\ operation_states[o] = "pending"
            /\ operation_states'[o] = "fenced" /\ resumes' # resumes
         \/ ReleaseBeforeFence(o) \/ ReleaseWithoutReceipt(o)
         \/ \E outcome \in Outcomes :
              ReleaseOnReceipt(o, outcome) \/ Commit(o, outcome)
<1> DEFINE Same == /\ operation_states'[o] = operation_states[o]
                   /\ fences'[o] = fences[o] /\ settled'[o] = settled[o]
                   /\ operation_reservations'[o] = operation_reservations[o]
<1>1. CASE UNCHANGED <<operation_states, fences, settled, operation_reservations>>
  BY <1>1
<1>2. CASE Decide
  <2>1. PICK op \in Ops :
          \/ Refuse(op)
          \/ \E t \in Times, as \in SUBSET Approvals, list \in AccountLists :
               \/ \E p \in Proofs : AuthorizeNative(op, t, p, as, list)
               \/ \E d \in ForeignDispatches : AuthorizeForeign(op, t, d, as, list)
    BY <1>2 DEF Decide
  <2>0. ASSUME NEW list \in AccountLists, Reserve(op, list)
        PROVE  \A p \in Ops \ {op} :
                 operation_reservations'[p] = operation_reservations[p]
    BY <2>0 DEF Reserve, TypeOK
  <2>2. /\ operation_states[op] = "none"
        /\ \E s \in {"authorized", "refused"} :
             operation_states' = [operation_states EXCEPT ![op] = s]
        /\ UNCHANGED <<fences, settled>>
        /\ \A p \in Ops \ {op} :
             operation_reservations'[p] = operation_reservations[p]
    <3>1. CASE Refuse(op)
      BY <3>1 DEF Refuse, NewOperation, accountVars, historyVars
    <3>2. CASE \E t \in Times, as \in SUBSET Approvals, list \in AccountLists :
                 \E p \in Proofs : AuthorizeNative(op, t, p, as, list)
      <4>1. PICK t \in Times, as \in SUBSET Approvals, list \in AccountLists,
                 p \in Proofs : AuthorizeNative(op, t, p, as, list)
        BY <3>2
      <4>2. operation_states[op] = "none"
        BY <4>1 DEF AuthorizeNative, NewOperation
      <4>3. operation_states' = [operation_states EXCEPT ![op] = "authorized"]
        BY <4>1 DEF AuthorizeNative, NewOperation
      <4>4. UNCHANGED <<fences, settled>>
        BY <4>1 DEF AuthorizeNative, historyVars
      <4>5. Reserve(op, list)
        BY <4>1 DEF AuthorizeNative
      <4>6. QED BY <2>0, <4>2, <4>3, <4>4, <4>5
    <3>3. CASE \E t \in Times, as \in SUBSET Approvals, list \in AccountLists :
                 \E d \in ForeignDispatches : AuthorizeForeign(op, t, d, as, list)
      <4>1. PICK t \in Times, as \in SUBSET Approvals, list \in AccountLists,
                 d \in ForeignDispatches : AuthorizeForeign(op, t, d, as, list)
        BY <3>3
      <4>2. operation_states[op] = "none"
        BY <4>1 DEF AuthorizeForeign, NewOperation
      <4>3. operation_states' = [operation_states EXCEPT ![op] = "authorized"]
        BY <4>1 DEF AuthorizeForeign, NewOperation
      <4>4. UNCHANGED <<fences, settled>>
        BY <4>1 DEF AuthorizeForeign, historyVars
      <4>5. Reserve(op, list)
        BY <4>1 DEF AuthorizeForeign
      <4>6. QED BY <2>0, <4>2, <4>3, <4>4, <4>5
    <3>4. QED BY <2>1, <3>1, <3>2, <3>3
  <2>3. CASE o = op
    BY <2>2, <2>3 DEF TypeOK
  <2>4. CASE o # op
    BY <2>2, <2>4 DEF TypeOK
  <2>5. QED BY <2>3, <2>4
<1>3. CASE Advance
  <2>1. PICK op \in Ops :
        \/ \E i \in intents, claims \in Dispatches, token \in Tokens :
             DispatchFenced(op, i, claims, token)
        \/ \E body \in Bodies : CounterpartyPending(op, body)
        \/ \E a \in resume_authentications : CounterpartyResumeFenced(op, a)
        \/ \E a \in reconciliation_authentications, outcome \in Outcomes :
             CounterpartyRecovered(op, a, outcome)
    BY <1>3 DEF Advance
  <2>2. UNCHANGED <<settled, operation_reservations>>
    BY <2>1 DEF DispatchFenced, CounterpartyPending, CounterpartyResumeFenced,
       CounterpartyRecovered, accountVars, historyVars
  <2>3. CASE \E i \in intents, claims \in Dispatches, token \in Tokens :
               DispatchFenced(op, i, claims, token)
    BY <2>2, <2>3 DEF DispatchFenced, TypeOK
  <2>4. CASE \E body \in Bodies : CounterpartyPending(op, body)
    BY <2>2, <2>4 DEF CounterpartyPending, TypeOK
  <2>5. CASE \E a \in resume_authentications : CounterpartyResumeFenced(op, a)
    <3>1. /\ operation_states[op] = "pending"
          /\ operation_states' = [operation_states EXCEPT ![op] = "fenced"]
          /\ resumes' = [resumes EXCEPT ![op] = @ + 1]
          /\ UNCHANGED fences
      BY <2>5 DEF CounterpartyResumeFenced
    <3>2. resumes'[op] # resumes[op]
      BY <3>1 DEF TypeOK
    <3>3. QED BY <2>2, <3>1, <3>2 DEF TypeOK
  <2>6. CASE \E a \in reconciliation_authentications, outcome \in Outcomes :
               CounterpartyRecovered(op, a, outcome)
    BY <2>2, <2>6 DEF CounterpartyRecovered
  <2>7. QED BY <2>1, <2>3, <2>4, <2>5, <2>6
<1>4. CASE Settle
  <2>1. PICK op \in Ops :
        \/ ReleaseBeforeFence(op) \/ ReleaseWithoutReceipt(op)
        \/ \E outcome \in Outcomes : ReleaseOnReceipt(op, outcome)
        \/ \E outcome \in Outcomes : Commit(op, outcome)
    BY <1>4 DEF Settle
  <2>2. CASE o = op
    BY <2>1, <2>2
  <2>3. CASE o # op
    <3>1. /\ UNCHANGED <<fences, operation_reservations>>
          /\ operation_states'[o] = operation_states[o]
          /\ settled'[o] = settled[o]
      BY <2>1, <2>3 DEF ReleaseBeforeFence, ReleaseWithoutReceipt,
         ReleaseOnReceipt, Commit, ReleaseReservations, historyVars, TypeOK
    <3>2. QED BY <3>1
  <2>4. QED BY <2>2, <2>3
<1>5. CASE Authenticate \/ Fail \/ UNCHANGED vars
  BY <1>1, <1>5 DEF Authenticate, Authentication, Fail, vars, accountVars,
     historyVars
<1>6. CASE \/ \E d \in LegacyDecisions : LegacyDecision(d)
           \/ \E i \in Intents : ConsequenceIntent(i)
           \/ \E identity \in Foreign : CounterpartyCancelled(identity)
  BY <1>1, <1>6 DEF LegacyDecision, ConsequenceIntent, CounterpartyCancelled,
     accountVars, historyVars
<1>7. QED BY <1>2, <1>3, <1>4, <1>5, <1>6 DEF Next

LEMMA ReceiptStep ==
  ASSUME TypeOK, LifecycleInv, ReservationsFollowOwner,
         FencedCapacityNeedsReceipt, [Next]_vars
  PROVE  FencedCapacityNeedsReceipt'
<1>1. SUFFICES ASSUME NEW o \in Ops, operation_states'[o] = "released",
                      fences'[o] # NoFence, operation_reservations'[o] # {}
               PROVE  settled'[o] # None /\ settled'[o].status = "not_executed"
  BY DEF FencedCapacityNeedsReceipt
<1>2. CASE /\ operation_states'[o] = operation_states[o]
           /\ fences'[o] = fences[o] /\ settled'[o] = settled[o]
           /\ operation_reservations'[o] = operation_reservations[o]
  BY <1>1, <1>2 DEF FencedCapacityNeedsReceipt
<1>3. CASE ReleaseBeforeFence(o)
  BY <1>1, <1>3 DEF ReleaseBeforeFence, LifecycleInv, OperationInv
<1>4. CASE ReleaseWithoutReceipt(o)
  <2>1. PICK r \in operation_reservations[o] : TRUE
    BY <1>1, <1>4 DEF ReleaseWithoutReceipt, ReleaseReservations
  <2>2. operation_states[o] \in {"fenced", "pending"}
    BY <1>4 DEF ReleaseWithoutReceipt, SettlesAfterFence
  <2>3. reservations[r].state = "fenced"
    BY <2>2 DEF ReservationsFollowOwner, ReservationStateOf
  <2>4. QED BY <1>4, <2>1, <2>3 DEF ReleaseWithoutReceipt, CapacityUnfenced, Relevant
<1>5. ASSUME NEW outcome \in Outcomes, ReleaseOnReceipt(o, outcome)
      PROVE  settled'[o] # None /\ settled'[o].status = "not_executed"
  <2>1. outcome # None
    BY ReplayAssumption DEF Outcomes, Dispatches
  <2>2. QED BY <1>5, <2>1 DEF ReleaseOnReceipt, TypeOK
<1>6. ASSUME NEW outcome \in Outcomes, Commit(o, outcome)
      PROVE  FALSE
  BY <1>1, <1>6 DEF Commit, TypeOK
<1>7. QED BY <1>1, <1>2, <1>3, <1>4, <1>5, <1>6, OperationSteps

\* Capacity an operation took to the resource is released on a signed
\* not_executed receipt and on nothing else.
THEOREM FencedCapacityHolds == Spec => []FencedCapacityNeedsReceipt
<1>1. /\ TypeOK /\ LifecycleInv /\ ReservationsFollowOwner
      /\ FencedCapacityNeedsReceipt /\ [Next]_vars
      => FencedCapacityNeedsReceipt'
  BY ReceiptStep
<1>2. QED BY <1>1, OwnersInit, OwnersHold, PTL DEF Spec

\* An operation leaves "pending" only by an authenticated resume or on its
\* recovered terminal, and never leaves a terminal state.
THEOREM LifecycleOrderHolds == Spec => LifecycleOrder
<1>1. ASSUME TypeOK, [Next]_vars, NEW o \in Ops,
             operation_states'[o] # operation_states[o]
      PROVE  /\ operation_states[o] \notin {"refused", "committed", "released"}
             /\ operation_states[o] = "pending" =>
                  \/ resumes' # resumes /\ operation_states'[o] = "fenced"
                  \/ recovered[o] # None /\ settled'[o] = recovered[o]
  <2>1. CASE ReleaseBeforeFence(o) \/ ReleaseWithoutReceipt(o)
    BY <2>1 DEF ReleaseBeforeFence, ReleaseWithoutReceipt, SettlesAfterFence
  <2>2. ASSUME NEW outcome \in Outcomes,
               ReleaseOnReceipt(o, outcome) \/ Commit(o, outcome)
        PROVE  /\ operation_states[o] \in {"fenced", "pending"}
               /\ operation_states[o] = "pending" =>
                    recovered[o] # None /\ settled'[o] = recovered[o]
    BY <1>1, <2>2 DEF ReleaseOnReceipt, Commit, MaySettle, SettlesAfterFence,
       TypeOK
  <2>3. QED BY <1>1, <2>1, <2>2, OperationSteps
<1>2. TypeOK /\ [Next]_vars =>
        [\A op \in Ops :
           operation_states'[op] # operation_states[op] =>
             /\ operation_states[op] \notin {"refused", "committed", "released"}
             /\ operation_states[op] = "pending" =>
                  \/ resumes' # resumes /\ operation_states'[op] = "fenced"
                  \/ recovered[op] # None /\ settled'[op] = recovered[op]]_vars
  BY <1>1
<1>3. QED BY <1>2, TypeCorrect, PTL DEF Spec, LifecycleOrder
-----------------------------------------------------------------------------
(* Running totals.                                                         *)

LEMMA CeilingsInit == Init => CeilingsKnown /\ WithinCeiling
BY DEF Init, CeilingsKnown, WithinCeiling, NoReservation

LEMMA CeilingsReserve ==
  ASSUME TypeOK, CeilingsKnown, WithinCeiling,
         NEW op \in Ops, NEW list \in AccountLists, Reserve(op, list)
  PROVE  CeilingsKnown' /\ WithinCeiling'
<1>1. PICK D \in SUBSET Keys : list \in [D -> Accounts]
  BY DEF AccountLists
<1>2. \A k \in DOMAIN list :
        /\ k \in Keys /\ list[k].amount \in Nat /\ list[k].ceiling \in Nat
        /\ list[k].ceiling # None
        /\ list[k].amount <= list[k].ceiling - charged[k].used
        /\ charged[k].used \in Int
        /\ charged'[k].used = charged[k].used + list[k].amount
        /\ charged'[k].ceiling = list[k].ceiling
  <2>1. \A k \in DOMAIN list :
          /\ k \in Keys /\ list[k].amount \in Nat /\ list[k].ceiling \in Nat
          /\ list[k].ceiling # None
    BY <1>1, ReplayAssumption DEF Accounts
  <2>2. \A k \in DOMAIN list :
          charged'[k] = [used |-> charged[k].used + list[k].amount,
                         ceiling |-> list[k].ceiling]
    BY <2>1 DEF Reserve
  <2>3. QED BY <2>1, <2>2 DEF Reserve, MayReserve, TypeOK
<1>3. \A k \in Keys : k \notin DOMAIN list => charged'[k] = charged[k]
  BY DEF Reserve
<1>4. WithinCeiling'
  <2>1. SUFFICES ASSUME NEW k \in Keys
                 PROVE  IF charged'[k].ceiling = None THEN charged'[k].used = 0
                        ELSE charged'[k].used <= charged'[k].ceiling
    BY DEF WithinCeiling
  <2>2. CASE k \in DOMAIN list
    BY <1>2, <2>2
  <2>3. CASE k \notin DOMAIN list
    BY <1>3, <2>3 DEF WithinCeiling
  <2>4. QED BY <2>2, <2>3
<1>5. ASSUME NEW r \in Reservations, reservations'[r] # NoReservation
      PROVE  charged'[reservations'[r].key].ceiling # None
  <2>1. CASE \E k \in DOMAIN list : list[k].reservation = r
    <3> DEFINE k == CHOOSE j \in DOMAIN list : list[j].reservation = r
    <3>1. k \in DOMAIN list
      BY <2>1
    <3>2. reservations'[r].key = k
      BY <2>1 DEF Reserve
    <3>3. charged'[k].ceiling # None
      BY <1>2, <3>1
    <3>4. QED BY <3>2, <3>3
  <2>2. CASE ~\E k \in DOMAIN list : list[k].reservation = r
    <3>1. /\ reservations'[r] = reservations[r]
          /\ reservations[r].key \in Keys
      BY <1>5, <2>2 DEF Reserve, TypeOK
    <3>2. charged[reservations[r].key].ceiling # None
      BY <1>5, <3>1 DEF CeilingsKnown
    <3>3. charged'[reservations[r].key].ceiling # None
      BY <1>2, <1>3, <3>1, <3>2
    <3>4. QED BY <3>1, <3>3
  <2>3. QED BY <2>1, <2>2
<1>6. QED BY <1>4, <1>5 DEF CeilingsKnown

\* Moving reservations that exist keeps their keys.
LEMMA CeilingsMove ==
  ASSUME TypeOK, CeilingsKnown, NEW rs, NEW state,
         \A r \in rs : reservations[r] # NoReservation,
         MoveReservations(rs, state),
         \A k \in Keys : charged'[k].ceiling = charged[k].ceiling
  PROVE  CeilingsKnown'
<1>1. SUFFICES ASSUME NEW r \in Reservations, reservations'[r] # NoReservation
               PROVE  charged'[reservations'[r].key].ceiling # None
  BY DEF CeilingsKnown
<1>2. /\ reservations[r] # NoReservation
      /\ reservations'[r].key = reservations[r].key
  BY <1>1 DEF MoveReservations, TypeOK
<1>3. QED BY <1>2 DEF CeilingsKnown, TypeOK

LEMMA CeilingsRelease ==
  ASSUME TypeOK, CeilingsKnown, WithinCeiling, NEW op \in Ops,
         ReleaseReservations(op)
  PROVE  CeilingsKnown' /\ WithinCeiling'
<1>1. \A k \in Keys :
        /\ charged'[k].ceiling = charged[k].ceiling
        /\ charged'[k].used = charged[k].used - Held(op, k)
        /\ charged[k].used \in Int /\ Held(op, k) \in Nat
  BY HeldTyped DEF ReleaseReservations, TypeOK
<1>2. CeilingsKnown'
  BY <1>1, RelevantExist, CeilingsMove DEF ReleaseReservations
<1>3. \A k \in Keys : charged[k].ceiling = None => Held(op, k) = 0
  BY RelevantExist DEF Held, CeilingsKnown, TypeOK
<1>4. \A k \in Keys : charged[k].ceiling # None => charged[k].ceiling \in Nat
  BY ReplayAssumption DEF TypeOK
<1>5. WithinCeiling'
  BY <1>1, <1>3, <1>4 DEF WithinCeiling
<1>6. QED BY <1>2, <1>5

LEMMA CeilingsStep ==
  ASSUME TypeOK, CeilingsKnown, WithinCeiling, [Next]_vars
  PROVE  CeilingsKnown' /\ WithinCeiling'
<1>1. CASE UNCHANGED <<charged, reservations>>
  BY <1>1 DEF CeilingsKnown, WithinCeiling
<1>2. CASE Decide
  <2>1. \/ UNCHANGED <<charged, reservations>>
        \/ \E op \in Ops, list \in AccountLists : Reserve(op, list)
    BY <1>2 DEF Decide, Refuse, AuthorizeNative, AuthorizeForeign, accountVars
  <2>2. QED BY <1>1, <2>1, CeilingsReserve
<1>3. CASE Advance
  <2>1. \/ UNCHANGED <<charged, reservations>>
        \/ \E op \in Ops :
             /\ \A r \in operation_reservations[op] :
                  reservations[r].state = "authorized"
             /\ MoveReservations(operation_reservations[op], "fenced")
             /\ UNCHANGED charged
    BY <1>3 DEF Advance, DispatchFenced, CounterpartyPending,
       CounterpartyResumeFenced, CounterpartyRecovered, accountVars
  <2>2. ASSUME NEW op \in Ops,
               \A r \in operation_reservations[op] :
                  reservations[r].state = "authorized",
               MoveReservations(operation_reservations[op], "fenced"),
               UNCHANGED charged
        PROVE  CeilingsKnown' /\ WithinCeiling'
    <3>1. \A r \in operation_reservations[op] : reservations[r] # NoReservation
      BY <2>2 DEF NoReservation
    <3>2. QED BY <2>2, <3>1, CeilingsMove DEF WithinCeiling
  <2>3. QED BY <1>1, <2>1, <2>2
<1>4. CASE Settle
  <2>1. PICK op \in Ops :
          \/ ReleaseReservations(op)
          \/ MoveReservations(Relevant(op), "committed") /\ UNCHANGED charged
    BY <1>4 DEF Settle, ReleaseBeforeFence, ReleaseWithoutReceipt,
       ReleaseOnReceipt, Commit
  <2>2. CASE ReleaseReservations(op)
    BY <2>2, CeilingsRelease
  <2>3. CASE MoveReservations(Relevant(op), "committed") /\ UNCHANGED charged
    BY <2>3, RelevantExist, CeilingsMove DEF WithinCeiling
  <2>4. QED BY <2>1, <2>2, <2>3
<1>5. CASE Authenticate \/ Fail \/ UNCHANGED vars
  BY <1>1, <1>5 DEF Authenticate, Authentication, Fail, vars, accountVars
<1>6. CASE \/ \E d \in LegacyDecisions : LegacyDecision(d)
           \/ \E i \in Intents : ConsequenceIntent(i)
           \/ \E identity \in Foreign : CounterpartyCancelled(identity)
  BY <1>1, <1>6 DEF LegacyDecision, ConsequenceIntent, CounterpartyCancelled,
     accountVars
<1>7. QED BY <1>2, <1>3, <1>4, <1>5, <1>6 DEF Next

\* The running total of no account ever passes its signed ceiling, whatever
\* number of operations reserve, commit and release against it.
THEOREM WithinCeilingHolds == Spec => []WithinCeiling
<1>1. TypeOK /\ CeilingsKnown /\ WithinCeiling /\ [Next]_vars
      => CeilingsKnown' /\ WithinCeiling'
  BY CeilingsStep
<1>2. QED BY <1>1, CeilingsInit, TypeCorrect, PTL DEF Spec
-----------------------------------------------------------------------------
(* Resumes.                                                                *)

LEMMA ResumesInit == Init => ResumesInv
<1>1. SUFFICES ASSUME Init PROVE ResumesInv
  OBVIOUS
<1>2. \A op \in Ops :
        {a \in consumed_resume_authentication_hashes : a.op = op} = {}
  BY <1>1 DEF Init
<1>3. QED BY <1>1, <1>2, FS_EmptySet DEF Init, ResumesInv

LEMMA ResumesStep ==
  ASSUME TypeOK, ResumesInv, [Next]_vars
  PROVE  ResumesInv'
<1>1. CASE UNCHANGED <<resume_authentications, resumes,
                       consumed_resume_authentication_hashes>>
  BY <1>1 DEF ResumesInv
<1>2. CASE Authenticate
  <2>1. /\ UNCHANGED <<resumes, consumed_resume_authentication_hashes>>
        /\ \/ UNCHANGED resume_authentications
           \/ \E a : resume_authentications' = resume_authentications \cup {a}
    BY <1>2 DEF Authenticate, Authentication, RecordAuthentication, historyVars
  <2>2. QED BY <2>1, FS_AddElement DEF ResumesInv
<1>3. ASSUME NEW op \in Ops, NEW a \in resume_authentications,
             CounterpartyResumeFenced(op, a)
      PROVE  ResumesInv'
  <2> DEFINE Of(o) == {b \in consumed_resume_authentication_hashes : b.op = o}
  <2>1. /\ a \notin consumed_resume_authentication_hashes /\ a.op = op
        /\ consumed_resume_authentication_hashes' =
             consumed_resume_authentication_hashes \cup {a}
        /\ UNCHANGED resume_authentications
        /\ resumes' = [resumes EXCEPT ![op] = @ + 1]
    BY <1>3 DEF CounterpartyResumeFenced, MayResume
  <2>2. IsFiniteSet(consumed_resume_authentication_hashes)
    BY FS_Subset DEF ResumesInv, TypeOK
  <2>3. \A o \in Ops : IsFiniteSet(Of(o)) /\ resumes[o] = Cardinality(Of(o))
    BY <2>2, FS_Subset DEF ResumesInv
  <2>4. Of(op)' = Of(op) \cup {a} /\ a \notin Of(op)
    BY <2>1
  <2>5. \A o \in Ops \ {op} : Of(o)' = Of(o)
    BY <2>1
  <2>6. Cardinality(Of(op)') = Cardinality(Of(op)) + 1
    BY <2>3, <2>4, FS_AddElement
  <2>7. \A o \in Ops : resumes'[o] = Cardinality(Of(o)')
    BY <2>1, <2>3, <2>5, <2>6 DEF TypeOK
  <2>8. QED BY <2>1, <2>7 DEF ResumesInv
<1>4. CASE Advance /\ ~\E op \in Ops, a \in resume_authentications :
                         CounterpartyResumeFenced(op, a)
  BY <1>1, <1>4 DEF Advance, DispatchFenced, CounterpartyPending,
     CounterpartyRecovered, counterpartyVars, historyVars
<1>5. CASE Decide
  BY <1>1, <1>5 DEF Decide, Refuse, AuthorizeNative, AuthorizeForeign,
     counterpartyVars, historyVars
<1>6. CASE Settle
  BY <1>1, <1>6 DEF Settle, ReleaseBeforeFence, ReleaseWithoutReceipt,
     ReleaseOnReceipt, Commit, counterpartyVars, historyVars
<1>7. CASE \/ \E d \in LegacyDecisions : LegacyDecision(d)
           \/ \E i \in Intents : ConsequenceIntent(i)
           \/ \E identity \in Foreign : CounterpartyCancelled(identity)
           \/ Fail \/ UNCHANGED vars
  BY <1>1, <1>7 DEF LegacyDecision, ConsequenceIntent, CounterpartyCancelled,
     Fail, vars, counterpartyVars, historyVars
<1>8. QED BY <1>2, <1>3, <1>4, <1>5, <1>6, <1>7 DEF Next

\* The replay accepts no more resumes of an operation than its holder
\* authenticated: each authentication resumes once.
THEOREM ResumesAuthenticatedHolds == Spec => []ResumesAuthenticated
<1>1. TypeOK /\ ResumesInv /\ [Next]_vars => ResumesInv'
  BY ResumesStep
<1>2. TypeOK /\ ResumesInv => ResumesAuthenticated
  <2>1. SUFFICES ASSUME TypeOK, ResumesInv, NEW op \in Ops
                 PROVE  resumes[op] <=
                          Cardinality({a \in resume_authentications : a.op = op})
    BY DEF ResumesAuthenticated
  <2> DEFINE Used == {a \in consumed_resume_authentication_hashes : a.op = op}
             Known == {a \in resume_authentications : a.op = op}
  <2>2. IsFiniteSet(Known) /\ Used \subseteq Known
    BY <2>1, FS_Subset DEF ResumesInv, TypeOK
  <2>3. Cardinality(Used) <= Cardinality(Known)
    BY <2>2, FS_Subset
  <2>4. QED BY <2>1, <2>3 DEF ResumesInv
<1>3. QED BY <1>1, <1>2, ResumesInit, TypeCorrect, PTL DEF Spec
-----------------------------------------------------------------------------
(* Sums.  MapThenSumSet adds up an amount per element of a finite set by    *)
(* a recursive function over its subsets; Adds says that `it` is one.       *)

Pick(s) == CHOOSE x \in s : TRUE

Adds(it, a, S) ==
  it = [s \in SUBSET S |->
          IF s = {} THEN 0 ELSE a[Pick(s)] + it[s \ {Pick(s)}]]

Sum(a, S) == (CHOOSE it : Adds(it, a, S))[S]

\* Among the subsets of a finite set that have some property one has it and
\* none of its own subsets does.
LEMMA LeastSet ==
  ASSUME NEW S, IsFiniteSet(S), NEW B \in SUBSET (SUBSET S), B # {}
  PROVE  \E least \in B : \A V \in B : V \subseteq least => V = least
<1>1. IsWellFoundedOn(StrictSubsetOrdering(S), SUBSET S)
  BY FS_StrictSubsetOrderingWellFounded, FS_FiniteSubsetsOfFinite
<1>2. PICK least \in B :
        \A V \in B : ~ (<<V, least>> \in StrictSubsetOrdering(S))
  BY <1>1, WFMin, Zenon
<1>3. ASSUME NEW V \in B, V \subseteq least, V # least
      PROVE  <<V, least>> \in StrictSubsetOrdering(S)
  BY <1>3 DEF StrictSubsetOrdering
<1>4. \A V \in B : V \subseteq least => V = least
  BY <1>2, <1>3, Zenon
<1> QED
  BY <1>4

\* Two such functions agree wherever the amounts do.
LEMMA AddsAgree ==
  ASSUME NEW S, NEW T, NEW a, NEW b, NEW it, NEW jt,
         IsFiniteSet(S), Adds(it, a, S), Adds(jt, b, T),
         NEW U \in SUBSET S, U \subseteq T, \A x \in U : a[x] = b[x]
  PROVE  it[U] = jt[U]
<1> DEFINE Bad == {V \in SUBSET U : it[V] # jt[V]}
<1>1. SUFFICES ASSUME Bad # {}
               PROVE  FALSE
  OBVIOUS
<1>2. IsFiniteSet(U)
  BY FS_Subset
<1>20. Bad \in SUBSET (SUBSET U)
  OBVIOUS
<1>3. PICK V \in Bad : \A W \in Bad : W \subseteq V => W = V
  <2> HIDE DEF Bad
  <2> QED
    BY <1>1, <1>2, <1>20, LeastSet
<1>4. /\ it[V] = IF V = {} THEN 0 ELSE a[Pick(V)] + it[V \ {Pick(V)}]
      /\ jt[V] = IF V = {} THEN 0 ELSE b[Pick(V)] + jt[V \ {Pick(V)}]
  BY DEF Adds
<1>5. V # {} /\ Pick(V) \in V
  BY <1>4 DEF Pick
<1>6. V \ {Pick(V)} \notin Bad
  BY <1>3, <1>5
<1>7. it[V \ {Pick(V)}] = jt[V \ {Pick(V)}] /\ a[Pick(V)] = b[Pick(V)]
  BY <1>5, <1>6
<1> QED
  BY <1>4, <1>5, <1>7

\* Every finite set has one.
LEMMA AddsExists ==
  ASSUME NEW S, IsFiniteSet(S), NEW a
  PROVE  \E it : Adds(it, a, S)
<1> DEFINE Bad == {U \in SUBSET S : ~ \E it : Adds(it, a, U)}
<1>1. SUFFICES ASSUME Bad # {}
               PROVE  FALSE
  OBVIOUS
<1>2. PICK U \in Bad : \A W \in Bad : W \subseteq U => W = U
  <2>1. Bad \in SUBSET (SUBSET S)
    OBVIOUS
  <2> HIDE DEF Bad
  <2> QED
    BY <1>1, <2>1, LeastSet
<1> DEFINE For(W) == CHOOSE it : Adds(it, a, W)
           F == [s \in SUBSET U |->
                   IF s = {} THEN 0
                   ELSE a[Pick(s)] + For(s \ {Pick(s)})[s \ {Pick(s)}]]
<1>3. ASSUME NEW W \in SUBSET U, W # U
      PROVE  Adds(For(W), a, W)
  BY <1>2, <1>3
<1>4. \A s \in SUBSET U : s # {} => Pick(s) \in s
  BY DEF Pick
<1>5. ASSUME NEW W \in SUBSET U, W # U
      PROVE  For(W)[W] = F[W]
  <2>1. CASE W = {}
    <3>1. Adds(For(W), a, W)
      BY <1>3, <1>5
    <3> HIDE DEF For
    <3>2. For(W)[W] = 0
      BY <2>1, <3>1 DEF Adds
    <3> QED
      BY <2>1, <3>2
  <2>2. CASE W # {}
    <3> DEFINE V == W \ {Pick(W)}
    <3>1. Pick(W) \in W /\ V \in SUBSET U /\ V # U /\ V \subseteq W
      BY <1>4, <2>2
    <3>2. Adds(For(W), a, W) /\ Adds(For(V), a, V)
      BY <1>3, <1>5, <3>1
    <3>3. IsFiniteSet(V)
      BY <3>1, FS_Subset
    <3>30. F[W] = a[Pick(W)] + For(V)[V]
      BY <2>2
    <3> HIDE DEF For, F
    <3>31. For(W)[W] = a[Pick(W)] + For(W)[V]
      BY <2>2, <3>2 DEF Adds
    <3> HIDE DEF V
    <3>4. For(V)[V] = For(W)[V]
      BY <3>1, <3>2, <3>3, AddsAgree
    <3> QED
      BY <3>30, <3>31, <3>4
  <2> QED
    BY <2>1, <2>2
<1>6. Adds(F, a, U)
  <2>1. ASSUME NEW s \in SUBSET U, s # {}
        PROVE  F[s] = a[Pick(s)] + F[s \ {Pick(s)}]
    <3>1. s \ {Pick(s)} \in SUBSET U /\ s \ {Pick(s)} # U
      BY <1>4, <2>1
    <3>2. For(s \ {Pick(s)})[s \ {Pick(s)}] = F[s \ {Pick(s)}]
      BY <1>5, <3>1
    <3>3. F[s] = a[Pick(s)] + For(s \ {Pick(s)})[s \ {Pick(s)}]
      BY <2>1
    <3> QED
      BY <3>2, <3>3
  <2>2. F[{}] = 0
    OBVIOUS
  <2>3. F = [s \in SUBSET U |-> F[s]]
    OBVIOUS
  <2> HIDE DEF F
  <2>4. \A s \in SUBSET U :
          F[s] = IF s = {} THEN 0 ELSE a[Pick(s)] + F[s \ {Pick(s)}]
    BY <2>1, <2>2
  <2> QED
    BY <2>3, <2>4 DEF Adds
<1> HIDE DEF F, For
<1> QED
  BY <1>2, <1>6

\* The sum is the one the recursive function computes.
LEMMA SumIs ==
  ASSUME NEW S, IsFiniteSet(S), NEW a, NEW it, Adds(it, a, S),
         NEW U \in SUBSET S
  PROVE  it[U] = Sum(a, U)
<1>1. IsFiniteSet(U)
  BY FS_Subset
<1>2. PICK jt : Adds(jt, a, U)
  BY <1>1, AddsExists
<1>3. Adds(CHOOSE kt : Adds(kt, a, U), a, U)
  BY <1>2
<1> DEFINE kt == CHOOSE kt : Adds(kt, a, U)
<1> HIDE DEF kt
<1>4. Adds(kt, a, U)
  BY <1>3 DEF kt
<1>5. it[U] = kt[U]
  BY <1>4, AddsAgree
<1> QED
  BY <1>5 DEF Sum, kt

LEMMA SumEmpty ==
  ASSUME NEW a PROVE Sum(a, {}) = 0
<1>1. PICK it : Adds(it, a, {})
  BY FS_EmptySet, AddsExists
<1>2. it[{}] = 0
  BY <1>1 DEF Adds
<1> QED
  BY <1>1, <1>2, SumIs, FS_EmptySet

LEMMA SumSame ==
  ASSUME NEW S, IsFiniteSet(S), NEW a, NEW b, \A x \in S : a[x] = b[x]
  PROVE  Sum(a, S) = Sum(b, S)
<1>1. PICK it : Adds(it, a, S)
  BY AddsExists
<1>2. PICK jt : Adds(jt, b, S)
  BY AddsExists
<1>3. it[S] = jt[S]
  BY <1>1, <1>2, AddsAgree
<1> QED
  BY <1>1, <1>2, <1>3, SumIs

LEMMA SumPick ==
  ASSUME NEW S, IsFiniteSet(S), S # {}, NEW a
  PROVE  /\ Pick(S) \in S
         /\ Sum(a, S) = a[Pick(S)] + Sum(a, S \ {Pick(S)})
<1>1. PICK it : Adds(it, a, S)
  BY AddsExists
<1>2. it[S] = a[Pick(S)] + it[S \ {Pick(S)}]
  BY <1>1 DEF Adds
<1>3. it[S] = Sum(a, S) /\ it[S \ {Pick(S)}] = Sum(a, S \ {Pick(S)})
  BY <1>1, SumIs
<1> QED
  BY <1>2, <1>3 DEF Pick

LEMMA SumInt ==
  ASSUME NEW S, IsFiniteSet(S), NEW a, \A x \in S : a[x] \in Int
  PROVE  Sum(a, S) \in Int
<1> DEFINE Bad == {U \in SUBSET S : Sum(a, U) \notin Int}
<1>1. SUFFICES ASSUME Bad # {} PROVE FALSE
  OBVIOUS
<1>2. PICK U \in Bad : \A W \in Bad : W \subseteq U => W = U
  <2>1. Bad \in SUBSET (SUBSET S)
    OBVIOUS
  <2> HIDE DEF Bad
  <2> QED
    BY <1>1, <2>1, LeastSet
<1>3. U # {} /\ IsFiniteSet(U)
  <2>1. Sum(a, {}) \in Int
    BY SumEmpty
  <2>2. IsFiniteSet(U)
    BY FS_Subset
  <2> QED
    BY <2>1, <2>2
<1>4. Pick(U) \in U /\ Sum(a, U) = a[Pick(U)] + Sum(a, U \ {Pick(U)})
  BY <1>3, SumPick
<1>5. U \ {Pick(U)} \notin Bad
  BY <1>2, <1>4
<1> QED
  BY <1>4, <1>5

\* An element contributes its amount, wherever the recursion picks it.
LEMMA SumRemove ==
  ASSUME NEW S, IsFiniteSet(S), NEW a, \A y \in S : a[y] \in Int, NEW x \in S
  PROVE  /\ Sum(a, S) \in Int /\ Sum(a, S \ {x}) \in Int
         /\ Sum(a, S) = a[x] + Sum(a, S \ {x})
<1> DEFINE Bad == {U \in SUBSET S :
                     \E y \in U : Sum(a, U) # a[y] + Sum(a, U \ {y})}
<1>0. \A U \in SUBSET S : IsFiniteSet(U) /\ Sum(a, U) \in Int
  BY FS_Subset, SumInt
<1>1. ASSUME Bad # {} PROVE FALSE
  <2>1. PICK U \in Bad : \A W \in Bad : W \subseteq U => W = U
    <3>1. Bad \in SUBSET (SUBSET S)
      OBVIOUS
    <3> HIDE DEF Bad
    <3> QED
      BY <1>1, <3>1, LeastSet
  <2>2. PICK y \in U : Sum(a, U) # a[y] + Sum(a, U \ {y})
    OBVIOUS
  <2> DEFINE p == Pick(U)
  <2>3. p \in U /\ Sum(a, U) = a[p] + Sum(a, U \ {p})
    BY <1>0, SumPick
  <2>4. y # p
    BY <2>2, <2>3
  <2> HIDE DEF p
  <2>5. U \ {p} \notin Bad /\ U \ {y} \notin Bad
    BY <2>1, <2>3
  <2>6. /\ Sum(a, U \ {p}) = a[y] + Sum(a, (U \ {p}) \ {y})
        /\ Sum(a, U \ {y}) = a[p] + Sum(a, (U \ {y}) \ {p})
    BY <2>3, <2>4, <2>5
  <2>7. (U \ {p}) \ {y} = (U \ {y}) \ {p}
    OBVIOUS
  <2>8. PICK rest \in Int : rest = Sum(a, (U \ {y}) \ {p})
    BY <1>0
  <2>9. PICK i \in Int, j \in Int : i = a[p] /\ j = a[y]
    BY <2>3
  <2>10. Sum(a, U \ {p}) = j + rest /\ Sum(a, U \ {y}) = i + rest
    BY <2>6, <2>7, <2>8, <2>9
  <2>11. i + (j + rest) = j + (i + rest)
    OBVIOUS
  <2> QED
    BY <2>2, <2>3, <2>9, <2>10, <2>11
<1>2. S \notin Bad
  BY <1>1
<1> QED
  BY <1>0, <1>2

LEMMA SumZero ==
  ASSUME NEW S, IsFiniteSet(S), NEW a, \A x \in S : a[x] = 0
  PROVE  Sum(a, S) = 0
<1> DEFINE Bad == {U \in SUBSET S : Sum(a, U) # 0}
<1>1. SUFFICES ASSUME Bad # {} PROVE FALSE
  OBVIOUS
<1>2. PICK U \in Bad : \A W \in Bad : W \subseteq U => W = U
  <2>1. Bad \in SUBSET (SUBSET S)
    OBVIOUS
  <2> HIDE DEF Bad
  <2> QED
    BY <1>1, <2>1, LeastSet
<1>3. U # {} /\ IsFiniteSet(U)
  BY SumEmpty, FS_Subset
<1>4. Pick(U) \in U /\ Sum(a, U) = a[Pick(U)] + Sum(a, U \ {Pick(U)})
  BY <1>3, SumPick
<1>5. U \ {Pick(U)} \notin Bad
  BY <1>2, <1>4
<1> QED
  BY <1>4, <1>5

LEMMA SumAdd ==
  ASSUME NEW S, IsFiniteSet(S), NEW x, x \notin S, NEW a,
         \A y \in S \cup {x} : a[y] \in Int
  PROVE  Sum(a, S \cup {x}) = a[x] + Sum(a, S)
<1>1. IsFiniteSet(S \cup {x}) /\ (S \cup {x}) \ {x} = S
  BY FS_AddElement
<1> QED
  BY <1>1, SumRemove

\* Changing the amount of one element changes the sum by the difference.
LEMMA SumChange ==
  ASSUME NEW S, IsFiniteSet(S), NEW a, NEW b, NEW x \in S,
         \A y \in S : a[y] \in Int, b[x] \in Int,
         \A y \in S \ {x} : b[y] = a[y]
  PROVE  /\ Sum(a, S) \in Int
         /\ Sum(b, S) = Sum(a, S) - a[x] + b[x]
<1>1. \A y \in S : b[y] \in Int
  OBVIOUS
<1>2. /\ Sum(a, S) \in Int /\ Sum(a, S \ {x}) \in Int
      /\ Sum(a, S) = a[x] + Sum(a, S \ {x})
  BY SumRemove
<1>3. Sum(b, S) = b[x] + Sum(b, S \ {x})
  BY <1>1, SumRemove
<1>4. Sum(b, S \ {x}) = Sum(a, S \ {x})
  BY SumSame, FS_RemoveElement
<1> QED
  BY <1>2, <1>3, <1>4
-----------------------------------------------------------------------------
(* The running totals are sums of reservations.                            *)

AmountOf(res) == [r \in Reservations |-> res[r].amount]

\* The reservations that debit a key, whoever owns them.
Debits(res, k) ==
  {r \in Reservations :
     res[r] # NoReservation /\ res[r].key = k /\ res[r].state # "released"}

\* An operation reserves once, and at most once per key.
OnePerKey ==
  \A r, s \in Reservations :
    /\ reservations[r] # NoReservation /\ reservations[s] # NoReservation
    /\ reservations[r].owner = reservations[s].owner
    /\ reservations[r].key = reservations[s].key
    => r = s

\* AccountsBalanced with the sum of the library replaced by Sum, and with the
\* finiteness without which a sum says nothing.
TotalsAreSums ==
  \A k \in Keys :
    /\ IsFiniteSet(Debits(reservations, k))
    /\ charged[k].used = Sum(AmountOf(reservations), Debits(reservations, k))

AccountsInv == OnePerKey /\ TotalsAreSums

\* The reservations keep what the accounts depend on.
SameCharges ==
  \A r \in Reservations :
    /\ reservations'[r].key = reservations[r].key
    /\ reservations'[r].owner = reservations[r].owner
    /\ reservations'[r].amount = reservations[r].amount
    /\ (reservations'[r].state = "released" <=> reservations[r].state = "released")
    /\ (reservations'[r] = NoReservation <=> reservations[r] = NoReservation)

LEMMA ReservationIs ==
  ASSUME TypeOK, NEW r \in Reservations
  PROVE  /\ reservations[r].amount \in Nat
         /\ reservations[r] # NoReservation =>
              /\ reservations[r].key \in Keys /\ reservations[r].key # None
              /\ reservations[r].owner \in Ops /\ reservations[r].owner # None
         /\ reservations[r] = NoReservation =>
              /\ reservations[r].key = None /\ reservations[r].owner = None
<1>1. \/ reservations[r] = NoReservation
      \/ reservations[r] \in
           [key : Keys, amount : Amounts, owner : Ops,
            state : {"authorized", "fenced", "committed", "released"}]
  BY DEF TypeOK
<1>2. CASE reservations[r] = NoReservation
  BY <1>2 DEF NoReservation
<1>3. CASE reservations[r] \in
             [key : Keys, amount : Amounts, owner : Ops,
              state : {"authorized", "fenced", "committed", "released"}]
  <2>1. reservations[r].key # None /\ reservations[r].owner # None
    BY <1>3, ReplayAssumption
  <2>2. reservations[r] # NoReservation
    BY <2>1 DEF NoReservation
  <2> QED
    BY <1>3, <2>1, <2>2, ReplayAssumption
<1> QED
  BY <1>1, <1>2, <1>3

LEMMA DebitsAre ==
  ASSUME TypeOK, NEW k \in Keys
  PROVE  UNION {Charging(op, k) : op \in Ops} = Debits(reservations, k)
<1>1. ASSUME NEW op \in Ops, NEW r \in Charging(op, k)
      PROVE  r \in Debits(reservations, k)
  BY <1>1, ReservationIs, ReplayAssumption DEF Debits, Charging
<1>2. ASSUME NEW r \in Debits(reservations, k)
      PROVE  \E op \in Ops : r \in Charging(op, k)
  BY <1>2, ReservationIs DEF Debits, Charging
<1> QED
  BY <1>1, <1>2

\* Fencing and committing change no charge.
LEMMA MovesKeepCharges ==
  ASSUME TypeOK, NEW rs \in SUBSET Reservations, NEW s \in {"fenced", "committed"},
         \A r \in rs : /\ reservations[r] # NoReservation
                      /\ reservations[r].state # "released",
         MoveReservations(rs, s)
  PROVE  SameCharges
<1> SUFFICES ASSUME NEW r \in Reservations
             PROVE  /\ reservations'[r].key = reservations[r].key
                    /\ reservations'[r].owner = reservations[r].owner
                    /\ reservations'[r].amount = reservations[r].amount
                    /\ (reservations'[r].state = "released"
                          <=> reservations[r].state = "released")
                    /\ (reservations'[r] = NoReservation
                          <=> reservations[r] = NoReservation)
  BY DEF SameCharges
<1>1. CASE r \in rs
  <2>1. reservations'[r] = [reservations[r] EXCEPT !.state = s]
    BY <1>1 DEF MoveReservations
  <2>2. /\ reservations[r] \in
             [key : Keys, amount : Amounts, owner : Ops,
              state : {"authorized", "fenced", "committed", "released"}]
        /\ reservations[r].state # "released"
    BY <1>1 DEF TypeOK
  <2>3. reservations'[r] # NoReservation
    BY <2>1, <2>2 DEF NoReservation
  <2> QED
    BY <1>1, <2>1, <2>2, <2>3
<1>2. CASE r \notin rs
  BY <1>2 DEF MoveReservations
<1> QED
  BY <1>1, <1>2

LEMMA FenceKeepsCharges ==
  ASSUME TypeOK, NEW op \in Ops,
         \A r \in operation_reservations[op] : reservations[r].state = "authorized",
         MoveReservations(operation_reservations[op], "fenced")
  PROVE  SameCharges
<1>1. /\ operation_reservations[op] \in SUBSET Reservations
      /\ \A r \in operation_reservations[op] :
           reservations[r] # NoReservation /\ reservations[r].state # "released"
  BY DEF NoReservation, TypeOK
<1> QED
  BY <1>1, MovesKeepCharges

LEMMA CommitKeepsCharges ==
  ASSUME TypeOK, NEW op \in Ops, MoveReservations(Relevant(op), "committed")
  PROVE  SameCharges
<1>1. /\ Relevant(op) \in SUBSET Reservations
      /\ \A r \in Relevant(op) :
           reservations[r] # NoReservation /\ reservations[r].state # "released"
  BY DEF Relevant, NoReservation, TypeOK
<1> QED
  BY <1>1, MovesKeepCharges

\* What a record does to the accounts.
LEMMA AccountSteps ==
  ASSUME TypeOK, LifecycleInv, ReservationsFollowOwner, [Next]_vars
  PROVE  \/ UNCHANGED charged /\ SameCharges
         \/ \E op \in Ops, list \in AccountLists :
              operation_states[op] = "none" /\ Reserve(op, list)
         \/ \E op \in Ops :
              /\ operation_states[op] \in {"authorized", "fenced", "pending"}
              /\ ReleaseReservations(op)
<1>1. CASE UNCHANGED <<charged, reservations>>
  BY <1>1 DEF SameCharges
<1>3. CASE Decide
  <2>1. \/ UNCHANGED <<charged, reservations>>
        \/ \E op \in Ops, list \in AccountLists :
             operation_states[op] = "none" /\ Reserve(op, list)
    BY <1>3 DEF Decide, Refuse, AuthorizeNative, AuthorizeForeign, accountVars,
       NewOperation
  <2> QED
    BY <1>1, <2>1
<1>4. CASE Advance
  <2>1. \/ UNCHANGED <<charged, reservations>>
        \/ \E op \in Ops :
             /\ \A r \in operation_reservations[op] :
                  reservations[r].state = "authorized"
             /\ MoveReservations(operation_reservations[op], "fenced")
             /\ UNCHANGED charged
    BY <1>4 DEF Advance, DispatchFenced, CounterpartyPending,
       CounterpartyResumeFenced, CounterpartyRecovered, accountVars
  <2> QED
    BY <1>1, <2>1, FenceKeepsCharges
<1>5. CASE Settle
  <2>1. PICK op \in Ops :
          \/ /\ operation_states[op] \in {"authorized", "fenced", "pending"}
             /\ ReleaseReservations(op)
          \/ MoveReservations(Relevant(op), "committed") /\ UNCHANGED charged
    BY <1>5 DEF Settle, ReleaseBeforeFence, ReleaseWithoutReceipt,
       ReleaseOnReceipt, Commit, MaySettle, SettlesAfterFence
  <2> QED
    BY <2>1, CommitKeepsCharges
<1>6. CASE Authenticate \/ Fail \/ UNCHANGED vars
  BY <1>1, <1>6 DEF Authenticate, Authentication, Fail, vars, accountVars
<1>7. CASE \/ \E d \in LegacyDecisions : LegacyDecision(d)
           \/ \E i \in Intents : ConsequenceIntent(i)
           \/ \E identity \in Foreign : CounterpartyCancelled(identity)
  BY <1>1, <1>7 DEF LegacyDecision, ConsequenceIntent, CounterpartyCancelled,
     accountVars
<1> QED
  BY <1>3, <1>4, <1>5, <1>6, <1>7 DEF Next

\* What a decision's accounts add, reservation by reservation.
LEMMA ReserveIs ==
  ASSUME TypeOK, LifecycleInv, ReservationsFollowOwner,
         NEW op \in Ops, NEW list \in AccountLists,
         operation_states[op] = "none", Reserve(op, list)
  PROVE  /\ DOMAIN list \subseteq Keys
         /\ \A k \in DOMAIN list :
              /\ list[k].reservation \in Reservations
              /\ list[k].amount \in Nat
              /\ list[k].ceiling \in Nat /\ list[k].ceiling # None
              /\ reservations[list[k].reservation] = NoReservation
              /\ reservations'[list[k].reservation] =
                   [key |-> k, amount |-> list[k].amount, owner |-> op,
                    state |-> "authorized"]
         /\ \A r \in Reservations :
              \/ \E k \in DOMAIN list : r = list[k].reservation
              \/ reservations'[r] = reservations[r]
         /\ \A r \in Reservations :
              reservations[r] # NoReservation => reservations[r].owner # op
<1>1. PICK D \in SUBSET Keys : list \in [D -> Accounts]
  BY DEF AccountLists
<1>2. DOMAIN list \subseteq Keys
  BY <1>1
<1>3. ASSUME NEW k \in DOMAIN list
      PROVE  /\ list[k].reservation \in Reservations
             /\ list[k].amount \in Nat
             /\ list[k].ceiling \in Nat /\ list[k].ceiling # None
             /\ reservations[list[k].reservation] = NoReservation
  <2>1. list[k] \in Accounts
    BY <1>1, <1>3
  <2>2. list[k].ceiling \in Ceilings /\ list[k].amount \in Amounts
    BY <2>1 DEF Accounts
  <2>3. list[k].ceiling # None
    BY <2>2, ReplayAssumption
  <2> QED
    BY <1>3, <2>1, <2>2, <2>3, ReplayAssumption DEF Accounts, Reserve, MayReserve
<1>4. ASSUME NEW k \in DOMAIN list
      PROVE  reservations'[list[k].reservation] =
               [key |-> k, amount |-> list[k].amount, owner |-> op,
                state |-> "authorized"]
  <2> DEFINE r == list[k].reservation
             j == CHOOSE i \in DOMAIN list : list[i].reservation = r
  <2>1. j \in DOMAIN list /\ list[j].reservation = r
    OBVIOUS
  <2>2. j = k
    BY <2>1 DEF AccountLists
  <2>3. reservations'[r] = [key |-> j, amount |-> list[j].amount, owner |-> op,
                            state |-> "authorized"]
    BY <1>3 DEF Reserve
  <2> QED
    BY <2>2, <2>3
<1>5. \A r \in Reservations :
        \/ \E k \in DOMAIN list : r = list[k].reservation
        \/ reservations'[r] = reservations[r]
  BY DEF Reserve
<1>6. operation_reservations[op] = {}
  BY DEF LifecycleInv, OperationInv
<1>7. \A r \in Reservations :
        reservations[r] # NoReservation => reservations[r].owner # op
  BY <1>6 DEF ReservationsFollowOwner
<1> QED
  BY <1>2, <1>3, <1>4, <1>5, <1>7

\* A release closes all that an operation owns.
LEMMA ReleaseIs ==
  ASSUME TypeOK, LifecycleInv, ReservationsFollowOwner,
         NEW op \in Ops,
         operation_states[op] \in {"authorized", "fenced", "pending"},
         ReleaseReservations(op)
  PROVE  /\ \A r \in Reservations :
              /\ reservations'[r].key = reservations[r].key
              /\ reservations'[r].owner = reservations[r].owner
              /\ reservations'[r].amount = reservations[r].amount
              /\ reservations'[r] = NoReservation <=> reservations[r] = NoReservation
              /\ reservations'[r].state =
                   IF reservations[r].owner = op THEN "released"
                                                 ELSE reservations[r].state
         /\ \A r \in Reservations :
              reservations[r].owner = op => /\ reservations[r] # NoReservation
                                            /\ reservations[r].state # "released"
                                            /\ r \in Relevant(op)
         /\ Relevant(op) \subseteq {r \in Reservations : reservations[r].owner = op}
<1>1. Relevant(op) = operation_reservations[op]
  BY AllRelevant
<1>2. ASSUME NEW r \in Reservations, reservations[r].owner = op
      PROVE  /\ reservations[r] # NoReservation
             /\ reservations[r].state # "released"
             /\ r \in Relevant(op)
  <2>1. reservations[r] # NoReservation
    BY <1>2, ReservationIs, ReplayAssumption
  <2>2. r \in Relevant(op)
    BY <1>1, <1>2, <2>1 DEF ReservationsFollowOwner
  <2> QED
    BY <2>1, <2>2 DEF Relevant
<1>3. Relevant(op) \subseteq {r \in Reservations : reservations[r].owner = op}
  BY <1>1 DEF ReservationsFollowOwner, TypeOK
<1>4. ASSUME NEW r \in Reservations, reservations[r].owner = op
      PROVE  reservations'[r] = [reservations[r] EXCEPT !.state = "released"]
  BY <1>2, <1>4 DEF ReleaseReservations, MoveReservations
<1>5. ASSUME NEW r \in Reservations, reservations[r].owner # op
      PROVE  reservations'[r] = reservations[r]
  BY <1>3, <1>5 DEF ReleaseReservations, MoveReservations
<1>6. ASSUME NEW r \in Reservations, reservations[r].owner = op
      PROVE  /\ reservations'[r].key = reservations[r].key
             /\ reservations'[r].owner = reservations[r].owner
             /\ reservations'[r].amount = reservations[r].amount
             /\ reservations'[r] # NoReservation
             /\ reservations'[r].state = "released"
  <2>1. reservations[r] \in
          [key : Keys, amount : Amounts, owner : Ops,
           state : {"authorized", "fenced", "committed", "released"}]
    BY <1>2, <1>6 DEF TypeOK
  <2>2. reservations'[r] = [reservations[r] EXCEPT !.state = "released"]
    BY <1>4, <1>6
  <2> QED
    BY <2>1, <2>2 DEF NoReservation
<1> QED
  BY <1>2, <1>3, <1>5, <1>6

LEMMA AccountsReserve ==
  ASSUME TypeOK, LifecycleInv, ReservationsFollowOwner, AccountsInv,
         NEW op \in Ops, NEW list \in AccountLists,
         operation_states[op] = "none", Reserve(op, list)
  PROVE  AccountsInv'
<1> DEFINE new(k) == list[k].reservation
<1>0. /\ DOMAIN list \subseteq Keys
      /\ \A k \in DOMAIN list :
           /\ new(k) \in Reservations
           /\ list[k].amount \in Nat
           /\ reservations[new(k)] = NoReservation
           /\ reservations'[new(k)] =
                [key |-> k, amount |-> list[k].amount, owner |-> op,
                 state |-> "authorized"]
           /\ reservations'[new(k)].key = k /\ reservations'[new(k)].owner = op
      /\ \A r \in Reservations :
           \/ \E k \in DOMAIN list : r = new(k)
           \/ reservations'[r] = reservations[r]
      /\ \A r \in Reservations :
           reservations[r] # NoReservation => reservations[r].owner # op
  BY ReserveIs
<1> HIDE DEF new
<1>1. OnePerKey'
  <2> SUFFICES ASSUME NEW r \in Reservations, NEW s \in Reservations,
                      reservations'[r] # NoReservation,
                      reservations'[s] # NoReservation,
                      reservations'[r].owner = reservations'[s].owner,
                      reservations'[r].key = reservations'[s].key
               PROVE  r = s
    BY DEF OnePerKey
  <2>1. CASE \E j \in DOMAIN list, k \in DOMAIN list : r = new(j) /\ s = new(k)
    <3>1. PICK j \in DOMAIN list, k \in DOMAIN list : r = new(j) /\ s = new(k)
      BY <2>1
    <3>2. reservations'[r].key = j /\ reservations'[s].key = k
      BY <3>1, <1>0
    <3> QED
      BY <3>1, <3>2
  <2>2. CASE reservations'[r] = reservations[r] /\ reservations'[s] = reservations[s]
    BY <2>2 DEF AccountsInv, OnePerKey
  <2>3. CASE reservations'[r] = reservations[r] /\ \E k \in DOMAIN list : s = new(k)
    BY <2>3, <1>0
  <2>4. CASE reservations'[s] = reservations[s] /\ \E k \in DOMAIN list : r = new(k)
    BY <2>4, <1>0
  <2> QED
    BY <2>1, <2>2, <2>3, <2>4, <1>0
<1>2. ASSUME NEW k \in Keys
      PROVE  /\ IsFiniteSet(Debits(reservations', k))
             /\ charged'[k].used =
                  Sum(AmountOf(reservations'), Debits(reservations', k))
  <2>1. PICK D : D = Debits(reservations, k)
    OBVIOUS
  <2>2. PICK a : a = AmountOf(reservations)
    OBVIOUS
  <2>3. PICK b : b = AmountOf(reservations')
    OBVIOUS
  <2>4. /\ IsFiniteSet(D) /\ charged[k].used = Sum(a, D)
        /\ charged[k].used \in Int
    BY <2>1, <2>2 DEF AccountsInv, TotalsAreSums, TypeOK
  <2>5. \A r \in D : /\ r \in Reservations /\ reservations[r] # NoReservation
                     /\ reservations'[r] = reservations[r]
    <3> SUFFICES ASSUME NEW r \in D
                 PROVE  /\ r \in Reservations /\ reservations[r] # NoReservation
                        /\ reservations'[r] = reservations[r]
      OBVIOUS
    <3>1. r \in Reservations /\ reservations[r] # NoReservation
      BY <2>1 DEF Debits
    <3>2. ~ \E j \in DOMAIN list : r = new(j)
      BY <3>1, <1>0
    <3> QED
      BY <3>1, <3>2, <1>0
  <2>6. \A r \in D : b[r] = a[r] /\ a[r] \in Int
    BY <2>2, <2>3, <2>5, ReservationIs DEF AmountOf
  <2>7. Sum(b, D) = Sum(a, D)
    BY <2>4, <2>6, SumSame
  <2>8. CASE k \notin DOMAIN list
    <3>1. Debits(reservations', k) = D
      <4>1. \A r \in Reservations :
              (\E j \in DOMAIN list : r = new(j)) =>
                reservations'[r].key # k /\ reservations[r] = NoReservation
        <5>1. ASSUME NEW j \in DOMAIN list
              PROVE  /\ reservations'[new(j)].key # k
                     /\ reservations[new(j)] = NoReservation
          BY <2>8, <1>0
        <5> QED
          BY <5>1
      <4> QED
        BY <2>1, <4>1, <1>0 DEF Debits
    <3>2. charged'[k] = charged[k]
      BY <2>8 DEF Reserve
    <3> QED
      BY <2>3, <2>4, <2>7, <3>1, <3>2
  <2>9. CASE k \in DOMAIN list
    <3>1. PICK r : r = new(k)
      OBVIOUS
    <3>2. /\ r \in Reservations /\ reservations[r] = NoReservation
          /\ reservations'[r] = [key |-> k, amount |-> list[k].amount,
                                owner |-> op, state |-> "authorized"]
          /\ list[k].amount \in Nat
      BY <2>9, <3>1, <1>0
    <3>3. reservations'[r] # NoReservation
      BY <3>2 DEF NoReservation
    <3>4. r \notin D
      BY <3>2, <2>5
    <3>5. \A s \in Reservations \ {r} :
            (\E j \in DOMAIN list : s = new(j)) =>
              reservations'[s].key # k /\ reservations[s] = NoReservation
      BY <3>1, <1>0
    <3>6. Debits(reservations', k) = D \cup {r}
      BY <2>1, <3>2, <3>3, <3>5, <1>0 DEF Debits
    <3>7. b[r] = list[k].amount
      BY <2>3, <3>2 DEF AmountOf
    <3>8. Sum(b, D \cup {r}) = b[r] + Sum(b, D)
      BY <2>4, <2>6, <3>2, <3>4, <3>7, SumAdd
    <3>9. charged'[k].used = charged[k].used + list[k].amount
      BY <2>9 DEF Reserve
    <3>10. IsFiniteSet(D \cup {r})
      BY <2>4, FS_AddElement
    <3>11. PICK m \in Int, n \in Int : m = charged[k].used /\ n = list[k].amount
      BY <2>4, <3>2
    <3>12. m + n = n + m
      OBVIOUS
    <3> QED
      BY <2>3, <2>4, <2>7, <3>6, <3>7, <3>8, <3>9, <3>10, <3>11, <3>12
  <2> QED
    BY <2>8, <2>9
<1> QED
  BY <1>1, <1>2 DEF AccountsInv, TotalsAreSums

LEMMA AccountsRelease ==
  ASSUME TypeOK, LifecycleInv, ReservationsFollowOwner, AccountsInv,
         NEW op \in Ops,
         operation_states[op] \in {"authorized", "fenced", "pending"},
         ReleaseReservations(op)
  PROVE  AccountsInv'
<1>1. OnePerKey'
  BY ReleaseIs DEF AccountsInv, OnePerKey
<1>2. ASSUME NEW k \in Keys
      PROVE  /\ IsFiniteSet(Debits(reservations', k))
             /\ charged'[k].used =
                  Sum(AmountOf(reservations'), Debits(reservations', k))
  <2>1. PICK D : D = Debits(reservations, k)
    OBVIOUS
  <2>2. PICK a : a = AmountOf(reservations)
    OBVIOUS
  <2>3. AmountOf(reservations') = a
    BY <2>2, ReleaseIs DEF AmountOf
  <2>4. /\ IsFiniteSet(D) /\ charged[k].used = Sum(a, D)
        /\ charged[k].used \in Int
    BY <2>1, <2>2 DEF AccountsInv, TotalsAreSums, TypeOK
  <2>5. \A r \in D : r \in Reservations /\ a[r] \in Int
    BY <2>1, <2>2, ReservationIs DEF AmountOf, Debits
  <2>6. charged'[k].used = charged[k].used - Held(op, k)
    BY DEF ReleaseReservations, TypeOK
  <2>7. CASE \E r \in Relevant(op) : reservations[r].key = k
    <3>1. PICK r \in Relevant(op) :
            /\ reservations[r].key = k
            /\ Held(op, k) = reservations[r].amount
      BY <2>7 DEF Held
    <3>2. /\ r \in Reservations /\ reservations[r].owner = op
          /\ reservations[r] # NoReservation
          /\ reservations[r].state # "released"
      BY ReleaseIs
    <3>3. r \in D
      BY <2>1, <3>1, <3>2 DEF Debits
    <3>4. \A s \in Reservations :
            reservations[s].owner = op /\ reservations[s].key = k => s = r
      BY <3>1, <3>2, ReleaseIs DEF AccountsInv, OnePerKey
    <3>5. Debits(reservations', k) = D \ {r}
      BY <2>1, <3>1, <3>2, <3>4, ReleaseIs DEF Debits
    <3>6. /\ Sum(a, D) = a[r] + Sum(a, D \ {r}) /\ Sum(a, D \ {r}) \in Int
      BY <2>4, <2>5, <3>3, SumRemove
    <3>7. a[r] = Held(op, k) /\ a[r] \in Int
      BY <2>2, <2>5, <3>1, <3>2, <3>3 DEF AmountOf
    <3>8. IsFiniteSet(D \ {r})
      BY <2>4, FS_RemoveElement
    <3>9. PICK m \in Int, n \in Int : m = a[r] /\ n = Sum(a, D \ {r})
      BY <3>6, <3>7
    <3>10. (m + n) - m = n
      OBVIOUS
    <3> QED
      BY <2>3, <2>4, <2>6, <3>5, <3>6, <3>7, <3>8, <3>9, <3>10
  <2>8. CASE ~ \E r \in Relevant(op) : reservations[r].key = k
    <3>1. \A s \in Reservations :
            ~ (reservations[s].owner = op /\ reservations[s].key = k)
      BY <2>8, ReleaseIs
    <3>2. Debits(reservations', k) = D
      BY <2>1, <3>1, ReleaseIs DEF Debits
    <3>3. Held(op, k) = 0
      BY <2>8 DEF Held
    <3> QED
      BY <2>3, <2>4, <2>6, <3>2, <3>3
  <2> QED
    BY <2>7, <2>8
<1> QED
  BY <1>1, <1>2 DEF AccountsInv, TotalsAreSums

LEMMA AccountsStep ==
  ASSUME TypeOK, LifecycleInv, ReservationsFollowOwner, AccountsInv, [Next]_vars
  PROVE  AccountsInv'
<1>1. CASE UNCHANGED charged /\ SameCharges
  <2>1. OnePerKey'
    BY <1>1 DEF SameCharges, AccountsInv, OnePerKey
  <2>2. ASSUME NEW k \in Keys
        PROVE  /\ Debits(reservations', k) = Debits(reservations, k)
               /\ AmountOf(reservations') = AmountOf(reservations)
    BY <1>1 DEF SameCharges, Debits, AmountOf
  <2> QED
    BY <1>1, <2>1, <2>2 DEF AccountsInv, TotalsAreSums
<1> QED
  BY <1>1, AccountSteps, AccountsReserve, AccountsRelease

LEMMA AccountsInit == Init => AccountsInv
<1> SUFFICES ASSUME Init PROVE AccountsInv
  OBVIOUS
<1>1. OnePerKey
  BY DEF Init, OnePerKey
<1>2. \A k \in Keys : Debits(reservations, k) = {} /\ charged[k].used = 0
  BY DEF Init, Debits
<1> QED
  BY <1>1, <1>2, SumEmpty, FS_EmptySet DEF AccountsInv, TotalsAreSums

LEMMA AccountsHold ==
  Spec => [](TypeOK /\ LifecycleInv /\ ReservationsFollowOwner /\ AccountsInv)
<1>1. /\ TypeOK /\ LifecycleInv /\ ReservationsFollowOwner /\ AccountsInv
      /\ [Next]_vars
      => AccountsInv'
  BY AccountsStep
<1> QED
  BY <1>1, AccountsInit, OwnersHold, PTL DEF Spec

\* The library's sum of the amounts of a set of reservations is Sum.
LEMMA SumOfAmounts ==
  ASSUME NEW S \in SUBSET Reservations, IsFiniteSet(S)
  PROVE  MapThenSumSet(LAMBDA r : reservations[r].amount, S)
           = Sum(AmountOf(reservations), S)
<1> DEFINE Computes(it) ==
             it = [s \in SUBSET S |->
                     IF s = {} THEN 0
                     ELSE reservations[Pick(s)].amount + it[s \ {Pick(s)}]]
           F == CHOOSE it : Computes(it)
<1>1. MapThenSumSet(LAMBDA r : reservations[r].amount, S) = F[S]
  BY DEF MapThenSumSet, MapThenFoldSet, Pick
<1>2. ASSUME NEW it
      PROVE  Computes(it) <=> Adds(it, AmountOf(reservations), S)
  <2>1. \A s \in SUBSET S : s # {} =>
          AmountOf(reservations)[Pick(s)] = reservations[Pick(s)].amount
    BY DEF AmountOf, Pick
  <2>2. [s \in SUBSET S |->
           IF s = {} THEN 0
           ELSE reservations[Pick(s)].amount + it[s \ {Pick(s)}]]
        = [s \in SUBSET S |->
             IF s = {} THEN 0
             ELSE AmountOf(reservations)[Pick(s)] + it[s \ {Pick(s)}]]
    BY <2>1
  <2> QED
    BY <2>2 DEF Adds
<1>3. \E it : Computes(it)
  <2> HIDE DEF Computes
  <2> QED
    BY <1>2, AddsExists
<1>4. Computes(F)
  <2> HIDE DEF Computes
  <2> QED
    BY <1>3
<1> HIDE DEF F, Computes
<1>5. F[S] = Sum(AmountOf(reservations), S)
  BY <1>2, <1>4, SumIs
<1> QED
  BY <1>1, <1>5

\* The running total `charged` of every account is the sum of its unreleased
\* reservations, whatever the order of reservations, releases and commitments.
THEOREM AccountsBalancedHolds == Spec => []AccountsBalanced
<1>1. TypeOK /\ AccountsInv => AccountsBalanced
  <2> SUFFICES ASSUME TypeOK, AccountsInv, NEW k \in Keys
               PROVE  charged[k].used =
                        MapThenSumSet(LAMBDA r : reservations[r].amount,
                                      UNION {Charging(op, k) : op \in Ops})
    BY DEF AccountsBalanced
  <2>1. PICK D : D = Debits(reservations, k)
    OBVIOUS
  <2>2. D \in SUBSET Reservations /\ IsFiniteSet(D)
    BY <2>1 DEF AccountsInv, TotalsAreSums, Debits
  <2>3. MapThenSumSet(LAMBDA r : reservations[r].amount, D)
          = Sum(AmountOf(reservations), D)
    BY <2>2, SumOfAmounts
  <2>4. D = UNION {Charging(op, k) : op \in Ops}
    BY <2>1, DebitsAre
  <2> QED
    BY <2>1, <2>3, <2>4 DEF AccountsInv, TotalsAreSums
<1> QED
  BY <1>1, AccountsHold, PTL
-----------------------------------------------------------------------------
(* The refinement of the lifecycle with budgets.                           *)
\* The reservations by which an operation debits a key, and what they hold.
Own(res, op, k) ==
  {r \in Reservations :
     res[r].owner = op /\ res[r].key = k /\ res[r].state # "released"}

Loads(res, k) == [op \in Ops |-> Sum(AmountOf(res), Own(res, op, k))]

\* What OperationBudget calls the total is the running total of the replay.
TotalsAreLoads ==
  \A k \in Keys : charged[k].used = Sum(Loads(reservations, k), Ops)

\* HeldBy with the sum of the library replaced by Sum.
HeldIsLoad ==
  \A k \in Keys, op \in Ops : HeldBy[op][k] = Loads(reservations, k)[op]

LEMMA OwnFinite ==
  ASSUME TypeOK, AccountsInv, NEW op \in Ops, NEW k \in Keys
  PROVE  /\ IsFiniteSet(Own(reservations, op, k))
         /\ Own(reservations, op, k) = Charging(op, k)
         /\ \A r \in Own(reservations, op, k) :
              /\ r \in Reservations /\ reservations[r] # NoReservation
              /\ AmountOf(reservations)[r] \in Int
         /\ Loads(reservations, k)[op] \in Int
<1>1. Own(reservations, op, k) = Charging(op, k)
  BY DEF Own, Charging
<1>2. Own(reservations, op, k) \subseteq Debits(reservations, k)
  BY ReservationIs, ReplayAssumption DEF Own, Debits
<1>3. IsFiniteSet(Own(reservations, op, k))
  BY <1>2, FS_Subset DEF AccountsInv, TotalsAreSums
<1>4. \A r \in Own(reservations, op, k) :
        /\ r \in Reservations /\ reservations[r] # NoReservation
        /\ AmountOf(reservations)[r] \in Int
  BY <1>2, ReservationIs DEF Debits, AmountOf
<1>5. Sum(AmountOf(reservations), Own(reservations, op, k)) \in Int
  BY <1>3, <1>4, SumInt
<1> QED
  BY <1>1, <1>3, <1>4, <1>5 DEF Loads

LEMMA HeldByIsLoad == TypeOK /\ AccountsInv => HeldIsLoad
<1> SUFFICES ASSUME TypeOK, AccountsInv, NEW k \in Keys, NEW op \in Ops
             PROVE  HeldBy[op][k] = Loads(reservations, k)[op]
  BY DEF HeldIsLoad
<1>1. PICK S : S = Charging(op, k)
  OBVIOUS
<1>2. S \in SUBSET Reservations /\ IsFiniteSet(S)
  BY <1>1, OwnFinite DEF Charging
<1>3. MapThenSumSet(LAMBDA r : reservations[r].amount, S)
        = Sum(AmountOf(reservations), S)
  BY <1>2, SumOfAmounts
<1>4. HeldBy[op][k] = MapThenSumSet(LAMBDA r : reservations[r].amount, S)
  BY <1>1 DEF HeldBy
<1> QED
  BY <1>1, <1>3, <1>4, OwnFinite DEF Loads

\* The amount of the only reservation, if there is one.
LEMMA SumSingle ==
  ASSUME NEW a, NEW x, a[x] \in Int
  PROVE  Sum(a, {x}) = a[x]
<1>1. Sum(a, {} \cup {x}) = a[x] + Sum(a, {})
  BY SumAdd, FS_EmptySet
<1>2. {} \cup {x} = {x}
  OBVIOUS
<1> QED
  BY <1>1, <1>2, SumEmpty

LEMMA LoadsReserve ==
  ASSUME TypeOK, LifecycleInv, ReservationsFollowOwner, AccountsInv,
         NEW op \in Ops, NEW list \in AccountLists,
         operation_states[op] = "none", Reserve(op, list), NEW k \in Keys
  PROVE  /\ \A p \in Ops \ {op} :
              Loads(reservations', k)[p] = Loads(reservations, k)[p]
         /\ Loads(reservations, k)[op] = 0
         /\ Loads(reservations', k)[op] =
              IF k \in DOMAIN list THEN list[k].amount ELSE 0
<1> DEFINE new(j) == list[j].reservation
<1>0. /\ DOMAIN list \subseteq Keys
      /\ \A j \in DOMAIN list :
           /\ new(j) \in Reservations
           /\ list[j].amount \in Nat
           /\ reservations[new(j)] = NoReservation
           /\ reservations'[new(j)] =
                [key |-> j, amount |-> list[j].amount, owner |-> op,
                 state |-> "authorized"]
           /\ reservations'[new(j)].key = j /\ reservations'[new(j)].owner = op
      /\ \A r \in Reservations :
           \/ \E j \in DOMAIN list : r = new(j)
           \/ reservations'[r] = reservations[r]
      /\ \A r \in Reservations :
           reservations[r] # NoReservation => reservations[r].owner # op
  BY ReserveIs
<1> HIDE DEF new
<1>1. PICK b : b = AmountOf(reservations')
  OBVIOUS
<1>2. ASSUME NEW r \in Reservations, reservations[r] # NoReservation
      PROVE  reservations'[r] = reservations[r]
  <2>1. ~ \E j \in DOMAIN list : r = new(j)
    BY <1>0, <1>2
  <2> QED
    BY <1>0, <2>1
<1>3. ASSUME NEW p \in Ops \ {op}
      PROVE  Loads(reservations', k)[p] = Loads(reservations, k)[p]
  <2>1. PICK S : S = Own(reservations, p, k)
    OBVIOUS
  <2>2. /\ IsFiniteSet(S)
        /\ \A r \in S : r \in Reservations /\ reservations[r] # NoReservation
    BY <2>1, OwnFinite
  <2>3. ASSUME NEW r \in Reservations, r \in Own(reservations', p, k)
        PROVE  r \in S
    <3>1. ~ \E j \in DOMAIN list : r = new(j)
      BY <1>0, <2>3 DEF Own
    <3> QED
      BY <1>0, <2>1, <2>3, <3>1 DEF Own
  <2>4. S \subseteq Own(reservations', p, k)
    BY <1>2, <2>1, <2>2 DEF Own
  <2>5. Own(reservations', p, k) = S
    BY <2>3, <2>4 DEF Own
  <2>6. PICK a : a = AmountOf(reservations)
    OBVIOUS
  <2>7. \A r \in S : a[r] = b[r]
    BY <1>1, <1>2, <2>2, <2>6 DEF AmountOf
  <2>8. Sum(a, S) = Sum(b, S)
    BY <2>2, <2>7, SumSame
  <2> QED
    BY <1>1, <2>1, <2>5, <2>6, <2>8 DEF Loads
<1>4. Loads(reservations, k)[op] = 0
  <2>1. Own(reservations, op, k) = {}
    BY <1>0, OwnFinite DEF Own
  <2> QED
    BY <2>1, SumEmpty DEF Loads
<1>5. ASSUME NEW r \in Own(reservations', op, k)
      PROVE  k \in DOMAIN list /\ r = new(k)
  <2>1. r \in Reservations /\ reservations'[r].owner = op /\ reservations'[r].key = k
    BY <1>5 DEF Own
  <2>2. CASE reservations'[r] = reservations[r]
    BY <1>0, <2>1, <2>2, ReservationIs, ReplayAssumption
  <2>3. CASE \E j \in DOMAIN list : r = new(j)
    <3>1. PICK j \in DOMAIN list : r = new(j)
      BY <2>3
    <3>2. j = k
      BY <1>0, <2>1, <3>1
    <3> QED
      BY <3>1, <3>2
  <2> QED
    BY <1>0, <2>1, <2>2, <2>3
<1>6. Loads(reservations', k)[op] =
        IF k \in DOMAIN list THEN list[k].amount ELSE 0
  <2>1. CASE k \in DOMAIN list
    <3>1. PICK r : r = new(k)
      OBVIOUS
    <3>2. /\ r \in Reservations
          /\ reservations'[r] = [key |-> k, amount |-> list[k].amount,
                                owner |-> op, state |-> "authorized"]
          /\ list[k].amount \in Nat
      BY <1>0, <2>1, <3>1
    <3>3. Own(reservations', op, k) = {r}
      BY <1>5, <3>1, <3>2 DEF Own
    <3>4. b[r] = list[k].amount /\ b[r] \in Int
      BY <1>1, <3>2 DEF AmountOf
    <3>5. Sum(b, {r}) = list[k].amount
      BY <3>4, SumSingle
    <3> QED
      BY <1>1, <2>1, <3>3, <3>5 DEF Loads
  <2>2. CASE k \notin DOMAIN list
    <3>1. Own(reservations', op, k) = {}
      BY <1>5, <2>2
    <3> QED
      BY <2>2, <3>1, SumEmpty DEF Loads
  <2> QED
    BY <2>1, <2>2
<1> QED
  BY <1>3, <1>4, <1>6

LEMMA LoadsRelease ==
  ASSUME TypeOK, LifecycleInv, ReservationsFollowOwner, AccountsInv,
         NEW op \in Ops,
         operation_states[op] \in {"authorized", "fenced", "pending"},
         ReleaseReservations(op), NEW k \in Keys
  PROVE  /\ \A p \in Ops \ {op} :
              Loads(reservations', k)[p] = Loads(reservations, k)[p]
         /\ Loads(reservations, k)[op] = Held(op, k)
         /\ Loads(reservations', k)[op] = 0
<1>1. PICK a : a = AmountOf(reservations)
  OBVIOUS
<1>2. AmountOf(reservations') = a
  BY <1>1, ReleaseIs DEF AmountOf
<1>3. \A p \in Ops \ {op} : Own(reservations', p, k) = Own(reservations, p, k)
  BY ReleaseIs DEF Own
<1>4. Own(reservations', op, k) = {}
  BY ReleaseIs DEF Own
<1>5. Loads(reservations, k)[op] = Held(op, k)
  <2>1. CASE \E r \in Relevant(op) : reservations[r].key = k
    <3>1. PICK r \in Relevant(op) :
            /\ reservations[r].key = k
            /\ Held(op, k) = reservations[r].amount
      BY <2>1 DEF Held
    <3>2. /\ r \in Reservations /\ reservations[r].owner = op
          /\ reservations[r] # NoReservation
          /\ reservations[r].state # "released"
      BY ReleaseIs
    <3>3. \A s \in Reservations :
            reservations[s].owner = op /\ reservations[s].key = k => s = r
      BY <3>1, <3>2, ReleaseIs DEF AccountsInv, OnePerKey
    <3>4. Own(reservations, op, k) = {r}
      BY <3>1, <3>2, <3>3 DEF Own
    <3>5. a[r] = Held(op, k) /\ a[r] \in Int
      BY <1>1, <3>1, <3>2, ReservationIs DEF AmountOf
    <3>6. Sum(a, {r}) = Held(op, k)
      BY <3>5, SumSingle
    <3> QED
      BY <1>1, <3>4, <3>6 DEF Loads
  <2>2. CASE ~ \E r \in Relevant(op) : reservations[r].key = k
    <3>1. Own(reservations, op, k) = {}
      BY <2>2, ReleaseIs DEF Own
    <3>2. Held(op, k) = 0
      BY <2>2 DEF Held
    <3> QED
      BY <3>1, <3>2, SumEmpty DEF Loads
  <2> QED
    BY <2>1, <2>2
<1> QED
  BY <1>1, <1>2, <1>3, <1>4, <1>5, SumEmpty DEF Loads

LEMMA LoadsSame ==
  ASSUME SameCharges, NEW k
  PROVE  Loads(reservations', k) = Loads(reservations, k)
<1>1. AmountOf(reservations') = AmountOf(reservations)
  BY DEF SameCharges, AmountOf
<1>2. \A op \in Ops : Own(reservations', op, k) = Own(reservations, op, k)
  BY DEF SameCharges, Own
<1> QED
  BY <1>1, <1>2 DEF Loads

LEMMA TotalsStep ==
  ASSUME TypeOK, LifecycleInv, ReservationsFollowOwner, AccountsInv,
         TotalsAreLoads, [Next]_vars
  PROVE  TotalsAreLoads'
<1> SUFFICES ASSUME NEW k \in Keys
             PROVE  charged'[k].used = Sum(Loads(reservations', k), Ops)
  BY DEF TotalsAreLoads
<1>1. PICK old : old = Loads(reservations, k)
  OBVIOUS
<1>2. PICK new : new = Loads(reservations', k)
  OBVIOUS
<1>3. /\ charged[k].used = Sum(old, Ops) /\ charged[k].used \in Int
      /\ \A op \in Ops : old[op] \in Int
  BY <1>1, OwnFinite DEF TotalsAreLoads, TypeOK
<1>4. CASE UNCHANGED charged /\ SameCharges
  BY <1>1, <1>3, <1>4, LoadsSame
<1>5. ASSUME NEW op \in Ops, NEW list \in AccountLists,
             operation_states[op] = "none", Reserve(op, list)
      PROVE  charged'[k].used = Sum(new, Ops)
  <2>1. /\ \A p \in Ops \ {op} : new[p] = old[p]
        /\ old[op] = 0
        /\ new[op] = IF k \in DOMAIN list THEN list[k].amount ELSE 0
    BY <1>1, <1>2, <1>5, LoadsReserve
  <2>2. k \in DOMAIN list => list[k].amount \in Nat
    BY <1>5, ReserveIs
  <2>3. new[op] \in Int
    BY <2>1, <2>2
  <2>4. Sum(new, Ops) = Sum(old, Ops) - old[op] + new[op]
    BY <1>3, <2>1, <2>3, SumChange, OperationsFinite
  <2>5. charged'[k].used = 
          IF k \in DOMAIN list THEN charged[k].used + list[k].amount
                               ELSE charged[k].used
    BY <1>5 DEF Reserve
  <2>6. PICK m \in Int, n \in Int : m = charged[k].used /\ n = new[op]
    BY <1>3, <2>3
  <2>7. m - 0 + n = m + n /\ m + 0 = m
    OBVIOUS
  <2> QED
    BY <1>3, <2>1, <2>4, <2>5, <2>6, <2>7
<1>6. ASSUME NEW op \in Ops,
             operation_states[op] \in {"authorized", "fenced", "pending"},
             ReleaseReservations(op)
      PROVE  charged'[k].used = Sum(new, Ops)
  <2>1. /\ \A p \in Ops \ {op} : new[p] = old[p]
        /\ old[op] = Held(op, k) /\ new[op] = 0
    BY <1>1, <1>2, <1>6, LoadsRelease
  <2>2. Sum(new, Ops) = Sum(old, Ops) - old[op] + new[op]
    BY <1>3, <2>1, SumChange, OperationsFinite
  <2>3. charged'[k].used = charged[k].used - Held(op, k)
    BY <1>6 DEF ReleaseReservations, TypeOK
  <2>4. PICK m \in Int, n \in Int : m = charged[k].used /\ n = old[op]
    BY <1>3
  <2>5. m - n + 0 = m - n
    OBVIOUS
  <2> QED
    BY <1>3, <2>1, <2>2, <2>3, <2>4, <2>5
<1> QED
  BY <1>2, <1>4, <1>5, <1>6, AccountSteps

LEMMA TotalsInit == Init => TotalsAreLoads
<1> SUFFICES ASSUME Init, NEW k \in Keys
             PROVE  charged[k].used = Sum(Loads(reservations, k), Ops)
  BY DEF TotalsAreLoads
<1>1. charged[k].used = 0
  BY DEF Init
<1>2. \A op \in Ops : Own(reservations, op, k) = {}
  BY ReplayAssumption DEF Init, Own, NoReservation
<1>3. \A op \in Ops : Loads(reservations, k)[op] = 0
  BY <1>2, SumEmpty DEF Loads
<1>4. PICK a : a = Loads(reservations, k)
  OBVIOUS
<1>5. \A op \in Ops : a[op] = 0
  BY <1>3, <1>4
<1>6. Sum(a, Ops) = 0
  BY <1>5, SumZero, OperationsFinite
<1> QED
  BY <1>1, <1>4, <1>6

LEMMA TotalsHold ==
  Spec => [](TypeOK /\ LifecycleInv /\ ReservationsFollowOwner /\ AccountsInv
             /\ TotalsAreLoads /\ HeldIsLoad /\ WithinCeiling)
<1>1. /\ TypeOK /\ LifecycleInv /\ ReservationsFollowOwner /\ AccountsInv
      /\ TotalsAreLoads /\ [Next]_vars
      => TotalsAreLoads'
  BY TotalsStep
<1> QED
  BY <1>1, TotalsInit, AccountsHold, HeldByIsLoad, WithinCeilingHolds, PTL DEF Spec

\* The total of OperationBudget is the running total.
LEMMA TotalIsUsed ==
  ASSUME HeldIsLoad, TotalsAreLoads, NEW k \in Keys
  PROVE  Budgets!Total(k) = charged[k].used
<1> DEFINE Computes(it) ==
             it = [s \in SUBSET Ops |->
                     IF s = {} THEN 0
                     ELSE HeldBy[Pick(s)][k] + it[s \ {Pick(s)}]]
           F == CHOOSE it : Computes(it)
<1>1. Budgets!Total(k) = F[Ops]
  BY DEF Budgets!Total, Budgets!MapThenSumSet,
     Budgets!MapThenFoldSet, Pick
<1>2. ASSUME NEW it
      PROVE  Computes(it) <=> Adds(it, Loads(reservations, k), Ops)
  <2>1. \A s \in SUBSET Ops : s # {} =>
          HeldBy[Pick(s)][k] = Loads(reservations, k)[Pick(s)]
    BY DEF HeldIsLoad, Pick
  <2>2. [s \in SUBSET Ops |->
           IF s = {} THEN 0
           ELSE HeldBy[Pick(s)][k] + it[s \ {Pick(s)}]]
        = [s \in SUBSET Ops |->
             IF s = {} THEN 0
             ELSE Loads(reservations, k)[Pick(s)] + it[s \ {Pick(s)}]]
    BY <2>1
  <2> QED
    BY <2>2 DEF Adds
<1>3. \E it : Computes(it)
  <2> HIDE DEF Computes
  <2> QED
    BY <1>2, AddsExists, OperationsFinite
<1>4. Computes(F)
  <2> HIDE DEF Computes
  <2> QED
    BY <1>3
<1> HIDE DEF F, Computes
<1>5. F[Ops] = Sum(Loads(reservations, k), Ops)
  BY <1>2, <1>4, SumIs, OperationsFinite
<1> QED
  BY <1>1, <1>5 DEF TotalsAreLoads

\* The abstract state a step leaves alone.
SameBudgets == HeldBy' = HeldBy /\ UNCHANGED [k \in Keys |-> charged[k].ceiling]

LEMMA SameLoadsSameBudgets ==
  ASSUME HeldIsLoad, HeldIsLoad', NEW S \in SUBSET Ops,
         \A k \in Keys, op \in S :
           Loads(reservations', k)[op] = Loads(reservations, k)[op]
  PROVE  \A op \in S : HeldBy'[op] = HeldBy[op]
<1> SUFFICES ASSUME NEW op \in S
             PROVE  HeldBy'[op] = HeldBy[op]
  OBVIOUS
<1>1. \A k \in Keys : HeldBy'[op][k] = HeldBy[op][k]
  BY DEF HeldIsLoad
<1>2. /\ HeldBy[op] = [k \in Keys |-> HeldBy[op][k]]
      /\ HeldBy'[op] = [k \in Keys |-> HeldBy'[op][k]]
  BY DEF HeldBy
<1> QED
  BY <1>1, <1>2

LEMMA ChargesFixBudgets ==
  ASSUME HeldIsLoad, HeldIsLoad', UNCHANGED charged, SameCharges
  PROVE  SameBudgets
<1>1. \A op \in Ops : HeldBy'[op] = HeldBy[op]
  BY LoadsSame, SameLoadsSameBudgets
<1>2. HeldBy = [op \in Ops |-> HeldBy[op]] /\ HeldBy' = [op \in Ops |-> HeldBy'[op]]
  BY DEF HeldBy
<1> QED
  BY <1>1, <1>2 DEF SameBudgets

LEMMA AuthorizesBudget ==
  ASSUME TypeOK, LifecycleInv, ReservationsFollowOwner, AccountsInv,
         TotalsAreLoads, HeldIsLoad, HeldIsLoad', WithinCeiling,
         NEW op \in Ops, NEW list \in AccountLists,
         NewOperation(op, "authorized"), Reserve(op, list)
  PROVE  Budgets!Authorize(op)
<1>1. operation_states[op] = "none"
  BY DEF NewOperation
<1>2. Budgets!Move(op, {"none"}, "authorized")
  BY DEF NewOperation, Budgets!Move
<1>3. \A p \in Ops \ {op} : HeldBy'[p] = HeldBy[p]
  <2>1. \A k \in Keys, p \in Ops \ {op} :
          Loads(reservations', k)[p] = Loads(reservations, k)[p]
    BY <1>1, LoadsReserve
  <2> QED
    BY <2>1, SameLoadsSameBudgets
<1>4. ASSUME NEW k \in Keys
      PROVE  /\ charged[k].ceiling # None =>
                  charged'[k].ceiling = charged[k].ceiling
             /\ HeldBy'[op][k] > 0 => charged'[k].ceiling # None
             /\ charged'[k].ceiling # None =>
                  Budgets!Total(k) + HeldBy'[op][k] <= charged'[k].ceiling
  <2>1. HeldBy'[op][k] = IF k \in DOMAIN list THEN list[k].amount ELSE 0
    BY <1>1, LoadsReserve DEF HeldIsLoad
  <2>2. Budgets!Total(k) = charged[k].used
    BY TotalIsUsed
  <2>3. PICK used \in Int : used = charged[k].used
    BY DEF TypeOK
  <2>4. CASE k \in DOMAIN list
    <3>1. /\ list[k].amount \in Nat /\ list[k].ceiling \in Nat
          /\ list[k].ceiling # None
      BY <1>1, <2>4, ReserveIs
    <3>2. PICK amount \in Nat, ceiling \in Nat :
            amount = list[k].amount /\ ceiling = list[k].ceiling
      BY <3>1
    <3>3. /\ charged[k].ceiling \in {None, ceiling} /\ ceiling # None
          /\ amount <= ceiling - used
          /\ charged'[k].ceiling = ceiling
      BY <2>3, <2>4, <3>1, <3>2 DEF Reserve, MayReserve
    <3>4. used + amount <= ceiling
      BY <3>3
    <3> QED
      BY <2>1, <2>2, <2>3, <2>4, <3>2, <3>3, <3>4
  <2>5. CASE k \notin DOMAIN list
    <3>1. charged'[k] = charged[k]
      BY <2>5 DEF Reserve
    <3>2. charged[k].ceiling # None => used <= charged[k].ceiling
      BY <2>3 DEF WithinCeiling
    <3>3. used + 0 = used /\ ~ (0 > 0)
      OBVIOUS
    <3> QED
      BY <2>1, <2>2, <2>3, <2>5, <3>1, <3>2, <3>3
  <2> QED
    BY <2>4, <2>5
<1> QED
  BY <1>2, <1>3, <1>4 DEF Budgets!Authorize

LEMMA ReleasesBudget ==
  ASSUME TypeOK, LifecycleInv, ReservationsFollowOwner, AccountsInv,
         HeldIsLoad, HeldIsLoad', NEW op \in Ops,
         operation_states[op] \in {"authorized", "fenced", "pending"},
         operation_states' = [operation_states EXCEPT ![op] = "released"],
         ReleaseReservations(op)
  PROVE  Budgets!Release(op)
<1>1. \A p \in Ops \ {op} : HeldBy'[p] = HeldBy[p]
  <2>1. \A k \in Keys, p \in Ops \ {op} :
          Loads(reservations', k)[p] = Loads(reservations, k)[p]
    BY LoadsRelease
  <2> QED
    BY <2>1, SameLoadsSameBudgets
<1>2. HeldBy'[op] = Budgets!Nothing
  <2>1. \A k \in Keys : HeldBy'[op][k] = 0
    BY LoadsRelease DEF HeldIsLoad
  <2>2. HeldBy'[op] = [k \in Keys |-> HeldBy'[op][k]]
    BY DEF HeldBy
  <2> QED
    BY <2>1, <2>2 DEF Budgets!Nothing
<1>3. HeldBy' = [HeldBy EXCEPT ![op] = Budgets!Nothing]
  <2>1. /\ HeldBy = [p \in Ops |-> HeldBy[p]]
        /\ HeldBy' = [p \in Ops |-> HeldBy'[p]]
    BY DEF HeldBy
  <2> QED
    BY <1>1, <1>2, <2>1
<1>4. \A k \in Keys : charged'[k].ceiling = charged[k].ceiling
  BY DEF ReleaseReservations, TypeOK
<1> QED
  BY <1>3, <1>4 DEF Budgets!Release, Budgets!Move

LEMMA BudgetsStep ==
  ASSUME TypeOK, LifecycleInv, ReservationsFollowOwner, AccountsInv,
         TotalsAreLoads, HeldIsLoad, HeldIsLoad', WithinCeiling, [Next]_vars
  PROVE  [Budgets!Next]_(Budgets!vars)
<1>1. ASSUME UNCHANGED <<operation_states, charged, reservations>>
      PROVE  UNCHANGED Budgets!vars
  <2>1. SameCharges
    BY <1>1 DEF SameCharges
  <2> QED
    BY <1>1, <2>1, ChargesFixBudgets DEF SameBudgets, Budgets!vars
<1>2. ASSUME UNCHANGED charged, SameCharges
      PROVE  HeldBy' = HeldBy /\ UNCHANGED [k \in Keys |-> charged[k].ceiling]
  BY <1>2, ChargesFixBudgets DEF SameBudgets
<1>3. ASSUME UNCHANGED <<charged, reservations>>
      PROVE  SameCharges
  BY <1>3 DEF SameCharges
<1>4. CASE Decide
  <2>1. PICK op \in Ops :
          \/ Refuse(op)
          \/ \E t \in Times, as \in SUBSET Approvals, list \in AccountLists :
               \/ \E p \in Proofs : AuthorizeNative(op, t, p, as, list)
               \/ \E d \in ForeignDispatches : AuthorizeForeign(op, t, d, as, list)
    BY <1>4 DEF Decide
  <2>2. CASE Refuse(op)
    <3>1. UNCHANGED <<charged, reservations>> /\ NewOperation(op, "refused")
      BY <2>2 DEF Refuse, accountVars
    <3>2. Budgets!Refuse(op)
      BY <1>2, <1>3, <3>1 DEF NewOperation, Budgets!Refuse, Budgets!Move
    <3> QED
      BY <3>2 DEF Budgets!Next
  <2>3. CASE \E list \in AccountLists :
               NewOperation(op, "authorized") /\ Reserve(op, list)
    BY <2>3, AuthorizesBudget DEF Budgets!Next
  <2> QED
    BY <2>1, <2>2, <2>3 DEF AuthorizeNative, AuthorizeForeign
<1>5. CASE Advance
  <2>1. PICK op \in Ops :
        \/ \E i \in intents, claims \in Dispatches, token \in Tokens :
             DispatchFenced(op, i, claims, token)
        \/ \E body \in Bodies : CounterpartyPending(op, body)
        \/ \E a \in resume_authentications : CounterpartyResumeFenced(op, a)
        \/ \E a \in reconciliation_authentications, outcome \in Outcomes :
             CounterpartyRecovered(op, a, outcome)
    BY <1>5 DEF Advance
  <2>2. CASE \E i \in intents, claims \in Dispatches, token \in Tokens :
               DispatchFenced(op, i, claims, token)
    <3>1. /\ \A r \in operation_reservations[op] :
               reservations[r].state = "authorized"
          /\ MoveReservations(operation_reservations[op], "fenced")
          /\ UNCHANGED charged
          /\ operation_states[op] = "authorized"
          /\ operation_states' = [operation_states EXCEPT ![op] = "fenced"]
      BY <2>2 DEF DispatchFenced
    <3>2. SameCharges
      BY <3>1, FenceKeepsCharges
    <3>3. Budgets!Dispatch(op)
      BY <1>2, <3>1, <3>2 DEF Budgets!Dispatch, Budgets!Move
    <3> QED
      BY <3>3 DEF Budgets!Next
  <2>3. CASE \E body \in Bodies : CounterpartyPending(op, body)
    <3>1. /\ UNCHANGED <<charged, reservations>>
          /\ operation_states[op] = "fenced"
          /\ operation_states' = [operation_states EXCEPT ![op] = "pending"]
      BY <2>3 DEF CounterpartyPending, accountVars
    <3>2. Budgets!Park(op)
      BY <1>2, <1>3, <3>1 DEF Budgets!Park, Budgets!Move
    <3> QED
      BY <3>2 DEF Budgets!Next
  <2>4. CASE \E a \in resume_authentications : CounterpartyResumeFenced(op, a)
    <3>1. /\ UNCHANGED <<charged, reservations>>
          /\ operation_states[op] = "pending"
          /\ operation_states' = [operation_states EXCEPT ![op] = "fenced"]
      BY <2>4 DEF CounterpartyResumeFenced, accountVars
    <3>2. Budgets!Resume(op)
      BY <1>2, <1>3, <3>1 DEF Budgets!Resume, Budgets!Move
    <3> QED
      BY <3>2 DEF Budgets!Next
  <2>5. CASE \E a \in reconciliation_authentications, outcome \in Outcomes :
               CounterpartyRecovered(op, a, outcome)
    BY <1>1, <2>5 DEF CounterpartyRecovered, accountVars
  <2> QED
    BY <2>1, <2>2, <2>3, <2>4, <2>5
<1>6. CASE Settle
  <2>1. PICK op \in Ops :
        \/ ReleaseBeforeFence(op) \/ ReleaseWithoutReceipt(op)
        \/ \E outcome \in Outcomes : ReleaseOnReceipt(op, outcome)
        \/ \E outcome \in Outcomes : Commit(op, outcome)
    BY <1>6 DEF Settle
  <2>2. CASE \/ ReleaseBeforeFence(op) \/ ReleaseWithoutReceipt(op)
             \/ \E outcome \in Outcomes : ReleaseOnReceipt(op, outcome)
    <3>1. /\ operation_states[op] \in {"authorized", "fenced", "pending"}
          /\ operation_states' = [operation_states EXCEPT ![op] = "released"]
          /\ ReleaseReservations(op)
      BY <2>2 DEF ReleaseBeforeFence, ReleaseWithoutReceipt, ReleaseOnReceipt,
         MaySettle, SettlesAfterFence
    <3> QED
      BY <3>1, ReleasesBudget DEF Budgets!Next
  <2>3. CASE \E outcome \in Outcomes : Commit(op, outcome)
    <3>1. /\ operation_states[op] \in {"fenced", "pending"}
          /\ operation_states' = [operation_states EXCEPT ![op] = "committed"]
          /\ MoveReservations(Relevant(op), "committed") /\ UNCHANGED charged
      BY <2>3 DEF Commit, MaySettle, SettlesAfterFence
    <3>2. SameCharges
      BY <3>1, CommitKeepsCharges
    <3>3. Budgets!Commit(op)
      BY <1>2, <3>1, <3>2 DEF Budgets!Commit, Budgets!Move
    <3> QED
      BY <3>3 DEF Budgets!Next
  <2> QED
    BY <2>1, <2>2, <2>3
<1>7. CASE Authenticate \/ Fail \/ UNCHANGED vars
  BY <1>1, <1>7 DEF Authenticate, Authentication, Fail, vars, accountVars
<1>8. CASE \/ \E d \in LegacyDecisions : LegacyDecision(d)
           \/ \E i \in Intents : ConsequenceIntent(i)
           \/ \E identity \in Foreign : CounterpartyCancelled(identity)
  BY <1>1, <1>8 DEF LegacyDecision, ConsequenceIntent, CounterpartyCancelled,
     accountVars
<1> QED
  BY <1>4, <1>5, <1>6, <1>7, <1>8 DEF Next

LEMMA BudgetsInit == Init => Budgets!Init
<1> SUFFICES ASSUME Init PROVE Budgets!Init
  OBVIOUS
<1>1. TypeOK /\ AccountsInv
  BY InitTyped, AccountsInit
<1>2. \A k \in Keys, op \in Ops : HeldBy[op][k] = 0
  <2> SUFFICES ASSUME NEW k \in Keys, NEW op \in Ops
               PROVE  HeldBy[op][k] = 0
    OBVIOUS
  <2>1. Own(reservations, op, k) = {}
    BY ReplayAssumption DEF Init, Own, NoReservation
  <2> QED
    BY <1>1, <2>1, HeldByIsLoad, SumEmpty DEF HeldIsLoad, Loads
<1>3. HeldBy = [op \in Ops |-> [k \in Keys |-> HeldBy[op][k]]]
  BY DEF HeldBy
<1>4. HeldBy = [op \in Ops |-> Budgets!Nothing]
  BY <1>2, <1>3 DEF Budgets!Nothing
<1> QED
  BY <1>4 DEF Init, Budgets!Init

\* The replay implements the lifecycle with budgets: every record it accepts is
\* one step of it or leaves it alone, so that what all operations hold of an
\* account never exceeds its ceiling and comes back once, on release.
THEOREM BudgetsImplemented == Spec => ImplementsBudgets
<1>1. /\ TypeOK /\ LifecycleInv /\ ReservationsFollowOwner /\ AccountsInv
      /\ TotalsAreLoads /\ HeldIsLoad /\ HeldIsLoad' /\ WithinCeiling
      /\ [Next]_vars
      => [Budgets!Next]_(Budgets!vars)
  BY BudgetsStep
<1> QED
  BY <1>1, BudgetsInit, TotalsHold, PTL DEF Spec, ImplementsBudgets, Budgets!Spec
-----------------------------------------------------------------------------
(* The two sides of a pair.                                                *)

\* A record fences op, whose claims and token it retains.
NewFence(op, claims, token) ==
  /\ fences[op] = NoFence
  /\ FenceJoins(op, claims, token)
  /\ fences' = [fences EXCEPT ![op] = [claims |-> claims, token |-> token]]
  /\ fences'[op] # NoFence
  /\ Committed' = Committed

NewCommit(op) ==
  /\ fences' = fences /\ fences[op] # NoFence /\ op \notin Committed
  /\ Committed' = Committed \cup {op}

\* An operation not committed moves: it is committed now, or nothing is.
LEMMA CommittedMoves ==
  ASSUME TypeOK, NEW op \in Ops, NEW s, operation_states[op] # "committed",
         operation_states' = [operation_states EXCEPT ![op] = s]
  PROVE  /\ s # "committed" => Committed' = Committed
         /\ s = "committed" => Committed' = Committed \cup {op}
  BY DEF TypeOK, Committed

\* What one record can do to the fences and the commitments.
LEMMA FenceSteps ==
  ASSUME TypeOK, LifecycleInv, [Next]_vars
  PROVE  \/ fences' = fences /\ Committed' = Committed
         \/ \E op \in Ops, claims \in Dispatches, token \in Tokens :
              NewFence(op, claims, token)
         \/ \E op \in Ops : NewCommit(op)
<1>0. \A op \in Ops : OperationInv(op)
  BY DEF LifecycleInv
<1>1. CASE UNCHANGED <<operation_states, fences>>
  BY <1>1 DEF Committed
<1>2. CASE Decide
  <2>1. PICK op \in Ops :
          \/ Refuse(op)
          \/ \E t \in Times, as \in SUBSET Approvals, list \in AccountLists :
               \/ \E p \in Proofs : AuthorizeNative(op, t, p, as, list)
               \/ \E d \in ForeignDispatches : AuthorizeForeign(op, t, d, as, list)
    BY <1>2 DEF Decide
  <2>2. /\ UNCHANGED fences /\ operation_states[op] = "none"
        /\ \E s \in {"authorized", "refused"} :
             operation_states' = [operation_states EXCEPT ![op] = s]
    <3>1. CASE Refuse(op)
      BY <3>1 DEF Refuse, NewOperation
    <3>2. CASE \E t \in Times, as \in SUBSET Approvals, list \in AccountLists :
                 \E p \in Proofs : AuthorizeNative(op, t, p, as, list)
      BY <3>2 DEF AuthorizeNative, NewOperation
    <3>3. CASE \E t \in Times, as \in SUBSET Approvals, list \in AccountLists :
                 \E d \in ForeignDispatches : AuthorizeForeign(op, t, d, as, list)
      BY <3>3 DEF AuthorizeForeign, NewOperation
    <3> QED
      BY <2>1, <3>1, <3>2, <3>3
  <2> QED
    BY <2>2, CommittedMoves
<1>3. CASE Advance
  <2>1. PICK op \in Ops :
        \/ \E i \in intents, claims \in Dispatches, token \in Tokens :
             DispatchFenced(op, i, claims, token)
        \/ \E body \in Bodies : CounterpartyPending(op, body)
        \/ \E a \in resume_authentications : CounterpartyResumeFenced(op, a)
        \/ \E a \in reconciliation_authentications, outcome \in Outcomes :
             CounterpartyRecovered(op, a, outcome)
    BY <1>3 DEF Advance
  <2>2. ASSUME NEW i \in intents, NEW claims \in Dispatches, NEW token \in Tokens,
               DispatchFenced(op, i, claims, token)
        PROVE  NewFence(op, claims, token)
    <3>1. /\ FenceJoins(op, claims, token) /\ operation_states[op] = "authorized"
          /\ operation_states' = [operation_states EXCEPT ![op] = "fenced"]
          /\ fences' = [fences EXCEPT ![op] = [claims |-> claims, token |-> token]]
      BY <2>2 DEF DispatchFenced
    <3>2. fences[op] = NoFence
      BY <1>0, <3>1 DEF OperationInv
    <3>3. fences'[op] # NoFence
      <4>1. claims # None
        BY ReplayAssumption DEF Dispatches
      <4>2. fences'[op] = [claims |-> claims, token |-> token]
        BY <3>1 DEF TypeOK
      <4> QED
        BY <4>1, <4>2 DEF NoFence
    <3>4. Committed' = Committed
      BY <3>1, CommittedMoves
    <3> QED
      BY <3>1, <3>2, <3>3, <3>4 DEF NewFence
  <2>3. ASSUME \/ \E body \in Bodies : CounterpartyPending(op, body)
               \/ \E a \in resume_authentications : CounterpartyResumeFenced(op, a)
        PROVE  fences' = fences /\ Committed' = Committed
    <3>1. /\ UNCHANGED fences /\ operation_states[op] \in {"fenced", "pending"}
          /\ \E s \in {"fenced", "pending"} :
               operation_states' = [operation_states EXCEPT ![op] = s]
      BY <2>3 DEF CounterpartyPending, CounterpartyResumeFenced
    <3>2. PICK s \in {"fenced", "pending"} :
            operation_states' = [operation_states EXCEPT ![op] = s]
      BY <3>1
    <3>3. operation_states[op] # "committed" /\ s # "committed"
      BY <3>1
    <3> QED
      BY <3>1, <3>2, <3>3, CommittedMoves
  <2>4. ASSUME NEW a, NEW outcome, CounterpartyRecovered(op, a, outcome)
        PROVE  UNCHANGED <<operation_states, fences>>
    BY <2>4 DEF CounterpartyRecovered
  <2> QED
    BY <1>1, <2>1, <2>2, <2>3, <2>4
<1>4. CASE Settle
  <2>1. PICK op \in Ops :
        \/ ReleaseBeforeFence(op) \/ ReleaseWithoutReceipt(op)
        \/ \E outcome \in Outcomes : ReleaseOnReceipt(op, outcome)
        \/ \E outcome \in Outcomes : Commit(op, outcome)
    BY <1>4 DEF Settle
  <2>2. ASSUME \/ ReleaseBeforeFence(op) \/ ReleaseWithoutReceipt(op)
               \/ \E outcome \in Outcomes : ReleaseOnReceipt(op, outcome)
        PROVE  fences' = fences /\ Committed' = Committed
    <3>1. /\ UNCHANGED fences /\ operation_states[op] # "committed"
          /\ operation_states' = [operation_states EXCEPT ![op] = "released"]
      BY <2>2 DEF ReleaseBeforeFence, ReleaseWithoutReceipt, ReleaseOnReceipt,
         MaySettle, SettlesAfterFence
    <3> QED
      BY <3>1, CommittedMoves
  <2>3. ASSUME NEW outcome \in Outcomes, Commit(op, outcome)
        PROVE  NewCommit(op)
    <3>1. /\ UNCHANGED fences /\ operation_states[op] # "committed"
          /\ operation_states' = [operation_states EXCEPT ![op] = "committed"]
          /\ fences[op] # NoFence
      BY <2>3 DEF Commit, MaySettle, SettlesAfterFence
    <3>2. op \notin Committed
      BY <3>1 DEF Committed
    <3> QED
      BY <3>1, <3>2, CommittedMoves DEF NewCommit
  <2> QED
    BY <2>1, <2>2, <2>3
<1>5. CASE Authenticate \/ Fail \/ UNCHANGED vars
  BY <1>1, <1>5 DEF Authenticate, Authentication, Fail, vars
<1>6. CASE \/ \E d \in LegacyDecisions : LegacyDecision(d)
           \/ \E i \in Intents : ConsequenceIntent(i)
           \/ \E identity \in Foreign : CounterpartyCancelled(identity)
  BY <1>1, <1>6 DEF LegacyDecision, ConsequenceIntent, CounterpartyCancelled
<1> QED
  BY <1>2, <1>3, <1>4, <1>5, <1>6 DEF Next

\* The history keeps the record that fences, and only that one.
LEMMA OrderedSteps ==
  ASSUME TypeOK, LifecycleInv, [OrderedNext]_<<vars, fenced>>
  PROVE  \/ fences' = fences /\ Committed' = Committed /\ fenced' = fenced
         \/ \E op \in Ops, claims \in Dispatches, token \in Tokens,
               dependency \in Dependencies :
              /\ NewFence(op, claims, token)
              /\ fenced' = Append(fenced,
                                  [operation |-> op, dependency |-> dependency])
         \/ \E op \in Ops : NewCommit(op) /\ fenced' = fenced
<1>1. [Next]_vars
  BY DEF OrderedNext
<1>2. ASSUME fences' = fences
      PROVE  fenced' = fenced
  BY <1>2 DEF OrderedNext, NewlyFenced
<1>3. ASSUME NEW op \in Ops, NEW claims \in Dispatches, NEW token \in Tokens,
             NewFence(op, claims, token)
      PROVE  \E dependency \in Dependencies :
               fenced' = Append(fenced,
                                [operation |-> op, dependency |-> dependency])
  <2>1. fences[op] = NoFence /\ fences'[op] # NoFence
    BY <1>3 DEF NewFence
  <2>2. \A o \in Ops : o # op => fences'[o] = fences[o]
    BY <1>3 DEF NewFence, TypeOK
  <2>3. NewlyFenced = {op}
    BY <2>1, <2>2 DEF NewlyFenced
  <2>4. OrderedNext
    BY <2>1 DEF vars
  <2> QED
    BY <2>3, <2>4 DEF OrderedNext
<1>4. CASE fences' = fences /\ Committed' = Committed
  BY <1>2, <1>4
<1>5. CASE \E op \in Ops, claims \in Dispatches, token \in Tokens :
             NewFence(op, claims, token)
  <2>1. PICK op \in Ops, claims \in Dispatches, token \in Tokens :
          NewFence(op, claims, token)
    BY <1>5
  <2> QED
    BY <1>3, <2>1
<1>6. CASE \E op \in Ops : NewCommit(op)
  <2>1. PICK op \in Ops : NewCommit(op)
    BY <1>6
  <2>2. fenced' = fenced
    BY <1>2, <2>1 DEF NewCommit
  <2> QED
    BY <2>1, <2>2
<1> QED
  BY <1>1, <1>4, <1>5, <1>6, FenceSteps

LEMMA FencedInit == OrderedInit => FencedInv
  BY EmptySeq DEF OrderedInit, Init, FencedInv

\* A fence is read into the history once, and stays in it.
LEMMA FencedStep ==
  ASSUME TypeOK, LifecycleInv, FencedInv, [OrderedNext]_<<vars, fenced>>
  PROVE  FencedInv'
<1>1. CASE fences' = fences /\ fenced' = fenced
  BY <1>1 DEF FencedInv
<1>2. ASSUME NEW op \in Ops, NEW claims \in Dispatches, NEW token \in Tokens,
             NEW dependency \in Dependencies, NewFence(op, claims, token),
             fenced' = Append(fenced,
                              [operation |-> op, dependency |-> dependency])
      PROVE  FencedInv'
  <2> DEFINE f == [operation |-> op, dependency |-> dependency]
  <2>1. f \in FencedRecords /\ f.operation = op
    BY DEF FencedRecords
  <2>2. fenced \in Seq(FencedRecords) /\ fenced' = Append(fenced, f)
    BY <1>2 DEF FencedInv
  <2> HIDE DEF f
  <2>3. /\ fenced' \in Seq(FencedRecords) /\ Len(fenced') = Len(fenced) + 1
        /\ \A n \in 1 .. Len(fenced) : fenced'[n] = fenced[n]
        /\ fenced'[Len(fenced) + 1] = f /\ Len(fenced) \in Nat
    BY <2>1, <2>2, AppendProperties, LenProperties
  <2>4. DOMAIN fenced = 1 .. Len(fenced) /\ DOMAIN fenced' = 1 .. Len(fenced) + 1
    BY <2>2, <2>3, LenProperties
  <2>5. \A o \in Ops : (\E n \in DOMAIN fenced' : fenced'[n].operation = o)
                         <=> o = op \/ \E n \in DOMAIN fenced : fenced[n].operation = o
    BY <2>1, <2>3, <2>4
  <2>6. fences'[op] # NoFence /\ \A o \in Ops : o # op => fences'[o] = fences[o]
    BY <1>2 DEF NewFence, TypeOK
  <2> QED
    BY <2>3, <2>5, <2>6 DEF FencedInv
<1> QED
  BY <1>1, <1>2, OrderedSteps DEF NewCommit

\* A function one place longer, and elsewhere the same, is the sequence with
\* the new place appended.
LEMMA OneMore ==
  ASSUME NEW k \in Nat, NEW s, NEW t,
         s = [n \in 1 .. k |-> s[n]], t = [n \in 1 .. k + 1 |-> t[n]],
         \A n \in 1 .. k : t[n] = s[n]
  PROVE  t = Append(s, t[k + 1])
<1> DEFINE S == {t[n] : n \in 1 .. k + 1}
           x == t[k + 1]
           u == Append(s, x)
<1>1. x \in S /\ \A n \in 1 .. k : s[n] \in S
  <2>1. \A n \in 1 .. k + 1 : t[n] \in S
    OBVIOUS
  <2>2. k + 1 \in 1 .. k + 1 /\ \A n \in 1 .. k : n \in 1 .. k + 1
    OBVIOUS
  <2> HIDE DEF S
  <2>3. \A n \in 1 .. k : t[n] \in S /\ t[n] = s[n]
    BY <2>1, <2>2
  <2> QED
    BY <2>1, <2>2, <2>3
<1> HIDE DEF S
<1>2. s \in [1 .. k -> S]
  BY <1>1
<1>3. s \in Seq(S) /\ Len(s) = k
  BY <1>2
<1>4. /\ u \in Seq(S) /\ Len(u) = k + 1 /\ u[k + 1] = x
      /\ \A n \in 1 .. k : u[n] = s[n]
  BY <1>1, <1>3, AppendProperties
<1>5. u = [n \in 1 .. k + 1 |-> u[n]]
  BY <1>4, LenProperties
<1> HIDE DEF u
<1>6. \A n \in 1 .. k + 1 : u[n] = t[n]
  <2> SUFFICES ASSUME NEW n \in 1 .. k + 1 PROVE u[n] = t[n]
    OBVIOUS
  <2>1. CASE n = k + 1
    BY <1>4, <2>1
  <2>2. CASE n \in 1 .. k
    <3>1. u[n] = s[n] /\ t[n] = s[n]
      BY <1>4, <2>2
    <3> QED
      BY <3>1
  <2> QED
    BY <2>1, <2>2
<1>7. u = t
  BY <1>5, <1>6
<1> QED
  BY <1>7 DEF u

\* A fence adds one record to either view of the ledger and leaves the others.
LEMMA FencesAppend ==
  ASSUME TypeOK, FencedInv, NEW op \in Ops, NEW claims \in Dispatches,
         NEW token \in Tokens, NEW dependency \in Dependencies,
         NewFence(op, claims, token),
         fenced' = Append(fenced, [operation |-> op, dependency |-> dependency])
  PROVE  /\ AFences' = Append(AFences, [operation |-> op, token |-> Token(op)'])
         /\ BFences' = Append(BFences, [operation |-> op, foreign |-> dependency,
                                        signed |-> Signed(op)'])
<1> DEFINE f == [operation |-> op, dependency |-> dependency]
           k == Len(fenced)
<1>1. f \in FencedRecords /\ f.operation = op /\ f.dependency = dependency
  BY DEF FencedRecords
<1>2. fenced \in Seq(FencedRecords) /\ fenced' = Append(fenced, f)
  BY DEF FencedInv
<1> HIDE DEF f
<1>3. /\ fenced' \in Seq(FencedRecords) /\ Len(fenced') = k + 1 /\ k \in Nat
      /\ \A n \in 1 .. k : fenced'[n] = fenced[n]
      /\ fenced'[k + 1] = f
  BY <1>1, <1>2, AppendProperties, LenProperties
<1>4. DOMAIN fenced = 1 .. k /\ DOMAIN fenced' = 1 .. k + 1
  BY <1>2, <1>3, LenProperties
<1>5. \A n \in 1 .. k : fenced[n].operation \in Ops /\ fenced[n].operation # op
  <2>1. \A n \in 1 .. k : fenced[n] \in FencedRecords
    BY <1>2, ElementOfSeq
  <2> QED
    BY <1>4, <2>1 DEF FencedInv, FencedRecords, NewFence
<1>6. \A o \in Ops : o # op => fences'[o] = fences[o]
  BY DEF NewFence, TypeOK
<1>7. \A n \in 1 .. k : /\ fences'[fenced'[n].operation] = fences[fenced[n].operation]
                        /\ fenced'[n] = fenced[n]
  BY <1>3, <1>5, <1>6
<1> HIDE DEF k
<1>8. AFences' = Append(AFences, AFences'[k + 1])
  <2>1. \A n \in 1 .. k : AFences'[n] = AFences[n]
    BY <1>3, <1>4, <1>7 DEF AFences, Token, Signed
  <2>2. /\ AFences = [n \in 1 .. k |-> AFences[n]]
        /\ AFences' = [n \in 1 .. k + 1 |-> AFences'[n]]
    BY <1>4 DEF AFences
  <2> QED
    BY <1>3, <2>1, <2>2, OneMore
<1>9. BFences' = Append(BFences, BFences'[k + 1])
  <2>1. \A n \in 1 .. k : BFences'[n] = BFences[n]
    BY <1>3, <1>4, <1>7 DEF BFences, Signed
  <2>2. /\ BFences = [n \in 1 .. k |-> BFences[n]]
        /\ BFences' = [n \in 1 .. k + 1 |-> BFences'[n]]
    BY <1>4 DEF BFences
  <2> QED
    BY <1>3, <2>1, <2>2, OneMore
<1>10. /\ AFences'[k + 1] = [operation |-> op, token |-> Token(op)']
       /\ BFences'[k + 1] = [operation |-> op, foreign |-> dependency,
                             signed |-> Signed(op)']
  BY <1>1, <1>3, <1>4 DEF AFences, BFences, Token, Signed
<1> QED
  BY <1>8, <1>9, <1>10

\* The operations of either view are those fenced.
LEMMA FencedOperations ==
  ASSUME FencedInv, NEW op \in Ops
  PROVE  /\ op \in ASide!Fenced(AFences) <=> fences[op] # NoFence
         /\ op \in BSide!Fenced(BFences) <=> fences[op] # NoFence
  BY DEF FencedInv, ASide!Fenced, BSide!Fenced, AFences, BFences

LEMMA SidesInit == OrderedInit => ASide!PairInit /\ BSide!PairInit
<1> SUFFICES ASSUME OrderedInit PROVE ASide!PairInit /\ BSide!PairInit
  OBVIOUS
<1>1. fenced = <<>> /\ DOMAIN fenced = {}
  BY EmptySeq, LenProperties DEF OrderedInit
<1>2. AFences = <<>> /\ BFences = <<>>
  BY <1>1 DEF AFences, BFences
<1>3. Committed = {}
  BY DEF OrderedInit, Init, Committed
<1> QED
  BY <1>2, <1>3 DEF ASide!PairInit, BSide!PairInit

\* Every record is a step of A's ledger, and of B's, or leaves it alone.
LEMMA SidesStep ==
  ASSUME TypeOK, LifecycleInv, FencedInv, [OrderedNext]_<<vars, fenced>>
  PROVE  [ASide!PairNext]_(ASide!pairVars) /\ [BSide!PairNext]_(BSide!pairVars)
<1>1. CASE fences' = fences /\ Committed' = Committed /\ fenced' = fenced
  <2>1. AFences' = AFences /\ BFences' = BFences
    BY <1>1 DEF AFences, BFences, Token, Signed
  <2> QED
    BY <1>1, <2>1 DEF ASide!pairVars, BSide!pairVars
<1>2. ASSUME NEW op \in Ops, NEW claims \in Dispatches, NEW token \in Tokens,
             NEW dependency \in Dependencies, NewFence(op, claims, token),
             fenced' = Append(fenced,
                              [operation |-> op, dependency |-> dependency])
      PROVE  ASide!PairNext /\ BSide!PairNext
  <2>1. /\ AFences' = Append(AFences, [operation |-> op, token |-> Token(op)'])
        /\ BFences' = Append(BFences, [operation |-> op, foreign |-> dependency,
                                       signed |-> Signed(op)'])
    BY <1>2, FencesAppend
  <2>2. op \notin ASide!Fenced(AFences) /\ op \notin BSide!Fenced(BFences)
    BY <1>2, FencedOperations DEF NewFence
  <2>3. /\ fences'[op].claims = claims /\ fences'[op].token = token
        /\ token # "absent" => claims.op = op
        /\ Committed' = Committed
    <3>1. fences'[op] = [claims |-> claims, token |-> token]
      BY <1>2 DEF NewFence, TypeOK
    <3> QED
      BY <1>2, <3>1 DEF NewFence, FenceJoins
  <2>4. Token(op)' \in {None, [operation |-> op, signed |-> TRUE],
                        [operation |-> op, signed |-> FALSE]}
    <3>1. CASE token = "absent"
      BY <2>3, <3>1 DEF Token
    <3>2. CASE token # "absent"
      <4>1. Token(op)' = [operation |-> op, signed |-> Signed(op)']
        BY <2>3, <3>2 DEF Token
      <4>2. Signed(op)' \in {TRUE, FALSE}
        BY DEF Signed
      <4> QED
        BY <4>1, <4>2
    <3> QED
      BY <3>1, <3>2
  <2>5. dependency \in {None} \cup BSide!DispatchTokens /\ Signed(op)' \in BOOLEAN
    BY DependenciesAssumption DEF BSide!DispatchTokens, Signed
  <2>6. ASide!AFence(op)
    BY <2>1, <2>2, <2>3, <2>4 DEF ASide!AFence
  <2>7. BSide!BFence(op)
    BY <2>1, <2>2, <2>3, <2>5 DEF BSide!BFence
  <2> QED
    BY <2>6, <2>7 DEF ASide!PairNext, ASide!Ledgers, BSide!PairNext, BSide!Ledgers
<1>3. ASSUME NEW op \in Ops, NewCommit(op), fenced' = fenced
      PROVE  ASide!PairNext /\ BSide!PairNext
  <2>1. AFences' = AFences /\ BFences' = BFences
    BY <1>3 DEF NewCommit, AFences, BFences, Token, Signed
  <2>2. op \in ASide!Fenced(AFences) /\ op \in BSide!Fenced(BFences)
    BY <1>3, FencedOperations DEF NewCommit
  <2>3. ASide!ACommit(op) /\ BSide!BCommit(op)
    BY <1>3, <2>1, <2>2 DEF NewCommit, ASide!ACommit, BSide!BCommit
  <2> QED
    BY <2>3 DEF ASide!PairNext, ASide!Ledgers, BSide!PairNext, BSide!Ledgers
<1> QED
  BY <1>1, <1>2, <1>3, OrderedSteps

\* The replay with its history is the replay.
LEMMA OrderedHolds == OrderedSpec => [](TypeOK /\ LifecycleInv /\ FencedInv)
<1>1. OrderedInit => Init
  BY DEF OrderedInit
<1>2. [OrderedNext]_<<vars, fenced>> => [Next]_vars
  BY DEF OrderedNext
<1>3. TypeOK /\ LifecycleInv /\ FencedInv /\ [OrderedNext]_<<vars, fenced>>
      => FencedInv'
  BY FencedStep
<1> QED
  BY <1>1, <1>2, <1>3, FencedInit, LifecycleHolds, PTL DEF OrderedSpec, Spec

\* Whatever the replay accepts is a ledger that a pair of bundles considers, as
\* A's and as B's: an operation is fenced once and committed only after, and
\* the dispatch read stays first where `_a_dispatch` reads it.
THEOREM SidesImplemented == OrderedSpec => ImplementsSides
<1>1. TypeOK /\ LifecycleInv /\ FencedInv /\ [OrderedNext]_<<vars, fenced>>
      => [ASide!PairNext]_(ASide!pairVars) /\ [BSide!PairNext]_(BSide!pairVars)
  BY SidesStep
<1> QED
  BY <1>1, SidesInit, OrderedHolds, PTL
     DEF OrderedSpec, ImplementsSides, ASide!PairSpec, BSide!PairSpec
-----------------------------------------------------------------------------
(* A pair of bundles, whatever their ledgers.                              *)

AFenceRecords == [operation : AOperations, token : {Absent} \cup DispatchTokens]

BFenceRecords ==
  [operation : BOperations, foreign : {Absent} \cup DispatchTokens, signed : BOOLEAN]

PairTyped ==
  /\ a_fences \in Seq(AFenceRecords) /\ b_fences \in Seq(BFenceRecords)
  /\ a_committed \subseteq Fenced(a_fences)
  /\ b_committed \subseteq Fenced(b_fences)

\* What the verdict on two selected operations is.
PairVerdict(a_op, b_op) ==
  LET valid == AVerified(a_op) /\ BVerified(b_op) /\ Paired
  IN  [valid |-> valid, paired_dispatch_equal |-> Paired,
       a_dispatch |-> IF valid THEN ADispatch ELSE Absent,
       evidence_form |-> IF valid THEN EvidenceForm(b_op) ELSE Absent]

\* The ledgers do not move once they are judged.
PairJudged == result # Absent => result = PairVerdict(selected.a, selected.b)

PairInv == PairTyped /\ PairJudged

\* A record added to a ledger leaves the others, and adds its operation.
LEMMA FenceAdded ==
  ASSUME NEW S, NEW s \in Seq(S), NEW f \in S
  PROVE  /\ Append(s, f) \in Seq(S)
         /\ Fenced(Append(s, f)) = Fenced(s) \cup {f.operation}
<1> DEFINE t == Append(s, f)
<1>1. /\ t \in Seq(S) /\ Len(t) = Len(s) + 1 /\ Len(s) \in Nat
      /\ \A n \in 1 .. Len(s) : t[n] = s[n]
      /\ t[Len(s) + 1] = f
  BY AppendProperties, LenProperties
<1>2. DOMAIN t = 1 .. Len(s) + 1 /\ DOMAIN s = 1 .. Len(s)
  BY <1>1, LenProperties
<1> HIDE DEF t
<1>3. \A op : op \in Fenced(t) <=> op \in Fenced(s) \cup {f.operation}
  BY <1>1, <1>2 DEF Fenced
<1> QED
  BY <1>1, <1>3 DEF t

LEMMA PairStarts == PairInit => PairInv
  BY EmptySeq DEF PairInit, PairInv, PairTyped, PairJudged

LEMMA PairStep ==
  ASSUME PairInv, [PairNext]_pairVars
  PROVE  PairInv'
<1>1. PairTyped /\ PairJudged
  BY DEF PairInv
<1>2. CASE UNCHANGED pairVars
  <2>1. /\ a_fences' = a_fences /\ b_fences' = b_fences
        /\ a_committed' = a_committed /\ b_committed' = b_committed
        /\ selected' = selected /\ result' = result
    BY <1>2 DEF pairVars
  <2> QED
    BY <1>1, <2>1 DEF PairInv, PairTyped, PairJudged, PairVerdict, Fenced,
       AVerified, BVerified, DependencyHolds, FenceOf,
       Paired, ADispatch, BForeignDispatch, EvidenceForm
<1>3. CASE Ledgers
  <2>1. result' = Absent
    BY <1>3 DEF Ledgers
  <2>2. ASSUME NEW op \in AOperations, AFence(op)
        PROVE  PairTyped'
    <3>1. PICK token \in {Absent, [operation |-> op, signed |-> TRUE],
                          [operation |-> op, signed |-> FALSE]} :
            a_fences' = Append(a_fences, [operation |-> op, token |-> token])
      BY <2>2 DEF AFence
    <3>2. /\ b_fences' = b_fences /\ a_committed' = a_committed
          /\ b_committed' = b_committed
      BY <2>2 DEF AFence
    <3> DEFINE f == [operation |-> op, token |-> token]
    <3>3. f \in AFenceRecords /\ f.operation = op
      <4>1. token \in {Absent} \cup DispatchTokens
        <5>1. /\ [operation |-> op, signed |-> TRUE] \in DispatchTokens
              /\ [operation |-> op, signed |-> FALSE] \in DispatchTokens
          BY DEF DispatchTokens
        <5> QED
          BY <5>1
      <4> QED
        BY <4>1 DEF AFenceRecords
    <3> HIDE DEF f
    <3>4. /\ a_fences' \in Seq(AFenceRecords)
          /\ Fenced(a_fences') = Fenced(a_fences) \cup {op}
      <4>1. a_fences' = Append(a_fences, f)
        BY <3>1 DEF f
      <4> QED
        BY <1>1, <3>3, <4>1, FenceAdded DEF PairTyped
    <3> QED
      BY <1>1, <3>2, <3>4 DEF PairTyped
  <2>3. ASSUME NEW op \in BOperations, BFence(op)
        PROVE  PairTyped'
    <3>1. PICK foreign \in {Absent} \cup DispatchTokens, signed \in BOOLEAN :
            b_fences' = Append(b_fences,
              [operation |-> op, foreign |-> foreign, signed |-> signed])
      BY <2>3 DEF BFence
    <3>2. /\ a_fences' = a_fences /\ a_committed' = a_committed
          /\ b_committed' = b_committed
      BY <2>3 DEF BFence
    <3> DEFINE f == [operation |-> op, foreign |-> foreign, signed |-> signed]
    <3>3. f \in BFenceRecords /\ f.operation = op
      BY DEF BFenceRecords
    <3> HIDE DEF f
    <3>4. /\ b_fences' \in Seq(BFenceRecords)
          /\ Fenced(b_fences') = Fenced(b_fences) \cup {op}
      <4>1. b_fences' = Append(b_fences, f)
        BY <3>1 DEF f
      <4> QED
        BY <1>1, <3>3, <4>1, FenceAdded DEF PairTyped
    <3> QED
      BY <1>1, <3>2, <3>4 DEF PairTyped
  <2>4. ASSUME NEW op, ACommit(op) \/ BCommit(op)
        PROVE  PairTyped'
    BY <1>1, <2>4 DEF PairTyped, ACommit, BCommit, Fenced
  <2>5. PairTyped'
    BY <1>3, <2>2, <2>3, <2>4 DEF Ledgers
  <2> QED
    BY <2>1, <2>5 DEF PairInv, PairJudged
<1>4. ASSUME NEW a_op \in AOperations, NEW b_op \in BOperations,
             Verify(a_op, b_op)
      PROVE  PairInv'
  <2>1. /\ selected' = [a |-> a_op, b |-> b_op]
        /\ result' = PairVerdict(a_op, b_op)
        /\ a_fences' = a_fences /\ b_fences' = b_fences
        /\ a_committed' = a_committed /\ b_committed' = b_committed
    BY <1>4 DEF Verify, PairVerdict
  <2>2. PairTyped'
    BY <1>1, <2>1 DEF PairTyped, Fenced
  <2>3. selected'.a = a_op /\ selected'.b = b_op
    BY <2>1
  <2>4. PairVerdict(a_op, b_op)' = PairVerdict(a_op, b_op)
    BY <2>1 DEF PairVerdict,
       AVerified, BVerified, DependencyHolds, FenceOf,
       Paired, ADispatch, BForeignDispatch, EvidenceForm
  <2>5. PairJudged'
    BY <2>1, <2>3, <2>4 DEF PairJudged, PairVerdict
  <2> QED
    BY <2>2, <2>5 DEF PairInv
<1> QED
  BY <1>2, <1>3, <1>4 DEF PairNext

\* Of a ledger with one fence, that is the fence of any operation fenced.
LEMMA OnlyFence ==
  ASSUME NEW S, NEW s \in Seq(S), Len(s) = 1, NEW op \in Fenced(s)
  PROVE  /\ s # <<>> /\ Head(s) = s[1]
         /\ FenceOf(s, op) = s[1] /\ s[1].operation = op
<1>1. DOMAIN s = {1}
  BY LenProperties
<1>2. s[1].operation = op
  BY <1>1 DEF Fenced
<1>3. (CHOOSE n \in DOMAIN s : s[n].operation = op) = 1
  BY <1>1, <1>2
<1>4. s # <<>> /\ Head(s) = s[1]
  BY EmptySeq, HeadTailProperties
<1> QED
  BY <1>2, <1>3, <1>4 DEF FenceOf

\* A valid pair names a dispatch that A fenced and B depends on, and of ledgers
\* with one dispatch each it is valid exactly when both sides verify and B's
\* operation depends on the dispatch A's was given
\* (`verify_paired_execution_bundles`), for any operations and any ledgers.
THEOREM ValidPairHolds == PairSpec => []ValidPairIsLinked
<1>1. PairInv => ValidPairIsLinked
  <2> SUFFICES ASSUME PairInv PROVE ValidPairIsLinked
    OBVIOUS
  <2>0. PairTyped /\ PairJudged
    BY DEF PairInv
  <2> DEFINE a == selected.a
             b == selected.b
             valid == AVerified(a) /\ BVerified(b) /\ Paired
             token == [operation |-> a, signed |-> TRUE]
  <2>1. ASSUME result # Absent
        PROVE  /\ result.valid <=> valid
               /\ valid => /\ result.a_dispatch = ADispatch
                           /\ result.evidence_form = EvidenceForm(b)
    <3>1. result = PairVerdict(a, b)
      BY <2>0, <2>1 DEF PairJudged
    <3>2. result.valid = valid
      BY <3>1 DEF PairVerdict
    <3>3. /\ result.a_dispatch = IF valid THEN ADispatch ELSE Absent
          /\ result.evidence_form = IF valid THEN EvidenceForm(b) ELSE Absent
      BY <3>1 DEF PairVerdict
    <3> HIDE DEF valid
    <3> QED
      BY <3>2, <3>3
  <2> HIDE DEF valid
  <2>2. ASSUME Valid
        PROVE  /\ a \in a_committed /\ b \in b_committed
               /\ result.a_dispatch # Absent
               /\ \E n \in DOMAIN a_fences : a_fences[n].token = result.a_dispatch
               /\ \E n \in DOMAIN b_fences : b_fences[n].foreign = result.a_dispatch
    <3>1. valid /\ result.a_dispatch = ADispatch
      BY <2>1, <2>2 DEF Valid
    <3>2. /\ ADispatch # Absent /\ ADispatch = BForeignDispatch
          /\ a \in a_committed /\ b \in b_committed
      BY <3>1 DEF valid, Paired, AVerified, BVerified
    <3>3. /\ a_fences # <<>> /\ ADispatch = Head(a_fences).token
          /\ b_fences # <<>> /\ BForeignDispatch = Head(b_fences).foreign
      BY <3>2 DEF ADispatch, BForeignDispatch
    <3>4. /\ 1 \in DOMAIN a_fences /\ Head(a_fences) = a_fences[1]
          /\ 1 \in DOMAIN b_fences /\ Head(b_fences) = b_fences[1]
      BY <2>0, <3>3, HeadTailProperties, LenProperties, EmptySeq DEF PairTyped
    <3> QED
      BY <3>1, <3>2, <3>3, <3>4
  <2>3. ASSUME result # Absent, Unique
        PROVE  /\ result.valid <=>
                    /\ AVerified(a) /\ BVerified(b)
                    /\ FenceOf(b_fences, b).foreign = token
               /\ result.valid =>
                    result.a_dispatch = token /\ result.evidence_form # Absent
    <3>1. CASE ~(AVerified(a) /\ BVerified(b))
      BY <2>1, <2>3, <3>1 DEF valid
    <3>2. CASE AVerified(a) /\ BVerified(b)
      <4>1. a \in Fenced(a_fences) /\ b \in Fenced(b_fences)
        BY <2>0, <3>2 DEF PairTyped, AVerified, BVerified
      <4>2. Len(a_fences) = 1 /\ Len(b_fences) = 1
        BY <2>3 DEF Unique
      <4>3. /\ a_fences # <<>> /\ Head(a_fences) = a_fences[1]
            /\ FenceOf(a_fences, a) = a_fences[1]
            /\ a_fences[1].operation = a /\ a \in AOperations
        <5>1. a_fences \in Seq(AFenceRecords) /\ 1 \in 1 .. Len(a_fences)
          BY <2>0, <4>2 DEF PairTyped
        <5>2. a_fences[1] \in AFenceRecords
          BY <5>1, ElementOfSeq
        <5>3. a_fences[1].operation \in AOperations
          BY <5>2 DEF AFenceRecords
        <5> QED
          BY <2>0, <4>1, <4>2, <5>3, OnlyFence DEF PairTyped
      <4>4. /\ b_fences # <<>> /\ Head(b_fences) = b_fences[1]
            /\ FenceOf(b_fences, b) = b_fences[1]
        BY <2>0, <4>1, <4>2, OnlyFence DEF PairTyped
      <4>5. ADispatch = token
        BY <3>2, <4>3 DEF ADispatch, AVerified
      <4>6. BForeignDispatch = FenceOf(b_fences, b).foreign
        BY <4>4 DEF BForeignDispatch
      <4>7. token # Absent
        <5>1. token \in DispatchTokens
          BY <4>3 DEF DispatchTokens
        <5> QED
          BY <5>1, PairAssumption
      <4>8. Paired <=> FenceOf(b_fences, b).foreign = token
        BY <4>5, <4>6, <4>7 DEF Paired
      <4>9. FenceOf(b_fences, b).foreign = token => EvidenceForm(b) # Absent
        BY <4>7, PairAssumption DEF EvidenceForm
      <4> QED
        BY <2>1, <2>3, <3>2, <4>5, <4>8, <4>9 DEF valid
    <3> QED
      BY <3>1, <3>2
  <2> QED
    BY <2>2, <2>3 DEF ValidPairIsLinked
<1>2. PairInv /\ [PairNext]_pairVars => PairInv'
  BY PairStep
<1> QED
  BY <1>1, <1>2, PairStarts, PTL DEF PairSpec
=============================================================================
