---------------------- MODULE ExecutionAuthorityProofs ----------------------
(* What an accepted receipt shows, proved for every set of receipts, every   *)
(* length of a path and every history of the stores.  RevocationStoreProofs  *)
(* has what a store promises while it counts; this module adds what it       *)
(* promises while nothing is restored, and what the checks of one receipt    *)
(* conclude.                                                                 *)
EXTENDS ExecutionAuthority, RevocationStoreProofs

-----------------------------------------------------------------------------
(* The store while nothing is restored.                                    *)

\* Without a restore what was revoked once stays revoked.
OnlyGrown ==
  restores = 0 =>
    \A h \in history :
      /\ h.store.revoked \subseteq store.revoked
      /\ \A g \in history : g.at < h.at => g.store.revoked \subseteq h.store.revoked

LEMMA GrownStarts == StoreInit => OnlyGrown
  BY DEF StoreInit, OnlyGrown

LEMMA GrownMoves == StoreOK /\ OnlyGrown /\ StoreNext => OnlyGrown'
<1> SUFFICES ASSUME StoreOK, OnlyGrown, StoreNext, restores' = 0 PROVE OnlyGrown'
  BY DEF OnlyGrown
<1> USE StoreAssumption DEF StoreOK, StoreTypeOK
<1>1. \A h \in history : h.at <= now /\ h.at \in Nat /\ now \in Nat
  BY DEF StoreInv, Times
<1>2. CASE Tick
  BY <1>1, <1>2 DEF Tick, OnlyGrown
<1>3. ASSUME NEW j \in Jtis, Revoke(j) PROVE OnlyGrown'
  <2>1. /\ store'.revoked = store.revoked \cup {j}
        /\ history' = history \cup {[at |-> now, store |-> store']}
        /\ restores = 0
    BY <1>3 DEF Revoke, Hold
  <2> QED
    BY <1>1, <2>1 DEF OnlyGrown
<1>4. CASE Restore
  BY <1>4 DEF Restore
<1> QED
  BY <1>2, <1>3, <1>4 DEF StoreNext

\* What an answer says was true of a store of the history.
LEMMA AnswerWasTrue ==
  ASSUME NEW s \in Answers
  PROVE  \E h \in history :
           h.at = s.checked_at /\ s.is_revoked = (s.jti \in h.store.revoked)
  BY DEF Answers, Answer
-----------------------------------------------------------------------------
(* One receipt.                                                            *)

\* A receipt that may be accepted passes every stage.
LEMMA PassableMeans ==
  ASSUME NEW r, Passable(r)
  PROVE  Pathed(r, TRUE) /\ RequestBound(r) /\ HolderHolds(r) /\ Consistent(r)
<1>1. /\ "delegation_path" \in Recorded(r, TRUE, TRUE, TRUE)
      /\ "request_artifact_binding" \in Recorded(r, TRUE, TRUE, TRUE)
      /\ "holder_request" \in Recorded(r, TRUE, TRUE, TRUE)
  BY DEF Passable, CheckNames
<1> QED
  BY <1>1 DEF Recorded, Named, Passable

\* What the stages establish of the values the statuses are compared with.
LEMMA PassableTyped ==
  ASSUME NEW r \in Receipts, Passable(r)
  PROVE  /\ r.evaluated_at \in Int
         /\ \E n \in Nat : n > 0 /\ DOMAIN Chain(r) = 1 .. n
         /\ \A i \in DOMAIN Chain(r) : Age(r, i) \in Int
         /\ RowAge(r) \in Int
         /\ Floor(r) \in Nat
<1>1. Receipt(r) /\ Pathed(r, TRUE)
  BY PassableMeans, ReceiptAssumption
<1>2. r.evaluated_at \in Int
  BY <1>1 DEF Receipt, Pathed, ForeignSettled, Admitted, Timed, Times
<1>3. /\ r.admission.max_revocation_age \in Nat
      /\ r.admission.max_cumulative_age \in Nat
  BY <1>1 DEF Pathed, ForeignSettled, Admitted, AdmissionHolds, AdmissionShape
<1>4. \A a, b \in Int : Bound({a, b}) \in Int
  <2> SUFFICES ASSUME NEW a \in Int, NEW b \in Int PROVE Bound({a, b}) \in Int
    OBVIOUS
  <2>1. \E m \in {a, b} : \A x \in {a, b} : m <= x
    OBVIOUS
  <2> QED
    BY <2>1 DEF Bound
<1>5. \A a, b \in Int : \A c \in Int \cup {None} : Bound({a, b} \cup ({c} \ {None})) \in Int
  <2> SUFFICES ASSUME NEW a \in Int, NEW b \in Int, NEW c \in Int \cup {None}
               PROVE  Bound({a, b} \cup ({c} \ {None})) \in Int
    OBVIOUS
  <2>1. CASE c = None
    <3>1. {a, b} \cup ({c} \ {None}) = {a, b}
      BY <2>1
    <3> QED
      BY <1>4, <3>1
  <2>2. CASE c # None
    <3> DEFINE S == {a, b} \cup ({c} \ {None})
    <3>1. S = {a, b, c}
      BY <2>2
    <3>2. \E m \in {a, b, c} : \A x \in {a, b, c} : m <= x
      BY <2>2
    <3> QED
      BY <2>2, <3>1, <3>2 DEF Bound
  <2> QED
    BY <2>1, <2>2
<1>6. CASE r.side = "native"
  <2>1. DOMAIN Chain(r) = DOMAIN r.path
    BY <1>6 DEF Chain
  <2>2. r.path # <<>> /\ r.path \in Seq({r.path[i] : i \in DOMAIN r.path})
    BY <1>1 DEF Pathed, PathHolds, Receipt
  <2>3. Len(r.path) \in Nat /\ Len(r.path) > 0 /\ DOMAIN r.path = 1 .. Len(r.path)
    BY <2>2
  <2>4. ASSUME NEW i \in DOMAIN r.path PROVE Age(r, i) \in Int
    <3> DEFINE limit == r.admission.max_revocation_age
               own == r.path[i].max_revocation_age
    <3>1. SignedAge \in Int /\ limit \in Int /\ own \in Int \cup {None}
      BY <1>1, <1>3, ReceiptAssumption DEF Receipt
    <3>2. Age(r, i) = Bound({SignedAge, limit} \cup ({own} \ {None}))
      BY <1>6 DEF Age
    <3> HIDE DEF limit, own
    <3> QED
      BY <1>5, <3>1, <3>2
  <2>5. Floor(r) \in Nat
    BY <1>6, ReceiptAssumption DEF Floor
  <2> QED
    BY <1>2, <1>3, <1>4, <2>1, <2>3, <2>4, <2>5, ReceiptAssumption DEF RowAge
<1>7. CASE r.side = "foreign"
  <2>1. r.foreign # None /\ ForeignPoints(r) # {} /\ Floor(r) \in Nat
    BY <1>1, <1>7 DEF Receipt, Pathed, ForeignSettled, ForeignBound, Floor
  <2>2. r.foreign.dispatch.jtis \in Seq(Jtis) /\ r.foreign.dispatch.jtis # <<>>
    BY <1>1, <2>1 DEF Receipt
  <2>3. /\ Len(r.foreign.dispatch.jtis) \in Nat /\ Len(r.foreign.dispatch.jtis) > 0
        /\ DOMAIN Chain(r) = 1 .. Len(r.foreign.dispatch.jtis)
    BY <1>7, <2>2 DEF Chain
  <2>4. ForeignPoint(r).max_revocation_age \in Nat
    <3>1. \E p \in DOMAIN r.admission.points : ForeignPoint(r) = r.admission.points[p]
      BY <2>1 DEF ForeignPoint, ForeignPoints
    <3>2. \A p \in DOMAIN r.admission.points :
            r.admission.points[p].max_revocation_age \in Nat
      BY <1>1, <2>1 DEF Pathed, ForeignSettled, ForeignBound, Admitted, AdmissionHolds,
         AdmissionShape, PointShape
    <3> QED
      BY <3>1, <3>2
  <2>5. ASSUME NEW i \in DOMAIN Chain(r) PROVE Age(r, i) \in Int
    <3> DEFINE limit == ForeignPoint(r).max_revocation_age
               own == r.foreign.dispatch.max_revocation_age
    <3>1. SignedAge \in Int /\ limit \in Int /\ own \in Int \cup {None}
      BY <1>1, <2>1, <2>4, ReceiptAssumption DEF Receipt
    <3>2. Age(r, i) = Bound({SignedAge, limit} \cup ({own} \ {None}))
      BY <1>7 DEF Age
    <3> HIDE DEF limit, own
    <3> QED
      BY <1>5, <3>1, <3>2
  <2> QED
    BY <1>2, <1>3, <1>4, <2>1, <2>3, <2>5, ReceiptAssumption DEF RowAge
<1> QED
  BY <1>1, <1>6, <1>7 DEF Receipt

\* A list of statuses that passes, entry by entry.
LEMMA ListRead ==
  ASSUME StoreOK, NEW r \in Receipts, Passable(r), NEW list \in StatusesRead(r)
  PROVE  /\ list \in [DOMAIN Chain(r) -> Answers]
         /\ list \in [DOMAIN Chain(r) -> Statuses]
         /\ ~EpochRegression(list)
         /\ \A i \in DOMAIN Chain(r) :
              /\ list[i].jti = Chain(r)[i] /\ ~list[i].is_revoked
              /\ list[i].revocation_epoch \in Nat
              /\ list[i].revocation_epoch >= Floor(r)
              /\ list[i].checked_at \in Int
              /\ list[i].checked_at >= r.evaluated_at - Age(r, i)
              /\ list[i].checked_at <= r.evaluated_at + Age(r, i)
<1>1. /\ list \in [DOMAIN Chain(r) -> Answers]
      /\ ~EpochRegression(list)
      /\ \A i \in DOMAIN Chain(r) :
           StatusHolds(list[i], Chain(r)[i], r.evaluated_at, Age(r, i), Floor(r))
  BY DEF StatusesRead
<1>2. list \in [DOMAIN Chain(r) -> Statuses]
  BY <1>1, AnswersAreStatuses DEF StoreOK
<1>3. ASSUME NEW i \in DOMAIN Chain(r)
      PROVE  /\ list[i].jti = Chain(r)[i] /\ ~list[i].is_revoked
             /\ list[i].revocation_epoch \in Nat
             /\ list[i].revocation_epoch >= Floor(r)
             /\ list[i].checked_at \in Int
             /\ list[i].checked_at >= r.evaluated_at - Age(r, i)
             /\ list[i].checked_at <= r.evaluated_at + Age(r, i)
  <2>1. /\ r.evaluated_at \in Int /\ Age(r, i) \in Int
        /\ list[i].checked_at \in Int
        /\ list[i].revocation_epoch \in Nat \cup {None}
    BY <1>2, PassableTyped DEF Statuses, Times, Epochs
  <2>2. \E moment \in Int : /\ moment <= r.evaluated_at + Age(r, i)
                            /\ list[i].checked_at <= moment
    BY <1>1, <2>1 DEF StatusHolds, Compared, Times
  <2> QED
    BY <1>1, <2>1, <2>2 DEF StatusHolds
<1> QED
  BY <1>1, <1>2, <1>3

\* The stores that answered for one chain: the first of them held no
\* revocation of any of its delegations.
LEMMA ClearAtFirst ==
  ASSUME StoreOK, ~Recounted, NEW r \in Receipts, Passable(r), NEW list \in StatusesRead(r)
  PROVE  \E h \in history :
           /\ \A i \in DOMAIN Chain(r) : Chain(r)[i] \notin h.store.revoked
           /\ h.store.epoch >= Floor(r)
           /\ h.at \in r.evaluated_at - Age(r, 1) .. r.evaluated_at + Age(r, 1)
<1>1. PICK n \in Nat : n > 0 /\ DOMAIN Chain(r) = 1 .. n
  BY PassableTyped
<1>2. 1 \in DOMAIN Chain(r)
  BY <1>1
<1>3. /\ list \in [1 .. n -> Answers] /\ ~EpochRegression(list)
      /\ \A i \in 1 .. n : list[i].jti = Chain(r)[i] /\ ~list[i].is_revoked
      /\ Counted(list) = 1 .. n
  <2>1. \A i \in 1 .. n : list[i] # None /\ list[i].revocation_epoch # None
    BY <1>1, ListRead, ReceiptAssumption, StoreAssumption
  <2> QED
    BY <1>1, <2>1, ListRead DEF Counted
<1>4. PICK h \in history :
        /\ h.at = list[1].checked_at
        /\ h.store.epoch = list[1].revocation_epoch
        /\ \A i \in 1 .. n : list[i].jti \notin h.store.revoked
  BY <1>1, <1>3, FirstIsClear
<1>5. \A i \in DOMAIN Chain(r) : Chain(r)[i] \notin h.store.revoked
  BY <1>1, <1>3, <1>4
<1>6. /\ h.store.epoch >= Floor(r)
      /\ h.at \in r.evaluated_at - Age(r, 1) .. r.evaluated_at + Age(r, 1)
  BY <1>2, <1>4, ListRead, PassableTyped
<1> QED
  BY <1>5, <1>6

\* A store that restored nothing shows every revocation older than the status.
LEMMA OldRevocationShows ==
  ASSUME StoreOK, OnlyGrown, restores = 0,
         NEW r \in Receipts, Passable(r), NEW list \in StatusesRead(r),
         NEW i \in DOMAIN Chain(r), NEW h \in history, Chain(r)[i] \in h.store.revoked
  PROVE  h.at >= r.evaluated_at - Age(r, i)
<1>1. /\ list[i] \in Answers /\ list[i].jti = Chain(r)[i] /\ ~list[i].is_revoked
      /\ list[i].checked_at \in Int
      /\ list[i].checked_at >= r.evaluated_at - Age(r, i)
  BY ListRead
<1>2. PICK g \in history : /\ g.at = list[i].checked_at
                           /\ list[i].is_revoked = (list[i].jti \in g.store.revoked)
  BY <1>1, AnswerWasTrue
<1>3. Chain(r)[i] \notin g.store.revoked
  BY <1>1, <1>2
<1>4. ~(h.at < g.at)
  BY <1>3 DEF OnlyGrown
<1>5. h.at \in Int /\ r.evaluated_at \in Int /\ Age(r, i) \in Int
  BY PassableTyped DEF StoreOK, StoreTypeOK, Times
<1> QED
  BY <1>1, <1>2, <1>4, <1>5

\* A bound of the path is answered by the row of the account it belongs to:
\* its own, or that of the first delegation which states the shared account.
LEMMA BoundsAnswered ==
  ASSUME NEW r \in Receipts, Passable(r), r.schema_version = "6",
         NEW account \in RowsRead(r), NEW c \in Charges(r)
  PROVE  \E x \in DOMAIN account :
           LET key == account[x].key IN
           /\ key.kind = c.bound.kind /\ key.duration = c.bound.window.duration
           /\ IF c.bound.aggregation = None
              THEN key.jti = r.path[c.at].jti /\ key.scope = None
              ELSE key.scope_id = r.path[c.at].entry
           /\ account[x].checked_at >= r.evaluated_at - 2 * RowAge(r)
<1>1. DOMAIN account = Accounts(r)
  BY DEF RowsRead, Owed
<1>2. ASSUME NEW x \in Accounts(r)
      PROVE  /\ account[x].key = RowKey(r, x)
             /\ account[x].checked_at >= r.evaluated_at - 2 * RowAge(r)
  <2>1. /\ account[x].key = RowKey(r, x) /\ RowHolds(r, account[x].checked_at)
        /\ account[x].checked_at \in Int
    BY <1>2 DEF RowsRead, Owed
  <2>2. r.evaluated_at \in Int /\ RowAge(r) \in Int
    BY PassableTyped
  <2>3. \E moment \in Int : /\ r.evaluated_at - RowAge(r) <= moment
                            /\ moment <= account[x].checked_at + RowAge(r)
    BY <2>1, <2>2 DEF RowHolds, Compared, Times
  <2> QED
    BY <2>1, <2>2, <2>3
<1>3. \A y \in Charges(r) : y.at \in Nat
  <2>1. r.path \in Seq({r.path[i] : i \in DOMAIN r.path})
    BY ReceiptAssumption DEF Receipt
  <2>2. DOMAIN r.path \subseteq Nat
    BY <2>1
  <2> QED
    BY <2>2 DEF Charges
<1>4. CASE c.bound.aggregation # "entry"
  <2>1. c \in Accounts(r)
    BY <1>4 DEF Accounts, OneAccount
  <2>2. /\ RowKey(r, c).kind = c.bound.kind
        /\ RowKey(r, c).duration = c.bound.window.duration
        /\ IF c.bound.aggregation = None
           THEN RowKey(r, c).jti = r.path[c.at].jti /\ RowKey(r, c).scope = None
           ELSE RowKey(r, c).scope_id = r.path[c.at].entry
    BY DEF RowKey
  <2>3. c \in DOMAIN account
    BY <1>1, <2>1
  <2> WITNESS c \in DOMAIN account
  <2> QED
    BY <1>2, <2>1, <2>2
<1>5. CASE c.bound.aggregation = "entry"
  <2> DEFINE Shares == {y \in Charges(r) : OneAccount(r, c, y)}
             Places == {y.at : y \in Shares}
  <2>1. c \in Shares
    BY <1>5 DEF OneAccount
  <2>2. Places \in SUBSET Nat /\ Places # {}
    BY <1>3, <2>1
  <2>3. PICK k \in Places : \A p \in Places : k <= p
    <3> HIDE DEF Places
    <3> QED
      BY <2>2, Smallest
  <2>4. PICK x \in Shares : x.at = k
    OBVIOUS
  <2>5. \A y \in Charges(r) : OneAccount(r, x, y) => OneAccount(r, c, y)
    BY <2>4 DEF OneAccount
  <2>6. x \in Accounts(r)
    BY <2>3, <2>4, <2>5 DEF Accounts
  <2>7. /\ RowKey(r, x).kind = c.bound.kind
        /\ RowKey(r, x).duration = c.bound.window.duration
        /\ RowKey(r, x).scope_id = r.path[c.at].entry
    BY <2>4, ReceiptAssumption DEF RowKey, OneAccount
  <2>8. c.bound.aggregation # None
    BY <1>5, ReceiptAssumption
  <2> HIDE DEF Shares, Places
  <2>9. x \in DOMAIN account
    BY <1>1, <2>6
  <2> WITNESS x \in DOMAIN account
  <2> QED
    BY <1>2, <2>6, <2>7, <2>8
<1> QED
  BY <1>4, <1>5

\* The dispatch is joined to the request, the request to the receipt and the
\* receipt to the path.
LEMMA DispatchOnConsent ==
  ASSUME NEW r \in Receipts, Passable(r), r.foreign # None
  PROVE  \E p \in DOMAIN r.admission.points :
           LET point == r.admission.points[p] IN
           /\ r.foreign.dispatch.point = p /\ r.foreign.dispatch.key = point.key
           /\ r.path = point.consent
           /\ Leaf(r).sub = point.key
           /\ \E i \in DOMAIN r.admission.origins :
                r.admission.origins[i] = point.consent[Len(point.consent)]
<1>1. Pathed(r, TRUE) /\ RequestBound(r) /\ HolderHolds(r)
  BY PassableMeans
<1>2. ForeignBound(r) /\ PathHolds(r)
  BY <1>1 DEF Pathed, ForeignSettled
<1>3. PICK p \in ForeignPoints(r) : ForeignPoint(r) = r.admission.points[p]
  BY <1>2 DEF ForeignBound, ForeignPoint
<1> DEFINE point == r.admission.points[p]
<1>4. /\ p \in DOMAIN r.admission.points
      /\ r.foreign.dispatch.point = p /\ r.foreign.dispatch.key = point.key
  BY <1>3 DEF ForeignPoints
<1>5. r.path = point.consent /\ Leaf(r).sub = point.key
  BY <1>1, <1>2, <1>3 DEF ForeignBound, ForeignRequest, RequestBound, HolderHolds
<1>6. \E i \in DOMAIN r.admission.origins : r.admission.origins[i] = r.path[Len(r.path)]
  BY <1>2 DEF PathHolds, OriginHolds, Origin
<1> QED
  BY <1>4, <1>5, <1>6
-----------------------------------------------------------------------------
(* The invariant.                                                          *)

IInv ==
  /\ StoreOK /\ OnlyGrown
  /\ TypeOK
  /\ AuthorityAtOneMoment /\ RevocationSeen /\ EveryBoundAnswered /\ ForeignOnConsent

\* Until a receipt is accepted the properties of receipts ask nothing.
LEMMA NothingYet ==
  verdict # "accepted" =>
    AuthorityAtOneMoment /\ RevocationSeen /\ EveryBoundAnswered /\ ForeignOnConsent
  BY DEF AuthorityAtOneMoment, RevocationSeen, EveryBoundAnswered, ForeignOnConsent

LEMMA Starts == Init => IInv
<1> SUFFICES ASSUME Init PROVE IInv
  OBVIOUS
<1>1. StoreOK /\ OnlyGrown
  BY StoreStarts, GrownStarts DEF Init
<1>2. verdict # "accepted"
  BY ReceiptAssumption DEF Init
<1>3. TypeOK
  BY <1>1, <1>2 DEF Init, TypeOK, StoreOK
<1> QED
  BY <1>1, <1>2, <1>3, NothingYet DEF IInv

\* Whoever leaves the store alone keeps what is known of it.
LEMMA StoreKept == StoreOK /\ OnlyGrown /\ UNCHANGED storeVars => StoreOK' /\ OnlyGrown'
<1> SUFFICES ASSUME StoreOK, OnlyGrown, UNCHANGED storeVars PROVE StoreOK' /\ OnlyGrown'
  OBVIOUS
<1>1. StoreOK'
  BY StoreStays
<1>2. OnlyGrown'
  BY DEF storeVars, OnlyGrown
<1> QED
  BY <1>1, <1>2

\* The store moves.
LEMMA MoveKeeps == IInv /\ verdict = None /\ MoveStore => IInv'
<1> SUFFICES ASSUME IInv, verdict = None, MoveStore PROVE IInv'
  OBVIOUS
<1>1. StoreOK' /\ OnlyGrown'
  BY StoreMoves, GrownMoves DEF IInv, MoveStore
<1>2. verdict' = None /\ verdict' # "accepted"
  BY ReceiptAssumption DEF MoveStore
<1>3. TypeOK'
  BY <1>1, <1>2 DEF IInv, TypeOK, StoreOK, MoveStore
<1> QED
  BY <1>1, <1>2, <1>3
  DEF IInv, AuthorityAtOneMoment, RevocationSeen, EveryBoundAnswered, ForeignOnConsent

\* A receipt is refused.
LEMMA RefuseKeeps == ASSUME IInv, NEW r \in Receipts, Refuse(r) PROVE IInv'
<1>1. StoreOK' /\ OnlyGrown'
  BY StoreKept DEF IInv, Refuse
<1>2. verdict' = "refused" /\ receipt' = receipt
  BY DEF Refuse
<1>3. checks' \subseteq CheckNames
  BY DEF Refuse, Recorded, Named, CheckNames
<1>4. TypeOK'
  BY <1>1, <1>2, <1>3 DEF IInv, TypeOK, StoreOK
<1> QED
  BY <1>1, <1>2, <1>4
  DEF IInv, AuthorityAtOneMoment, RevocationSeen, EveryBoundAnswered, ForeignOnConsent

\* A receipt is accepted.
LEMMA AcceptKeeps == ASSUME IInv, NEW r \in Receipts, Accept(r) PROVE IInv'
<1>1. StoreOK' /\ OnlyGrown' /\ StoreOK /\ OnlyGrown
  BY StoreKept DEF IInv, Accept
<1>2. PICK list \in StatusesRead(r), account \in RowsRead(r) :
        statuses' = list /\ rows' = account
  BY DEF Accept
<1>3. /\ Passable(r) /\ receipt' = r /\ checks' = CheckNames /\ verdict' = "accepted"
      /\ UNCHANGED <<now, store, history, committed, restores>>
  BY DEF Accept, storeVars
<1>4. TypeOK'
  <2>1. list \in [DOMAIN Chain(r) -> Statuses]
    BY <1>1, <1>3, ListRead
  <2>2. receipt' # None
    BY <1>3, ReceiptAssumption
  <2> QED
    BY <1>1, <1>2, <1>3, <2>1, <2>2 DEF TypeOK, StoreOK
<1>5. AuthorityAtOneMoment'
  <2>1. Recounted' <=> Recounted
    BY <1>3 DEF Recounted
  <2> QED
    BY <1>1, <1>3, <2>1, ClearAtFirst DEF AuthorityAtOneMoment
<1>6. RevocationSeen'
  BY <1>1, <1>3, OldRevocationShows DEF RevocationSeen
<1>7. EveryBoundAnswered'
  BY <1>2, <1>3, BoundsAnswered DEF EveryBoundAnswered
<1>8. ForeignOnConsent'
  BY <1>3, DispatchOnConsent DEF ForeignOnConsent
<1> QED
  BY <1>1, <1>4, <1>5, <1>6, <1>7, <1>8 DEF IInv

\* Every step keeps the invariant.
LEMMA Keeps == IInv /\ [Next]_vars => IInv'
<1> SUFFICES ASSUME IInv, [Next]_vars PROVE IInv'
  OBVIOUS
<1>1. CASE Next
  BY <1>1, MoveKeeps, RefuseKeeps, AcceptKeeps DEF Next
<1>2. CASE UNCHANGED vars
  <2>1. StoreOK' /\ OnlyGrown'
    BY <1>2, StoreKept DEF IInv, vars
  <2>2. UNCHANGED <<now, store, history, committed, restores, receipt, statuses, rows, checks, verdict>>
    BY <1>2 DEF vars, storeVars
  <2>3. TypeOK'
    BY <2>1, <2>2 DEF IInv, TypeOK, StoreOK
  <2>4. AuthorityAtOneMoment' /\ RevocationSeen' /\ EveryBoundAnswered' /\ ForeignOnConsent'
    BY <2>2 DEF IInv, AuthorityAtOneMoment, RevocationSeen, EveryBoundAnswered,
       ForeignOnConsent, Recounted
  <2> QED
    BY <2>1, <2>3, <2>4 DEF IInv
<1> QED
  BY <1>1, <1>2

THEOREM Invariance == Spec => []IInv
  BY Starts, Keeps, PTL DEF Spec

\* Types: what is recorded is a set of the twelve checks, and an accepted
\* receipt has a status of the store for every delegation (TypeOK).
THEOREM TypeCorrect == Spec => []TypeOK
<1>1. IInv => TypeOK
  BY DEF IInv
<1> QED
  BY <1>1, Invariance, PTL

\* An accepted chain was clear as a whole at one moment around the decision,
\* at or above the required epoch (AuthorityAtOneMoment).
THEOREM AuthorityAtOneMomentHolds == Spec => []AuthorityAtOneMoment
<1>1. IInv => AuthorityAtOneMoment
  BY DEF IInv
<1> QED
  BY <1>1, Invariance, PTL

\* Without a restore no revocation older than the status of its delegation may
\* be passes (RevocationSeen).
THEOREM RevocationSeenHolds == Spec => []RevocationSeen
<1>1. IInv => RevocationSeen
  BY DEF IInv
<1> QED
  BY <1>1, Invariance, PTL

\* Every applicable windowed bound of the path is answered by a row
\* (EveryBoundAnswered).
THEOREM EveryBoundAnsweredHolds == Spec => []EveryBoundAnswered
<1>1. IInv => EveryBoundAnswered
  BY DEF IInv
<1> QED
  BY <1>1, Invariance, PTL

\* What rests on a foreign dispatch was done under the whole consent of the
\* point that signed it (ForeignOnConsent).
THEOREM ForeignOnConsentHolds == Spec => []ForeignOnConsent
<1>1. IInv => ForeignOnConsent
  BY DEF IInv
<1> QED
  BY <1>1, Invariance, PTL
=============================================================================
