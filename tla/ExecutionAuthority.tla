------------------------- MODULE ExecutionAuthority -------------------------
(***************************************************************************)
(* verify_execution_authority (admission.py): whether a retained receipt   *)
(* shows that its action was authorised when it was decided.  The checks   *)
(* run in stages; a failed early stage ends the verification, a failed     *)
(* late check is recorded and the others still run.  AuthorityReceipt has  *)
(* the checks that read the receipt alone; this module has those that read *)
(* what the revocation store and the consumption store signed at moments   *)
(* around the decision, which whoever wrote the receipt chose from.        *)
(*                                                                         *)
(* A receipt may rest on two chains, B's own and the one of a foreign      *)
(* dispatch, with a store each.  The model follows the store of one chain, *)
(* the receipt's `side`; what is read of the other chain may hold or not.  *)
(***************************************************************************)
EXTENDS RevocationStore

CONSTANTS
  Caller, DefaultProofAge,
  Receipts,     \* the receipts that may be shown
  SignedAge     \* the freshness bound the stores sign, in moments

INSTANCE AuthorityReceipt

\* What a receipt is, as far as the reading of statuses depends on it.  A
\* dispatch names the chain it was allowed under (`_revocation_identity`).
Receipt(r) ==
  /\ r.side \in {"native", "foreign"}
  /\ r.side = "foreign" => r.foreign # None
  /\ r.evaluated_at \in Times \cup {None}
  /\ r.path \in Seq({r.path[i] : i \in DOMAIN r.path})
  /\ \A i \in DOMAIN r.path : r.path[i].max_revocation_age \in Nat \cup {None}
  /\ r.foreign # None =>
       /\ r.foreign.dispatch.jtis \in Seq(Jtis) \ {<<>>}
       /\ r.foreign.dispatch.max_revocation_age \in Nat \cup {None}
       /\ r.foreign.dispatch.revocation_epoch \in Nat

ASSUME ReceiptAssumption ==
  /\ \A r \in Receipts : Receipt(r)
  /\ None \notin Receipts /\ None \notin Statuses /\ None \notin {"accepted", "refused", "entry"}
  /\ SignedAge \in Nat /\ Caller.epoch_floor \in Nat

CheckNames ==
  {"profile", "receipt_time", "admission", "request_artifact_binding",
   "enforcement_point_binding", "configuration", "resource_binding",
   "retained_credentials", "delegation_path", "holder_request",
   "revocation_status", "cumulative_status"}

VARIABLES
  receipt,    \* the accepted receipt, or None
  statuses,   \* the statuses it retains of the chain that is followed
  rows,       \* when each of its accounts was read
  checks,     \* the checks recorded as passed
  verdict

vars == <<storeVars, receipt, statuses, rows, checks, verdict>>

Init ==
  /\ StoreInit
  /\ receipt = None /\ statuses = <<>> /\ rows = <<>>
  /\ checks = {} /\ verdict = None
-----------------------------------------------------------------------------
(* Revocation statuses.                                                    *)

Bound(ages) == CHOOSE b \in ages : \A a \in ages : b <= a

\* The delegations of the chain that is followed, and how old a status of
\* each may be: the smallest of what the store, the admission or the admitted
\* point, and the delegation or the dispatch allow.
Chain(r) ==
  IF r.side = "foreign" THEN r.foreign.dispatch.jtis
  ELSE [i \in DOMAIN r.path |-> r.path[i].jti]

Age(r, i) ==
  IF r.side = "foreign"
  THEN Bound({SignedAge, ForeignPoint(r).max_revocation_age} \cup
             ({r.foreign.dispatch.max_revocation_age} \ {None}))
  ELSE Bound({SignedAge, r.admission.max_revocation_age} \cup
             ({r.path[i].max_revocation_age} \ {None}))

Floor(r) ==
  IF r.side = "foreign" THEN r.foreign.dispatch.revocation_epoch ELSE Caller.epoch_floor

\* The moment a status or row is compared at: the decision, or an unsigned
\* moment the receipt states beside it, within the bound of the decision.
Compared(checked_at, at, bound) ==
  \E moment \in {at} \cup Times :
    /\ at - bound <= moment /\ moment <= at + bound
    /\ checked_at <= moment /\ moment <= checked_at + bound

\* Mutation of StatusHolds: fresh at the stated moment is fresh enough.
StatusHoldsWhenStated(status, jti, at, bound, floor) ==
  /\ status.jti = jti /\ ~status.is_revoked
  /\ Compared(status.checked_at, at, bound)
  /\ status.revocation_epoch # None /\ status.revocation_epoch >= floor

\* `_verify_revocation_status`.
StatusHolds(status, jti, at, bound, floor) ==
  /\ status.jti = jti /\ ~status.is_revoked
  /\ Compared(status.checked_at, at, bound)
  /\ at - status.checked_at <= bound
  /\ status.revocation_epoch # None /\ status.revocation_epoch >= floor

\* Mutation of StatusesRead: each status is read on its own.
StatusesReadApart(r) ==
  {list \in [DOMAIN Chain(r) -> Answers] :
     \A i \in DOMAIN list :
       StatusHolds(list[i], Chain(r)[i], r.evaluated_at, Age(r, i), Floor(r))}

\* The lists of statuses that pass: one for each delegation, leaf first, and
\* no epoch below the one before.
StatusesRead(r) ==
  {list \in [DOMAIN Chain(r) -> Answers] :
     /\ \A i \in DOMAIN list :
          StatusHolds(list[i], Chain(r)[i], r.evaluated_at, Age(r, i), Floor(r))
     /\ ~EpochRegression(list)}
-----------------------------------------------------------------------------
(* Account rows.                                                           *)

RowAge(r) == Bound({SignedAge, r.admission.max_cumulative_age})

\* `_verify_cumulative_rows`: an admissible row, compared as a status is; its
\* age at the decision is not asked.
RowHolds(r, checked_at) == Compared(checked_at, r.evaluated_at, RowAge(r))

\* The accounts that need a row.
Owed(r) == IF r.schema_version = "6" THEN Accounts(r) ELSE LeafBounds(r)

\* The lists of rows that pass: a row of its own for each account and no other
\* row.  A row is [key, moment it was signed].
RowsRead(r) ==
  IF r.schema_version = "6" /\ ~(CeilingsAgree(r) /\ OwnersAgree(r)) THEN {}
  ELSE {list \in [Owed(r) -> [key : {RowKey(r, x) : x \in Owed(r)}, checked_at : 0 .. now]] :
          \A x \in Owed(r) :
            list[x].key = RowKey(r, x) /\ RowHolds(r, list[x].checked_at)}
-----------------------------------------------------------------------------
(* The stages.  Each holds only if the one before does.                    *)

Readable(r) == r.schema_version \in {"5", "6"}

Timed(r) == Readable(r) /\ r.evaluated_at # None

Admitted(r) ==
  Timed(r) /\ r.admission # None /\ AdmissionHolds(r.admission, r.evaluated_at)

\* The retained dispatch and its digest are there together and verify, with
\* the statuses of the dispatch's chain.
ForeignSettled(r, foreignRead) ==
  /\ Admitted(r)
  /\ (r.foreign = None) = (r.foreign_hash = None)
  /\ r.foreign # None => ForeignBound(r) /\ foreignRead

Pathed(r, foreignRead) == ForeignSettled(r, foreignRead) /\ PathHolds(r)

Named(name, holds) == IF holds THEN {name} ELSE {}

\* The checks a receipt passes, given what could be read of the stores.
Recorded(r, foreignRead, nativeRead, rowsRead) ==
  Named("profile", Readable(r) /\ r.execution_profile = "live")
    \cup Named("receipt_time", Timed(r))
    \cup (IF Admitted(r)
          THEN Named("admission", AdmissionRetained(r))
                 \cup Named("enforcement_point_binding", PointRetained(r))
                 \cup Named("configuration", ConfigurationRetained(r))
                 \cup Named("resource_binding", ResourceRetained(r))
          ELSE {})
    \cup (IF Pathed(r, foreignRead)
          THEN {"delegation_path"}
                 \cup Named("retained_credentials", CredentialsHold(r))
                 \cup Named("request_artifact_binding", RequestBound(r))
                 \cup Named("holder_request", HolderHolds(r))
                 \cup Named("revocation_status", nativeRead)
                 \cup Named("cumulative_status", rowsRead)
          ELSE {})

Valid(r, passed) == passed = CheckNames /\ Consistent(r)
-----------------------------------------------------------------------------
MoveStore ==
  /\ StoreNext
  /\ UNCHANGED <<receipt, statuses, rows, checks, verdict>>

\* A receipt that would pass with statuses and rows that hold.
Passable(r) ==
  /\ Recorded(r, TRUE, TRUE, TRUE) = CheckNames
  /\ Consistent(r)

Accept(r) ==
  /\ Passable(r)
  /\ \E list \in StatusesRead(r), account \in RowsRead(r) :
       statuses' = list /\ rows' = account
  /\ receipt' = r /\ checks' = CheckNames /\ verdict' = "accepted"
  /\ UNCHANGED storeVars

\* What may be read: statuses of the chain that is followed and rows only as
\* the stores signed them, and always something that fails.  Where a native
\* status fails the accounts may be those of the leaf alone, and contradictory
\* ceilings leave no account to answer for.
Readings(r) ==
  {read \in [foreign : BOOLEAN, native : BOOLEAN, rows : BOOLEAN] :
     /\ Pathed(r, TRUE) =>
          /\ (IF r.side = "foreign" THEN read.foreign ELSE read.native)
               => StatusesRead(r) # {}
          /\ read.rows => RowsRead(r) # {} \/ ~read.native \/ ~Consistent(r)}

Refuse(r) ==
  /\ \E passed \in {Recorded(r, read.foreign, read.native, read.rows) : read \in Readings(r)} :
       ~Valid(r, passed) /\ checks' = passed
  /\ verdict' = "refused"
  /\ UNCHANGED <<storeVars, receipt, statuses, rows>>

Next ==
  /\ verdict = None
  /\ \/ MoveStore
     \/ \E r \in Receipts : Accept(r) \/ Refuse(r)

Spec == Init /\ [][Next]_vars
-----------------------------------------------------------------------------
TypeOK ==
  /\ StoreTypeOK
  /\ receipt \in Receipts \cup {None}
  /\ checks \subseteq CheckNames
  /\ verdict \in {None, "accepted", "refused"}
  /\ verdict = "accepted" =>
       /\ receipt # None /\ checks = CheckNames
       /\ statuses \in [DOMAIN Chain(receipt) -> Statuses]

\* An accepted chain was clear as a whole at one moment around the decision,
\* as close to it as a status of the leaf may be, and not before the epoch the
\* caller or the dispatch requires: the statuses of one chain are read one
\* after another, before or after the decision, from a store that revokes and
\* may be restored in between.  Only a store that counted an epoch twice can
\* hide that it was not.
AuthorityAtOneMoment ==
  verdict = "accepted" /\ ~Recounted =>
    \E h \in history :
      /\ \A i \in DOMAIN Chain(receipt) : Chain(receipt)[i] \notin h.store.revoked
      /\ h.store.epoch >= Floor(receipt)
      /\ h.at \in receipt.evaluated_at - Age(receipt, 1) .. receipt.evaluated_at + Age(receipt, 1)

\* A delegation revoked longer before the decision than its status may be old
\* does not pass, whatever moment the receipt claims its status was evaluated
\* at.  A restored store may have forgotten the revocation.
RevocationSeen ==
  verdict = "accepted" /\ restores = 0 =>
    \A i \in DOMAIN Chain(receipt) : \A h \in history :
      Chain(receipt)[i] \in h.store.revoked =>
        h.at >= receipt.evaluated_at - Age(receipt, i)

\* Every windowed bound of every delegation of the path that applies to the
\* action has an admissible row, of its own delegation or of the entry it
\* shares, signed at most twice the bound before the decision: the code asks
\* for one row per derived account and takes the rows apart by identifier.
EveryBoundAnswered ==
  verdict = "accepted" /\ receipt.schema_version = "6" =>
    \A c \in Charges(receipt) : \E x \in DOMAIN rows :
      LET key == rows[x].key IN
      /\ key.kind = c.bound.kind /\ key.duration = c.bound.window.duration
      /\ IF c.bound.aggregation = None
         THEN key.jti = receipt.path[c.at].jti /\ key.scope = None
         ELSE key.scope_id = receipt.path[c.at].entry
      /\ rows[x].checked_at >= receipt.evaluated_at - 2 * RowAge(receipt)

\* What rests on a foreign dispatch was done under B's own consent: the path
\* that was verified is the whole consent of the point that signed the
\* dispatch, it ends in a grant B's admission admits, and its leaf belongs to
\* the key of that point.  The dispatch is joined to the request, the request
\* to the receipt, and the receipt to the path.
ForeignOnConsent ==
  verdict = "accepted" /\ receipt.foreign # None =>
    \E p \in DOMAIN receipt.admission.points :
      LET point == receipt.admission.points[p] IN
      /\ receipt.foreign.dispatch.point = p /\ receipt.foreign.dispatch.key = point.key
      /\ receipt.path = point.consent
      /\ Leaf(receipt).sub = point.key
      /\ \E i \in DOMAIN receipt.admission.origins :
           receipt.admission.origins[i] = point.consent[Len(point.consent)]
=============================================================================
