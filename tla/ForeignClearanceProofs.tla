----------------------- MODULE ForeignClearanceProofs -----------------------
(* The clearance of a foreign deletion, proved for every length of A's       *)
(* chain, every store, setting and window: what a cleared terminal shows     *)
(* about A's store.  The counting store is RevocationStoreProofs; what this   *)
(* module adds is what the checks of one terminal conclude from its answers. *)
EXTENDS ForeignClearance, RevocationStoreProofs

\* The store and the parties' messages.  Every dispatch states an epoch.
MessagesOK ==
  /\ setting \in Settings
  /\ a_dispatch \in Dispatches \cup {None}
  /\ b_dispatch \in Dispatches \cup {None}
  /\ grants \subseteq Grants
  /\ verdict \in Verdicts

\* What is kept about the terminal of a verdict.
TerminalOK ==
  /\ terminal \in TerminalRecords \cup {None}
  /\ verdict \in {"ordinary", "unexecuted", "cleared"} =>
       /\ terminal # None
       /\ (terminal.clearance # None) = (verdict = "cleared")

IInv ==
  /\ verdict = None => terminal = None
  /\ StoreOK /\ MessagesOK /\ TerminalOK
  /\ NoRevocationUnseen /\ ClearAtOneMoment /\ CommittedIsCleared

LEMMA TypeOKSplits == TypeOK <=> StoreTypeOK /\ MessagesOK /\ TerminalOK
  BY DEF TypeOK, MessagesOK, TerminalOK

\* Until a verdict is returned the properties of verdicts ask nothing.
LEMMA NothingYet ==
  verdict = None /\ terminal = None =>
    TerminalOK /\ NoRevocationUnseen /\ ClearAtOneMoment /\ CommittedIsCleared
  BY NoneAssumption
  DEF TerminalOK, NoRevocationUnseen, ClearAtOneMoment, CommittedIsCleared

LEMMA Starts == Init => IInv
<1> SUFFICES ASSUME Init PROVE IInv
  OBVIOUS
<1>1. StoreOK
  BY StoreStarts DEF Init
<1>2. MessagesOK
  BY DEF Init, MessagesOK, Verdicts
<1>3. verdict = None /\ terminal = None
  BY DEF Init
<1> QED
  BY <1>1, <1>2, <1>3, NothingYet DEF IInv

\* Reading a terminal leaves the store and the messages as they are.
LEMMA ReturnKeeps ==
  ASSUME IInv, NEW v \in Verdicts, NEW t, Return(v, t)
  PROVE  StoreOK' /\ MessagesOK'
  BY StoreStays DEF IInv, Return, messageVars, MessagesOK

\* What the checks of one terminal conclude, at whatever epoch its statuses
\* agree on: the stores that answered them held the same set, and it does not
\* touch A's chain.
LEMMA ClearedConcludes ==
  ASSUME StoreOK, ~Recounted, NEW t \in Terminals(Clearances), Cleared(t)
  PROVE  LET epoch == t.clearance.statuses[1].revocation_epoch IN
         /\ epoch >= t.clearance.grant.revocation_epoch
         /\ ChainJtis \cap RevokedBy(epoch) = {}
         /\ \E h \in history :
              /\ h.at = t.clearance.statuses[1].checked_at
              /\ h.store.revoked = RevokedBy(epoch)
<1> DEFINE statuses == t.clearance.statuses
           epoch == statuses[1].revocation_epoch
<1>1. Len(Chain) \in Nat /\ Len(Chain) >= 1 /\ DOMAIN Chain = 1 .. Len(Chain)
  BY ClearanceAssumption
<1>2. /\ t.clearance \in Clearances
      /\ statuses \in [1 .. Len(Chain) -> Answers \cup {None}]
  BY DEF Terminals, Clearances, StatusLists
<1>3. \A i \in 1 .. Len(Chain) :
        /\ statuses[i] \in Answers
        /\ statuses[i].jti = Chain[i]
        /\ statuses[i].revocation_epoch # None
        /\ statuses[i].revocation_epoch = epoch
        /\ ~statuses[i].is_revoked
  BY <1>2 DEF Cleared, EvidenceHolds, StatusesHold, StatusHolds, StatesRevoked
<1>4. \A i \in 1 .. Len(Chain) : \E h \in history :
        /\ h.at = statuses[i].checked_at
        /\ h.store.revoked = RevokedBy(epoch)
        /\ statuses[i].is_revoked = (Chain[i] \in h.store.revoked)
  BY <1>3, AnswerTells
<1>5. ChainJtis \cap RevokedBy(epoch) = {}
  <2> SUFFICES ASSUME NEW i \in 1 .. Len(Chain) PROVE Chain[i] \notin RevokedBy(epoch)
    BY DEF ChainJtis
  <2>1. ~statuses[i].is_revoked
    BY <1>3
  <2> HIDE DEF epoch, statuses
  <2> QED
    BY <1>4, <2>1
<1>6. epoch >= t.clearance.grant.revocation_epoch
  BY <1>1 DEF Cleared, FenceHolds
<1> QED
  BY <1>1, <1>4, <1>5, <1>6

\* The terminals that may be verified are terminals B may record.
LEMMA TerminalsAreRecords ==
  StoreTypeOK /\ grants \subseteq Grants =>
    /\ Terminals({None}) \subseteq TerminalRecords
    /\ Terminals(Clearances) \subseteq TerminalRecords
    /\ Clearances \subseteq ClearanceRecords
<1> SUFFICES ASSUME StoreTypeOK, grants \subseteq Grants
             PROVE  /\ Terminals({None}) \subseteq TerminalRecords
                    /\ Terminals(Clearances) \subseteq TerminalRecords
                    /\ Clearances \subseteq ClearanceRecords
  OBVIOUS
<1>1. now \in Times /\ 0 .. now \subseteq Times
  BY StoreAssumption DEF StoreTypeOK, Times
<1>2. StatusLists(Len(Chain)) \subseteq [1 .. Len(Chain) -> Statuses \cup {None}]
  BY AnswersAreStatuses DEF StatusLists
<1>3. Clearances \subseteq ClearanceRecords
  BY <1>1, <1>2 DEF Clearances, ClearanceRecords
<1> QED
  BY <1>1, <1>3 DEF Terminals, TerminalRecords

\* The steps that return no verdict: the store moves, or a party signs.
LEMMA PartiesKeep ==
  ASSUME IInv, verdict = None,
         \/ MoveStore \/ AuthorizeForeign \/ AuthorizeNative
         \/ \E op \in {Operation, Other} : Grant(op)
  PROVE  IInv'
<1>1. StoreOK'
  BY StoreMoves, StoreStays
  DEF IInv, MoveStore, AuthorizeForeign, AuthorizeNative, Grant
<1>2. verdict' = None /\ terminal' = None
  BY DEF IInv, MoveStore, AuthorizeForeign, AuthorizeNative, Grant
<1>3. MessagesOK'
  <2> USE DEF IInv, MessagesOK
  <2>1. now \in Times /\ now \in Nat /\ store.epoch \in Epochs
    BY StoreAssumption DEF StoreOK, StoreTypeOK, Times, Stores
  <2>2. CASE MoveStore
    BY <2>2 DEF MoveStore, messageVars
  <2>3. CASE AuthorizeForeign
    BY <2>1, <2>3, ClearanceAssumption DEF AuthorizeForeign, Dispatches
  <2>4. CASE AuthorizeNative
    BY <2>1, <2>4, ClearanceAssumption, StoreAssumption
    DEF AuthorizeNative, Dispatches, Epochs
  <2>5. ASSUME NEW op \in {Operation, Other}, Grant(op) PROVE MessagesOK'
    BY <2>1, <2>5 DEF Grant, Grants
  <2> QED
    BY <2>2, <2>3, <2>4, <2>5
<1> QED
  BY <1>1, <1>2, <1>3, NothingYet DEF IInv, TerminalOK, NoRevocationUnseen,
     ClearAtOneMoment, CommittedIsCleared

\* A terminal without a clearance: what was committed is no foreign deletion.
LEMMA UnclearedKeeps ==
  ASSUME IInv, verdict = None, PassOrdinary \/ PassUnexecuted
  PROVE  IInv'
<1>1. PICK v \in {"ordinary", "unexecuted"}, t \in Terminals({None}) :
        /\ Return(v, t)
        /\ Ordinary(setting) \/ t.status = "not_executed"
  BY DEF PassOrdinary, PassUnexecuted
<1>2. StoreOK' /\ MessagesOK'
  BY <1>1, ReturnKeeps DEF Verdicts
<1>3. TerminalOK'
  BY <1>1, TerminalsAreRecords, NoneAssumption
  DEF IInv, StoreOK, MessagesOK, TerminalOK, Return, Terminals
<1>4. verdict' # None /\ verdict' # "cleared"
  BY <1>1, NoneAssumption DEF Return
<1>5. CommittedIsCleared'
  BY <1>1 DEF CommittedIsCleared, Return, messageVars, Ordinary, LeafMatches
<1> QED
  BY <1>2, <1>3, <1>4, <1>5 DEF IInv, NoRevocationUnseen, ClearAtOneMoment

\* A refusal and a reported revocation accept nothing.
LEMMA RefusedKeeps ==
  ASSUME IInv, verdict = None, ReportRevoked \/ Refuse
  PROVE  IInv'
<1>1. PICK v \in {"revoked", "refused"} : Return(v, None)
  BY DEF ReportRevoked, Refuse
<1>2. StoreOK' /\ MessagesOK'
  BY <1>1, ReturnKeeps DEF Verdicts
<1> QED
  BY <1>1, <1>2, NoneAssumption
  DEF IInv, Return, TerminalOK, NoRevocationUnseen, ClearAtOneMoment, CommittedIsCleared

\* A cleared terminal, by what its checks conclude.
LEMMA ClearedKeeps ==
  ASSUME IInv, verdict = None, Clear
  PROVE  IInv'
<1>1. PICK t \in Terminals(Clearances) : Cleared(t) /\ Return("cleared", t)
  BY DEF Clear
<1>2. StoreOK' /\ MessagesOK'
  BY <1>1, ReturnKeeps DEF Verdicts
<1>3. /\ verdict' = "cleared" /\ terminal' = t
      /\ UNCHANGED <<store, history, committed, setting, grants>>
  BY <1>1 DEF Return, storeVars, messageVars
<1>4. TerminalOK'
  <2>1. t \in TerminalRecords /\ t.clearance \in ClearanceRecords
    <3>1. t.clearance \in Clearances
      BY DEF Terminals
    <3> QED
      BY <3>1, TerminalsAreRecords DEF IInv, StoreOK, MessagesOK
  <2> QED
    BY <1>3, <2>1, NoneAssumption DEF TerminalOK
<1>5. Recounted' <=> Recounted
  BY <1>3 DEF Recounted
<1>6. NoRevocationUnseen'
  BY <1>1, <1>3, <1>5, ClearedConcludes DEF IInv, NoRevocationUnseen, RevokedBy
<1>7. ClearAtOneMoment'
  <2> SUFFICES ASSUME ~Recounted
               PROVE  \E h \in history :
                        /\ ChainJtis \cap h.store.revoked = {}
                        /\ h.at <= t.clearance.checked_at
                        /\ Fresh(t.recorded_at - h.at)
                        /\ \E g \in grants : g.operation = Operation /\ g.prepared_at <= h.at
    BY <1>3, <1>5 DEF ClearAtOneMoment
  <2> DEFINE first == t.clearance.statuses[1]
  <2>1. PICK h \in history :
          /\ h.at = first.checked_at
          /\ ChainJtis \cap h.store.revoked = {}
    BY <1>1, ClearedConcludes DEF IInv
  <2>2. 1 \in 1 .. Len(Chain)
    BY ClearanceAssumption
  <2>3. first.checked_at <= t.clearance.checked_at
    BY <1>1, <2>2 DEF Cleared, EvidenceHolds, StatusesHold, StatusHolds
  <2>4. Fresh(t.recorded_at - first.checked_at)
    BY <1>1, <2>2 DEF Cleared, FreshAtTerminal
  <2>5. /\ t.clearance.grant \in grants
        /\ t.clearance.grant.operation = Operation
        /\ first.checked_at >= t.clearance.grant.prepared_at
    BY <1>1, <2>2 DEF Cleared, FenceHolds, EvidenceHolds, Terminals, Clearances
  <2>6. first.checked_at \in Int /\ t.clearance.grant.prepared_at \in Int
    BY <2>1, <2>5, StoreAssumption
    DEF IInv, StoreOK, StoreTypeOK, MessagesOK, Grants, Times
  <2> QED
    BY <2>1, <2>3, <2>4, <2>5, <2>6
<1>8. CommittedIsCleared'
  BY <1>3 DEF CommittedIsCleared
<1> QED
  BY <1>2, <1>3, <1>4, <1>6, <1>7, <1>8, NoneAssumption DEF IInv

\* Every step keeps the invariant.
LEMMA Keeps == IInv /\ [Next]_vars => IInv'
<1> SUFFICES ASSUME IInv, [Next]_vars PROVE IInv'
  OBVIOUS
<1>1. CASE Next
  BY <1>1, PartiesKeep, UnclearedKeeps, RefusedKeeps, ClearedKeeps DEF Next, Verify
<1>2. CASE UNCHANGED vars
  <2>1. StoreOK'
    BY <1>2, StoreStays DEF IInv, vars
  <2> QED
    BY <1>2, <2>1
    DEF IInv, vars, storeVars, messageVars, MessagesOK, TerminalOK, NoRevocationUnseen,
        ClearAtOneMoment, CommittedIsCleared, Recounted, RevokedBy, LeafMatches
<1> QED
  BY <1>1, <1>2

THEOREM Invariance == Spec => []IInv
  BY Starts, Keeps, PTL DEF Spec

\* Types: every message is one its signer could have signed, and an accepted
\* terminal carries a clearance exactly if it was cleared (TypeOK).
THEOREM TypeCorrect == Spec => []TypeOK
<1>1. IInv => TypeOK
  BY TypeOKSplits DEF IInv, StoreOK
<1> QED
  BY <1>1, Invariance, PTL

\* No revocation that A's store ever counted up to the epoch of the statuses
\* concerns A's chain (NoRevocationUnseen).
THEOREM NoRevocationUnseenHolds == Spec => []NoRevocationUnseen
<1>1. IInv => NoRevocationUnseen
  BY DEF IInv
<1> QED
  BY <1>1, Invariance, PTL

\* A's chain was clear as a whole at a moment between the fence and the gate
\* that is still fresh at the terminal (ClearAtOneMoment).
THEOREM ClearAtOneMomentHolds == Spec => []ClearAtOneMoment
<1>1. IInv => ClearAtOneMoment
  BY DEF IInv
<1> QED
  BY <1>1, Invariance, PTL

\* No committed deletion under a foreign consent is accepted uncleared
\* (CommittedIsCleared).
THEOREM CommittedIsClearedHolds == Spec => []CommittedIsCleared
<1>1. IInv => CommittedIsCleared
  BY DEF IInv
<1> QED
  BY <1>1, Invariance, PTL
=============================================================================
