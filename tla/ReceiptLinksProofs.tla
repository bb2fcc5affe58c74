------------------------- MODULE ReceiptLinksProofs -------------------------
(***************************************************************************)
(* The theorems of ReceiptLinks: what a ledger without issues means, for   *)
(* every ledger; that a broken numbered ledger cannot be mended by what is *)
(* appended; and that a gateway is never accused.                          *)
(***************************************************************************)
EXTENDS ReceiptLinks, TLAPS

Types == {"decision", "consequence_intent", "outcome", "other"}

\* What a record of each type has.
LEMMA Fields ==
  ASSUME NEW r \in Records
  PROVE  /\ r.seq \in Seqs \cup {None} /\ r.record_type \in Types
         /\ r.record_type = "decision" =>
              /\ r.request \in Requests \cup {None} /\ r.decision \in Verdicts \cup {None}
              /\ r.dry_run \in BOOLEAN \cup {None} /\ r.governance_mode \in Modes \cup {None}
              /\ r.hard_delegation \in BOOLEAN /\ r.stated \in BOOLEAN
         /\ r.record_type = "consequence_intent" =>
              r.request \in Requests \cup {None} /\ r.decision_seq \in Seqs \cup {None}
         /\ r.record_type = "outcome" =>
              /\ r.request \in Requests \cup {None} /\ r.decision_seq \in Seqs \cup {None}
              /\ r.intent_seq \in Seqs \cup {None} /\ r.decision \in Verdicts \cup {None}
              /\ r.success \in Successes \cup {None}
BY DEF Records, Types

\* A table holds records of the ledger, of one type and with a number.
LEMMA InTable ==
  ASSUME NEW l \in Seq(Records), NEW t, NEW x \in OfType(l, t)
  PROVE  /\ x \in Records /\ x.record_type = t /\ x.seq \in Seqs
         /\ \E i \in Kept(l) : x = l[i]
<1>1. PICK i \in Kept(l) : x = l[i] /\ l[i].record_type = t
  BY DEF OfType
<1>2. i \in DOMAIN l /\ l[i].seq # None
  BY DEF Kept
<1>3. l[i] \in Records
  BY <1>2
<1> QED BY <1>1, <1>2, <1>3, Fields

\* A number names at most one record, whatever its type.
LEMMA OneRecord ==
  ASSUME NEW l \in Seq(Records), NEW t, NEW u, NEW x \in OfType(l, t), NEW y \in OfType(l, u),
         x.seq = y.seq
  PROVE  x = y
<1>1. PICK i \in Kept(l) : x = l[i]
  BY InTable
<1>2. PICK k \in Kept(l) : y = l[k]
  BY InTable
<1>3. i \in DOMAIN l /\ k \in DOMAIN l /\ i <= k /\ k <= i
  BY <1>1, <1>2 DEF Kept
<1>4. i \in Int /\ k \in Int
  BY <1>3
<1> QED BY <1>1, <1>2, <1>3, <1>4

-----------------------------------------------------------------------------
(* What is broken, without the codes.                                      *)

BadSeq(l) == \E i \in DOMAIN l : i \notin Kept(l)

BadDecision(l) ==
  \E d \in Decisions(l) :
    \/ d.decision = None \/ d.request = None \/ d.governance_mode = None
    \/ d.dry_run = None \/ ~d.stated

BadIntent(l) ==
  \E i \in Intents(l) :
    \/ i.request = None \/ i.decision_seq = None
    \/ i.decision_seq # None /\ DecisionOf(l, i) = {}
    \/ \E d \in DecisionOf(l, i) : d.seq >= i.seq \/ i.request # d.request

BadOutcome(l) ==
  \E o \in Outcomes(l) :
    \/ o.request = None \/ o.success = None \/ o.decision_seq = None \/ o.intent_seq = None
    \/ o.decision_seq # None /\ (o.decision_seq >= o.seq \/ DecisionOf(l, o) = {})
    \/ \E d \in DecisionOf(l, o) : o.request # d.request \/ o.decision # d.decision
    \/ o.intent_seq # None /\ IntentOf(l, o) = {}
    \/ \E i \in IntentOf(l, o) :
         i.seq >= o.seq \/ i.decision_seq # o.decision_seq \/ i.request # o.request

Twice(l) ==
  \/ \E d \in Decisions(l) : Several(IntentsOn(l, d))
  \/ \E i \in Intents(l) : Several(OutcomesOf(l, i))

BadFollowing(l) ==
  \E d \in Decisions(l) :
    (IntentsOn(l, d) # {} \/ OutcomesOn(l, d) # {}) /\ (d.dry_run = TRUE \/ Blocked(d))

Bad(l) ==
  BadSeq(l) \/ BadDecision(l) \/ BadIntent(l) \/ BadOutcome(l) \/ Twice(l) \/ BadFollowing(l)

Unfinished(l) ==
  \/ \E d \in Decisions(l) : Live(d) /\ IntentsOn(l, d) = {}
  \/ \E i \in Intents(l) : OutcomesOf(l, i) = {}

\* Whether some issue of a set is one that no more records mend, and whether
\* some issue is one that they may.
Hard(S) == \E x \in S : x.code \notin Pending
Soft(S) == \E x \in S : x.code \in Pending

LEMMA IssueIs ==
  ASSUME NEW code, NEW S
  PROVE  /\ Hard(Issue(code, S)) <=> code \notin Pending /\ S # {}
         /\ Soft(Issue(code, S)) <=> code \in Pending /\ S # {}
<1>1. \A x \in Issue(code, S) : x.code = code
  BY DEF Issue
<1>2. Issue(code, S) = {} <=> S = {}
  BY DEF Issue
<1> QED BY <1>1, <1>2 DEF Hard, Soft

LEMMA TwoAre ==
  ASSUME NEW A, NEW B
  PROVE  /\ Hard(A \cup B) <=> Hard(A) \/ Hard(B)
         /\ Soft(A \cup B) <=> Soft(A) \/ Soft(B)
BY DEF Hard, Soft

LEMMA ThreeAre ==
  ASSUME NEW A, NEW B, NEW C
  PROVE  /\ Hard((A \cup B) \cup C) <=> Hard(A) \/ Hard(B) \/ Hard(C)
         /\ Soft((A \cup B) \cup C) <=> Soft(A) \/ Soft(B) \/ Soft(C)
BY DEF Hard, Soft

LEMMA IntentIssuesAre ==
  ASSUME NEW l
  PROVE  /\ Hard(IntentIssues(l)) <=>
              BadIntent(l) \/ \E d \in Decisions(l) : Several(IntentsOn(l, d))
         /\ ~Soft(IntentIssues(l))
<1> DEFINE A == Issue("intent_invalid", {i \in Intents(l) : i.request = None \/ i.decision_seq = None})
           B == Issue("intent_unanchored_decision",
                      {i \in Intents(l) : i.decision_seq # None /\ DecisionOf(l, i) = {}})
           C == Issue("intent_not_after_decision", Early(l, Intents(l)))
           D == Issue("intent_mismatch",
                      {i \in Intents(l) : \E d \in DecisionOf(l, i) : i.request # d.request})
           E == Issue("duplicate_consequence_intent", {d \in Decisions(l) : Several(IntentsOn(l, d))})
<1>1. IntentIssues(l) = (((A \cup B) \cup C) \cup D) \cup E
  BY DEF IntentIssues
<1>2. /\ Hard(A) <=> \E i \in Intents(l) : i.request = None \/ i.decision_seq = None
      /\ ~Soft(A)
  BY IssueIs DEF Pending
<1>3. /\ Hard(B) <=> \E i \in Intents(l) : i.decision_seq # None /\ DecisionOf(l, i) = {}
      /\ ~Soft(B)
  BY IssueIs DEF Pending
<1>4. /\ Hard(C) <=> \E i \in Intents(l) : \E d \in DecisionOf(l, i) : d.seq >= i.seq
      /\ ~Soft(C)
  BY IssueIs DEF Pending, Early
<1>5. /\ Hard(D) <=> \E i \in Intents(l) : \E d \in DecisionOf(l, i) : i.request # d.request
      /\ ~Soft(D)
  BY IssueIs DEF Pending
<1>6. /\ Hard(E) <=> \E d \in Decisions(l) : Several(IntentsOn(l, d))
      /\ ~Soft(E)
  BY IssueIs DEF Pending
<1> HIDE DEF A, B, C, D, E
<1>7. /\ Hard(IntentIssues(l)) <=> Hard(A) \/ Hard(B) \/ Hard(C) \/ Hard(D) \/ Hard(E)
      /\ Soft(IntentIssues(l)) <=> Soft(A) \/ Soft(B) \/ Soft(C) \/ Soft(D) \/ Soft(E)
  <2> DEFINE T == (A \cup B) \cup C
  <2>1. /\ Hard(T) <=> Hard(A) \/ Hard(B) \/ Hard(C)
        /\ Soft(T) <=> Soft(A) \/ Soft(B) \/ Soft(C)
    BY ThreeAre
  <2> HIDE DEF T
  <2>2. /\ Hard((T \cup D) \cup E) <=> Hard(T) \/ Hard(D) \/ Hard(E)
        /\ Soft((T \cup D) \cup E) <=> Soft(T) \/ Soft(D) \/ Soft(E)
    BY ThreeAre
  <2>3. IntentIssues(l) = (T \cup D) \cup E
    BY <1>1 DEF T
  <2> QED BY <2>1, <2>2, <2>3
<1> QED BY <1>2, <1>3, <1>4, <1>5, <1>6, <1>7 DEF BadIntent

LEMMA OutcomeIssuesAre ==
  ASSUME NEW l
  PROVE  (Hard(OutcomeIssues(l)) <=> BadOutcome(l)) /\ ~Soft(OutcomeIssues(l))
<1> DEFINE A == Issue("outcome_invalid",
                      {o \in Outcomes(l) : \/ o.request = None \/ o.success = None
                                           \/ o.decision_seq = None \/ o.intent_seq = None})
           B == Issue("outcome_not_after_decision",
                      {o \in Outcomes(l) : o.decision_seq # None /\ o.decision_seq >= o.seq})
           C == Issue("outcome_unanchored_decision",
                      {o \in Outcomes(l) : o.decision_seq # None /\ DecisionOf(l, o) = {}})
           D == Issue("outcome_mismatch",
                      {o \in Outcomes(l) : \E d \in DecisionOf(l, o) :
                                             o.request # d.request \/ o.decision # d.decision})
           E == Issue("outcome_unanchored_intent",
                      {o \in Outcomes(l) : o.intent_seq # None /\ IntentOf(l, o) = {}})
           F == Issue("outcome_not_after_intent",
                      {o \in Outcomes(l) : \E i \in IntentOf(l, o) : i.seq >= o.seq})
           G == Issue("outcome_link_mismatch",
                      {o \in Outcomes(l) : \E i \in IntentOf(l, o) : i.decision_seq # o.decision_seq})
           H == Issue("outcome_intent_mismatch",
                      {o \in Outcomes(l) : \E i \in IntentOf(l, o) : i.request # o.request})
<1>1. OutcomeIssues(l) = ((((((A \cup B) \cup C) \cup D) \cup E) \cup F) \cup G) \cup H
  BY DEF OutcomeIssues
<1>2. /\ Hard(A) <=> \E o \in Outcomes(l) : \/ o.request = None \/ o.success = None
                                              \/ o.decision_seq = None \/ o.intent_seq = None
      /\ ~Soft(A)
  BY IssueIs DEF Pending
<1>3. /\ Hard(B) <=> \E o \in Outcomes(l) : o.decision_seq # None /\ o.decision_seq >= o.seq
      /\ ~Soft(B)
  BY IssueIs DEF Pending
<1>4. /\ Hard(C) <=> \E o \in Outcomes(l) : o.decision_seq # None /\ DecisionOf(l, o) = {}
      /\ ~Soft(C)
  BY IssueIs DEF Pending
<1>5. /\ Hard(D) <=> \E o \in Outcomes(l) : \E d \in DecisionOf(l, o) :
                       o.request # d.request \/ o.decision # d.decision
      /\ ~Soft(D)
  BY IssueIs DEF Pending
<1>6. /\ Hard(E) <=> \E o \in Outcomes(l) : o.intent_seq # None /\ IntentOf(l, o) = {}
      /\ ~Soft(E)
  BY IssueIs DEF Pending
<1>7. /\ Hard(F) <=> \E o \in Outcomes(l) : \E i \in IntentOf(l, o) : i.seq >= o.seq
      /\ ~Soft(F)
  BY IssueIs DEF Pending
<1>8. /\ Hard(G) <=> \E o \in Outcomes(l) : \E i \in IntentOf(l, o) : i.decision_seq # o.decision_seq
      /\ ~Soft(G)
  BY IssueIs DEF Pending
<1>9. /\ Hard(H) <=> \E o \in Outcomes(l) : \E i \in IntentOf(l, o) : i.request # o.request
      /\ ~Soft(H)
  BY IssueIs DEF Pending
<1> HIDE DEF A, B, C, D, E, F, G, H
<1>10. /\ Hard(OutcomeIssues(l)) <=>
            Hard(A) \/ Hard(B) \/ Hard(C) \/ Hard(D) \/ Hard(E) \/ Hard(F) \/ Hard(G) \/ Hard(H)
       /\ Soft(OutcomeIssues(l)) <=>
            Soft(A) \/ Soft(B) \/ Soft(C) \/ Soft(D) \/ Soft(E) \/ Soft(F) \/ Soft(G) \/ Soft(H)
  <2> DEFINE T3 == (A \cup B) \cup C
  <2>1. /\ Hard(T3) <=> Hard(A) \/ Hard(B) \/ Hard(C)
        /\ Soft(T3) <=> Soft(A) \/ Soft(B) \/ Soft(C)
    BY ThreeAre DEF T3
  <2> HIDE DEF T3
  <2> DEFINE T5 == (T3 \cup D) \cup E
  <2>2. /\ Hard(T5) <=> Hard(T3) \/ Hard(D) \/ Hard(E)
        /\ Soft(T5) <=> Soft(T3) \/ Soft(D) \/ Soft(E)
    BY ThreeAre DEF T5
  <2> HIDE DEF T5
  <2> DEFINE T7 == (T5 \cup F) \cup G
  <2>3. /\ Hard(T7) <=> Hard(T5) \/ Hard(F) \/ Hard(G)
        /\ Soft(T7) <=> Soft(T5) \/ Soft(F) \/ Soft(G)
    BY ThreeAre DEF T7
  <2> HIDE DEF T7
  <2>4. (Hard(T7 \cup H) <=> Hard(T7) \/ Hard(H)) /\ (Soft(T7 \cup H) <=> Soft(T7) \/ Soft(H))
    BY TwoAre
  <2>5. OutcomeIssues(l) = T7 \cup H
    BY <1>1 DEF T3, T5, T7
  <2> QED BY <2>1, <2>2, <2>3, <2>4, <2>5
<1> QED BY <1>2, <1>3, <1>4, <1>5, <1>6, <1>7, <1>8, <1>9, <1>10 DEF BadOutcome

\* All the issues.
LEMMA IssuesAre ==
  ASSUME NEW l
  PROVE  (Broken(l) <=> Bad(l)) /\ (Valid(l) <=> ~Bad(l) /\ ~Unfinished(l))
<1> DEFINE acted == {d \in Decisions(l) : IntentsOn(l, d) # {} \/ OutcomesOn(l, d) # {}}
<1>1. (Hard(RecordIssues(l)) <=> BadSeq(l)) /\ ~Soft(RecordIssues(l))
  <2>1. {l[i] : i \in DOMAIN l \ Kept(l)} # {} <=> BadSeq(l)
    BY DEF BadSeq
  <2> QED BY <2>1, IssueIs DEF RecordIssues, Pending
<1>2. (Hard(DecisionIssues(l)) <=> BadDecision(l)) /\ ~Soft(DecisionIssues(l))
  BY IssueIs DEF DecisionIssues, BadDecision, Pending
<1>3. /\ Hard(IntentOutcomeIssues(l)) <=> \E i \in Intents(l) : Several(OutcomesOf(l, i))
      /\ Soft(IntentOutcomeIssues(l)) <=> \E i \in Intents(l) : OutcomesOf(l, i) = {}
  <2> DEFINE A == Issue("intent_missing_outcome", {i \in Intents(l) : OutcomesOf(l, i) = {}})
             B == Issue("duplicate_consequence_outcome", {i \in Intents(l) : Several(OutcomesOf(l, i))})
  <2>1. IntentOutcomeIssues(l) = A \cup B
    BY DEF IntentOutcomeIssues
  <2>2. ~Hard(A) /\ (Soft(A) <=> \E i \in Intents(l) : OutcomesOf(l, i) = {})
    BY IssueIs DEF Pending
  <2>3. (Hard(B) <=> \E i \in Intents(l) : Several(OutcomesOf(l, i))) /\ ~Soft(B)
    BY IssueIs DEF Pending
  <2> HIDE DEF A, B
  <2> QED BY <2>1, <2>2, <2>3, TwoAre
<1>4. /\ Hard(ConsequenceIssues(l)) <=> BadFollowing(l)
      /\ Soft(ConsequenceIssues(l)) <=> \E d \in Decisions(l) : Live(d) /\ IntentsOn(l, d) = {}
  <2> DEFINE A == Issue("dry_run_decision_has_consequence", {d \in acted : d.dry_run = TRUE})
             B == Issue("allow_missing_intent", {d \in Decisions(l) : Live(d) /\ IntentsOn(l, d) = {}})
             C == Issue("blocked_decision_has_consequence", {d \in acted : Blocked(d)})
  <2>1. ConsequenceIssues(l) = (A \cup B) \cup C
    BY DEF ConsequenceIssues
  <2>2. (Hard(A) <=> \E d \in acted : d.dry_run = TRUE) /\ ~Soft(A)
    <3>1. {d \in acted : d.dry_run = TRUE} # {} <=> \E d \in acted : d.dry_run = TRUE
      OBVIOUS
    <3> HIDE DEF acted
    <3> QED BY <3>1, IssueIs DEF Pending
  <2>3. ~Hard(B) /\ (Soft(B) <=> \E d \in Decisions(l) : Live(d) /\ IntentsOn(l, d) = {})
    BY IssueIs DEF Pending
  <2>4. (Hard(C) <=> \E d \in acted : Blocked(d)) /\ ~Soft(C)
    <3> HIDE DEF acted
    <3> QED BY IssueIs DEF Pending
  <2>5. BadFollowing(l) <=> (\E d \in acted : d.dry_run = TRUE) \/ (\E d \in acted : Blocked(d))
    BY DEF BadFollowing
  <2> HIDE DEF A, B, C, acted
  <2> QED BY <2>1, <2>2, <2>3, <2>4, <2>5, ThreeAre
<1>5. /\ Hard(Issues(l)) <=>
           \/ Hard(RecordIssues(l)) \/ Hard(DecisionIssues(l)) \/ Hard(IntentIssues(l))
           \/ Hard(OutcomeIssues(l)) \/ Hard(IntentOutcomeIssues(l)) \/ Hard(ConsequenceIssues(l))
      /\ Soft(Issues(l)) <=>
           \/ Soft(RecordIssues(l)) \/ Soft(DecisionIssues(l)) \/ Soft(IntentIssues(l))
           \/ Soft(OutcomeIssues(l)) \/ Soft(IntentOutcomeIssues(l)) \/ Soft(ConsequenceIssues(l))
  <2> DEFINE A == RecordIssues(l)
             B == DecisionIssues(l)
             C == IntentIssues(l)
             D == OutcomeIssues(l)
             E == IntentOutcomeIssues(l)
             F == ConsequenceIssues(l)
  <2>0. Issues(l) = ((((A \cup B) \cup C) \cup D) \cup E) \cup F
    BY DEF Issues
  <2> HIDE DEF A, B, C, D, E, F
  <2> DEFINE T3 == (A \cup B) \cup C
  <2>1. /\ Hard(T3) <=> Hard(A) \/ Hard(B) \/ Hard(C)
        /\ Soft(T3) <=> Soft(A) \/ Soft(B) \/ Soft(C)
    BY ThreeAre DEF T3
  <2> HIDE DEF T3
  <2> DEFINE T5 == (T3 \cup D) \cup E
  <2>2. /\ Hard(T5) <=> Hard(T3) \/ Hard(D) \/ Hard(E)
        /\ Soft(T5) <=> Soft(T3) \/ Soft(D) \/ Soft(E)
    BY ThreeAre DEF T5
  <2> HIDE DEF T5
  <2>3. (Hard(T5 \cup F) <=> Hard(T5) \/ Hard(F)) /\ (Soft(T5 \cup F) <=> Soft(T5) \/ Soft(F))
    BY TwoAre
  <2>4. Issues(l) = T5 \cup F
    BY <2>0 DEF T3, T5
  <2>5. /\ Hard(Issues(l)) <=> Hard(A) \/ Hard(B) \/ Hard(C) \/ Hard(D) \/ Hard(E) \/ Hard(F)
        /\ Soft(Issues(l)) <=> Soft(A) \/ Soft(B) \/ Soft(C) \/ Soft(D) \/ Soft(E) \/ Soft(F)
    BY <2>1, <2>2, <2>3, <2>4
  <2> QED BY <2>5 DEF A, B, C, D, E, F
<1>6. Hard(Issues(l)) <=> Bad(l)
  BY <1>1, <1>2, <1>3, <1>4, <1>5, IntentIssuesAre, OutcomeIssuesAre DEF Bad, Twice
<1>7. Soft(Issues(l)) <=> Unfinished(l)
  BY <1>1, <1>2, <1>3, <1>4, <1>5, IntentIssuesAre, OutcomeIssuesAre DEF Unfinished
<1>8. Valid(l) <=> ~Hard(Issues(l)) /\ ~Soft(Issues(l))
  BY DEF Valid, Hard, Soft
<1> QED BY <1>6, <1>7, <1>8 DEF Broken, Hard
-----------------------------------------------------------------------------
(* What a ledger without issues means.                                     *)

\* Each pass without an issue.
LEMMA DecisionsPass ==
  ASSUME NEW l \in Seq(Records), Valid(l), NEW d \in Decisions(l)
  PROVE  /\ d.seq \in Seqs /\ d.decision \in Verdicts /\ d.dry_run \in BOOLEAN
         /\ \A i, k \in IntentsOn(l, d) : i = k
         /\ Live(d) => IntentsOn(l, d) # {}
         /\ IntentsOn(l, d) # {} \/ OutcomesOn(l, d) # {} => d.dry_run # TRUE /\ ~Blocked(d)
<1>1. ~BadDecision(l) /\ ~Twice(l) /\ ~BadFollowing(l) /\ ~Unfinished(l)
  BY IssuesAre DEF Bad
<1>2. d.seq \in Seqs /\ d \in Records /\ d.record_type = "decision"
  BY InTable DEF Decisions
<1>3. d.decision # None /\ d.dry_run # None
  BY <1>1 DEF BadDecision
<1>4. d.decision \in Verdicts /\ d.dry_run \in BOOLEAN
  BY <1>2, <1>3, Fields
<1>5. \A i, k \in IntentsOn(l, d) : i = k
  BY <1>1 DEF Twice, Several
<1>6. Live(d) => IntentsOn(l, d) # {}
  BY <1>1 DEF Unfinished
<1>7. IntentsOn(l, d) # {} \/ OutcomesOn(l, d) # {} => d.dry_run # TRUE /\ ~Blocked(d)
  BY <1>1 DEF BadFollowing
<1> QED BY <1>2, <1>4, <1>5, <1>6, <1>7

LEMMA IntentsPass ==
  ASSUME NEW l \in Seq(Records), Valid(l), NEW i \in Intents(l)
  PROVE  /\ i.seq \in Seqs
         /\ \E d \in DecisionOf(l, i) : d.seq < i.seq /\ i.request = d.request
         /\ OutcomesOf(l, i) # {}
         /\ \A o, p \in OutcomesOf(l, i) : o = p
<1>1. ~BadIntent(l) /\ ~Twice(l) /\ ~Unfinished(l)
  BY IssuesAre DEF Bad
<1>2. i.seq \in Seqs
  BY InTable DEF Intents
<1>3. DecisionOf(l, i) # {} /\ \A d \in DecisionOf(l, i) : ~(d.seq >= i.seq) /\ i.request = d.request
  BY <1>1 DEF BadIntent
<1>4. \A d \in DecisionOf(l, i) : d.seq \in Seqs
  BY InTable DEF DecisionOf, Decisions
<1>5. \E d \in DecisionOf(l, i) : d.seq < i.seq /\ i.request = d.request
  BY <1>2, <1>3, <1>4 DEF Seqs
<1>6. OutcomesOf(l, i) # {} /\ \A o, p \in OutcomesOf(l, i) : o = p
  BY <1>1 DEF Twice, Unfinished, Several
<1> QED BY <1>2, <1>5, <1>6

LEMMA OutcomesPass ==
  ASSUME NEW l \in Seq(Records), Valid(l), NEW o \in Outcomes(l)
  PROVE  /\ o.seq \in Seqs
         /\ \E d \in DecisionOf(l, o) : TRUE
         /\ \A d \in DecisionOf(l, o) : o.request = d.request /\ o.decision = d.decision
         /\ \E i \in IntentOf(l, o) : TRUE
         /\ \A i \in IntentOf(l, o) : i.seq < o.seq /\ i.decision_seq = o.decision_seq
<1>1. ~BadOutcome(l)
  BY IssuesAre DEF Bad
<1>2. o.seq \in Seqs
  BY InTable DEF Outcomes
<1>3. /\ DecisionOf(l, o) # {} /\ IntentOf(l, o) # {}
      /\ \A d \in DecisionOf(l, o) : o.request = d.request /\ o.decision = d.decision
      /\ \A i \in IntentOf(l, o) : ~(i.seq >= o.seq) /\ i.decision_seq = o.decision_seq
  BY <1>1 DEF BadOutcome
<1>4. \A i \in IntentOf(l, o) : i.seq \in Seqs
  BY InTable DEF IntentOf, Intents
<1>5. \A i \in IntentOf(l, o) : i.seq < o.seq
  BY <1>2, <1>3, <1>4 DEF Seqs
<1> QED BY <1>2, <1>3, <1>5

\* One row: the intents and outcomes of a decision are one of each.
LEMMA RowIsOneAction ==
  ASSUME NEW l \in Seq(Records), Valid(l), NEW d \in Decisions(l),
         Live(d) \/ IntentsOn(l, d) # {} \/ OutcomesOn(l, d) # {}
  PROVE  \E i \in Intents(l), o \in Outcomes(l) :
           /\ IntentsOn(l, d) = {i} /\ OutcomesOn(l, d) = {o}
           /\ d.seq < i.seq /\ i.seq < o.seq /\ o.intent_seq = i.seq
           /\ i.request = d.request /\ o.request = d.request /\ o.decision = d.decision
<1>1. \A o \in OutcomesOn(l, d) : \E i \in IntentsOn(l, d) : i \in IntentOf(l, o)
  <2> TAKE o \in OutcomesOn(l, d)
  <2>1. o \in Outcomes(l) /\ o.decision_seq = d.seq
    BY DEF OutcomesOn
  <2>2. PICK i \in IntentOf(l, o) : i.decision_seq = o.decision_seq
    BY <2>1, OutcomesPass
  <2> QED BY <2>1, <2>2 DEF IntentOf, IntentsOn
<1>2. IntentsOn(l, d) # {}
  BY <1>1, DecisionsPass
<1>3. PICK i \in IntentsOn(l, d) : TRUE
  BY <1>2
<1>4. IntentsOn(l, d) = {i} /\ i \in Intents(l) /\ i.decision_seq = d.seq
  <2>1. \A j, k \in IntentsOn(l, d) : j = k
    BY DecisionsPass
  <2>2. IntentsOn(l, d) = {i}
    BY <1>3, <2>1
  <2>3. i \in Intents(l) /\ i.decision_seq = d.seq
    BY <1>3 DEF IntentsOn
  <2> QED BY <2>2, <2>3
<1>5. PICK o \in OutcomesOf(l, i) : TRUE
  BY <1>4, IntentsPass
<1>6. o \in Outcomes(l) /\ o.intent_seq = i.seq /\ i \in IntentOf(l, o)
  BY <1>4, <1>5 DEF OutcomesOf, IntentOf
<1>7. i.seq < o.seq /\ o.decision_seq = d.seq /\ o \in OutcomesOn(l, d)
  BY <1>4, <1>6, OutcomesPass DEF OutcomesOn
<1>8. \A p \in OutcomesOn(l, d) : p = o
  <2> TAKE p \in OutcomesOn(l, d)
  <2>1. i \in IntentOf(l, p)
    BY <1>1, <1>4
  <2>2. p \in OutcomesOf(l, i)
    BY <2>1 DEF OutcomesOn, OutcomesOf, IntentOf
  <2> QED BY <1>4, <1>5, <2>2, IntentsPass
<1>9. d \in DecisionOf(l, o)
  BY <1>7 DEF DecisionOf
<1>10. d.seq < i.seq /\ i.request = d.request
  <2>1. PICK e \in DecisionOf(l, i) : e.seq < i.seq /\ i.request = e.request
    BY <1>4, IntentsPass
  <2>2. e \in Decisions(l) /\ e.seq = d.seq
    BY <1>4, <2>1 DEF DecisionOf
  <2>3. e = d
    BY <2>2, OneRecord DEF Decisions
  <2> QED BY <2>1, <2>3
<1>11. o.request = d.request /\ o.decision = d.decision
  BY <1>6, <1>9, OutcomesPass
<1>12. OutcomesOn(l, d) = {o}
  BY <1>7, <1>8
<1> QED BY <1>4, <1>6, <1>7, <1>10, <1>11, <1>12

\* For every ledger, however it came about: no issues, and the report's rows
\* are whole actions that were permitted.
THEOREM ValidMeansLinked ==
  ASSUME NEW l \in Seq(Records), Valid(l) PROVE Linked(l)
<1> DEFINE Rows == {d \in Decisions(l) :
                     Live(d) \/ IntentsOn(l, d) # {} \/ OutcomesOn(l, d) # {}}
           RowOf(d) == [decision |-> d, intents |-> IntentsOn(l, d), outcomes |-> OutcomesOn(l, d)]
<1>1. Consequences(l) = {RowOf(d) : d \in Rows}
  BY DEF Consequences
<1>2. ASSUME NEW d \in Rows
      PROVE  d.dry_run = FALSE /\ (d.decision # "ALLOW" => d.governance_mode \notin Enforcing)
  <2>1. IntentsOn(l, d) # {}
    BY RowIsOneAction
  <2>2. d.dry_run # TRUE /\ ~Blocked(d) /\ d.dry_run \in BOOLEAN /\ d.decision \in Verdicts
    BY <2>1, DecisionsPass
  <2>3. d.dry_run = FALSE
    BY <2>2, Zenon
  <2> QED BY <2>2, <2>3 DEF Blocked, Verdicts
<1>3. ASSUME NEW row \in Consequences(l)
      PROVE  \E i \in Intents(l), o \in Outcomes(l) :
               /\ row.intents = {i} /\ row.outcomes = {o}
               /\ row.decision.seq < i.seq /\ i.seq < o.seq
               /\ o.intent_seq = i.seq
               /\ i.request = row.decision.request /\ o.request = row.decision.request
               /\ o.decision = row.decision.decision
               /\ row.decision.dry_run = FALSE
               /\ row.decision.decision # "ALLOW" => row.decision.governance_mode \notin Enforcing
  <2>1. PICK d \in Rows : row = RowOf(d)
    BY <1>1, <1>3
  <2>2. row.decision = d /\ row.intents = IntentsOn(l, d) /\ row.outcomes = OutcomesOn(l, d)
    BY <2>1
  <2> HIDE DEF RowOf
  <2>3. PICK i \in Intents(l), o \in Outcomes(l) :
           /\ IntentsOn(l, d) = {i} /\ OutcomesOn(l, d) = {o}
           /\ d.seq < i.seq /\ i.seq < o.seq /\ o.intent_seq = i.seq
           /\ i.request = d.request /\ o.request = d.request /\ o.decision = d.decision
    BY RowIsOneAction
  <2> QED BY <1>2, <2>2, <2>3
<1>4. ASSUME NEW k \in DOMAIN l, l[k].record_type \in {"consequence_intent", "outcome"}
      PROVE  \E row \in Consequences(l) : l[k] \in row.intents \cup row.outcomes
  <2>1. k \in Kept(l)
    BY IssuesAre DEF Bad, BadSeq
  <2>2. l[k] \in Intents(l) \/ l[k] \in Outcomes(l)
    BY <1>4, <2>1 DEF Intents, Outcomes, OfType
  <2>3. PICK d \in Decisions(l) : l[k] \in IntentsOn(l, d) \/ l[k] \in OutcomesOn(l, d)
    <3>1. CASE l[k] \in Intents(l)
      BY <3>1, IntentsPass DEF DecisionOf, IntentsOn
    <3>2. CASE l[k] \in Outcomes(l)
      BY <3>2, OutcomesPass DEF DecisionOf, OutcomesOn
    <3> QED BY <2>2, <3>1, <3>2
  <2>4. d \in Rows
    BY <2>3
  <2>5. RowOf(d).intents = IntentsOn(l, d) /\ RowOf(d).outcomes = OutcomesOn(l, d)
    OBVIOUS
  <2>6. RowOf(d) \in Consequences(l)
    BY <1>1, <2>4
  <2> HIDE DEF RowOf
  <2> QED BY <2>3, <2>5, <2>6
<1> QED BY <1>3, <1>4 DEF Linked
-----------------------------------------------------------------------------
(* The gateway and somebody else append records, one at a time.            *)

\* A record under another number is a record.
LEMMA Renumbered ==
  ASSUME NEW r \in Records, NEW n \in Seqs PROVE [r EXCEPT !.seq = n] \in Records
BY DEF Records

\* The record a step appends.
Next1 == \E r \in Records : ledger' = Append(ledger, r)

LEMMA StepAppends ==
  ASSUME TypeOK, [Next]_vars
  PROVE  /\ faults' \in Nat /\ (faults' = 0 => faults = 0)
         /\ UNCHANGED ledger \/ Next1
<1> USE LinksAssumption DEF TypeOK
<1>0. Here \in Seqs
  BY DEF Here, Seqs
<1>1. CASE UNCHANGED vars
  BY <1>1 DEF vars
<1>2. ASSUME NEW p \in Policies, Decide(p)
      PROVE  faults' = faults /\ Next1
  <2>1. /\ p.request \in Requests /\ p.decision \in Verdicts /\ p.dry_run \in BOOLEAN
        /\ p.governance_mode \in Modes /\ p.hard_delegation \in BOOLEAN
    BY DEF Policy
  <2> DEFINE r == [seq |-> Here, record_type |-> "decision", request |-> p.request,
                   decision |-> p.decision, dry_run |-> p.dry_run,
                   governance_mode |-> p.governance_mode,
                   hard_delegation |-> p.hard_delegation, stated |-> TRUE]
  <2>2. r \in Records
    BY <1>0, <2>1 DEF Records
  <2> QED BY <1>2, <2>2 DEF Decide, Put, Next1
<1>3. ASSUME NEW d \in Decisions(ledger), Intend(d)
      PROVE  faults' = faults /\ Next1
  <2>1. d.request \in Requests \cup {None} /\ d.seq \in Seqs
    BY InTable, Fields DEF Decisions
  <2> DEFINE r == [seq |-> Here, record_type |-> "consequence_intent", request |-> d.request,
                   decision_seq |-> d.seq]
  <2>2. r \in Records
    BY <1>0, <2>1 DEF Records
  <2> QED BY <1>3, <2>2 DEF Intend, Put, Next1
<1>4. ASSUME NEW i \in Intents(ledger), NEW success \in Successes, Finish(i, success)
      PROVE  faults' = faults /\ Next1
  <2>1. PICK d \in DecisionOf(ledger, i) :
          Put([seq |-> Here, record_type |-> "outcome", request |-> d.request,
               decision_seq |-> d.seq, intent_seq |-> i.seq, decision |-> d.decision,
               success |-> success], 0)
    BY <1>4 DEF Finish
  <2>2. /\ d.request \in Requests \cup {None} /\ d.seq \in Seqs
        /\ d.decision \in Verdicts \cup {None} /\ i.seq \in Seqs
    BY InTable, Fields DEF DecisionOf, Decisions, Intents
  <2> DEFINE r == [seq |-> Here, record_type |-> "outcome", request |-> d.request,
                   decision_seq |-> d.seq, intent_seq |-> i.seq, decision |-> d.decision,
                   success |-> success]
  <2>3. r \in Records
    BY <1>0, <2>2 DEF Records
  <2> QED BY <2>1, <2>3 DEF Put, Next1
<1>5. ASSUME Note PROVE faults' = faults /\ Next1
  <2>1. [seq |-> Here, record_type |-> "other"] \in Records
    BY <1>0 DEF Records
  <2> QED BY <1>5, <2>1 DEF Note, Put, Next1
<1>6. ASSUME NEW r \in Faulty, Fault(r) \/ Fault([r EXCEPT !.seq = Here])
      PROVE  faults' = faults + 1 /\ Next1
  <2>1. r \in Records /\ [r EXCEPT !.seq = Here] \in Records
    BY <1>0, Renumbered
  <2> QED BY <1>6, <2>1 DEF Fault, Put, Next1
<1>7. CASE Next
  <2>1. (faults' = faults \/ faults' = faults + 1) /\ Next1
    BY <1>2, <1>3, <1>4, <1>5, <1>6, <1>7 DEF Next
  <2> QED BY <2>1
<1> QED BY <1>1, <1>7

\* A ledger is a sequence of records.
THEOREM TypeCorrect == Spec => []TypeOK
<1>1. Init => TypeOK
  BY DEF Init, TypeOK
<1>2. TypeOK /\ [Next]_vars => TypeOK'
  <2> SUFFICES ASSUME TypeOK, [Next]_vars PROVE TypeOK'
    OBVIOUS
  <2>1. faults' \in Nat /\ (UNCHANGED ledger \/ Next1)
    BY StepAppends
  <2> QED BY <2>1 DEF TypeOK, Next1
<1> QED BY <1>1, <1>2, PTL DEF Spec

\* A ledger without issues is whole actions, whoever wrote it.
THEOREM ValidIsLinkedHolds == Spec => []ValidIsLinked
<1>1. TypeOK => ValidIsLinked
  BY ValidMeansLinked DEF TypeOK, ValidIsLinked
<1> QED BY <1>1, TypeCorrect, PTL
-----------------------------------------------------------------------------
(* A numbered ledger and the next record.                                  *)

LEMMA NumberedKept ==
  ASSUME NEW l \in Seq(Records), Numbered(l)
  PROVE  /\ Kept(l) = DOMAIN l
         /\ \A t : \A x \in OfType(l, t) : x.seq \in 1..Len(l)
<1>1. \A i \in DOMAIN l : l[i].seq = i /\ i \in 1..Len(l) /\ i # None
  BY LinksAssumption DEF Numbered
<1>2. Kept(l) = DOMAIN l
  <2>1. ASSUME NEW i \in DOMAIN l, NEW k \in DOMAIN l, l[k].seq = l[i].seq PROVE i <= k
    BY <1>1, <2>1
  <2> QED BY <1>1, <2>1 DEF Kept
<1> QED BY <1>1, <1>2 DEF OfType

LEMMA AppendTables ==
  ASSUME NEW l \in Seq(Records), NEW r \in Records, Numbered(Append(l, r))
  PROVE  /\ Append(l, r) \in Seq(Records) /\ Numbered(l) /\ r.seq = Len(l) + 1
         /\ \A t : OfType(Append(l, r), t)
                    = OfType(l, t) \cup {x \in {r} : x.record_type = t}
<1> DEFINE n == Len(l) + 1
           L == Append(l, r)
<1>1. /\ L \in Seq(Records) /\ Len(L) = n /\ L[n] = r /\ DOMAIN L = 1..n /\ DOMAIN l = 1..Len(l)
      /\ \A i \in 1..Len(l) : L[i] = l[i]
      /\ Len(l) \in Nat /\ 1..n = (1..Len(l)) \cup {n}
  OBVIOUS
<1> HIDE DEF L, n
<1>2. Numbered(L)
  BY DEF L
<1>3. Numbered(l) /\ r.seq = n
  BY <1>1, <1>2 DEF Numbered
<1>4. Kept(l) = 1..Len(l) /\ Kept(L) = (1..Len(l)) \cup {n}
  BY <1>1, <1>2, <1>3, NumberedKept
<1>5. \A t : OfType(L, t) = OfType(l, t) \cup {x \in {r} : x.record_type = t}
  BY <1>1, <1>4 DEF OfType
<1> QED BY <1>1, <1>3, <1>5 DEF L, n

\* What is broken stays broken, and a reference to what was not there yet is
\* then a reference to what comes later.
LEMMA BadStays ==
  ASSUME NEW l \in Seq(Records), NEW r \in Records, Numbered(Append(l, r)), Bad(l)
  PROVE  Bad(Append(l, r))
<1> DEFINE L == Append(l, r)
<1>1. /\ L \in Seq(Records) /\ Numbered(l) /\ r.seq = Len(l) + 1 /\ Len(l) \in Nat
      /\ \A t : OfType(L, t) = OfType(l, t) \cup {x \in {r} : x.record_type = t}
  BY AppendTables
<1> HIDE DEF L
<1>2. /\ Decisions(l) \subseteq Decisions(L) /\ Intents(l) \subseteq Intents(L)
      /\ Outcomes(l) \subseteq Outcomes(L)
      /\ Decisions(L) \subseteq Decisions(l) \cup {r} /\ Intents(L) \subseteq Intents(l) \cup {r}
  BY <1>1 DEF Decisions, Intents, Outcomes
<1>3. /\ \A x : /\ DecisionOf(l, x) \subseteq DecisionOf(L, x) /\ IntentOf(l, x) \subseteq IntentOf(L, x)
                 /\ DecisionOf(L, x) \subseteq DecisionOf(l, x) \cup {r}
                 /\ IntentOf(L, x) \subseteq IntentOf(l, x) \cup {r}
                 /\ IntentsOn(l, x) \subseteq IntentsOn(L, x) /\ OutcomesOn(l, x) \subseteq OutcomesOn(L, x)
                 /\ OutcomesOf(l, x) \subseteq OutcomesOf(L, x)
  BY <1>2 DEF DecisionOf, IntentOf, IntentsOn, OutcomesOn, OutcomesOf
<1>4. \A x \in Intents(l) \cup Outcomes(l) : x.seq \in Nat /\ r.seq >= x.seq
  BY <1>1, NumberedKept DEF Intents, Outcomes
<1>5. ~BadSeq(l)
  BY <1>1, NumberedKept DEF BadSeq
<1>6. CASE BadDecision(l)
  BY <1>2, <1>6 DEF BadDecision, Bad, L
<1>7. CASE BadIntent(l)
  <2>1. PICK i \in Intents(l) :
          \/ i.request = None \/ i.decision_seq = None
          \/ i.decision_seq # None /\ DecisionOf(l, i) = {}
          \/ \E d \in DecisionOf(l, i) : d.seq >= i.seq \/ i.request # d.request
    BY <1>7 DEF BadIntent
  <2>2. i \in Intents(L) /\ r.seq >= i.seq /\ DecisionOf(l, i) \subseteq DecisionOf(L, i)
        /\ DecisionOf(L, i) \subseteq DecisionOf(l, i) \cup {r}
    BY <1>2, <1>3, <1>4
  <2>3. \/ i.request = None \/ i.decision_seq = None
        \/ i.decision_seq # None /\ DecisionOf(L, i) = {}
        \/ \E d \in DecisionOf(L, i) : d.seq >= i.seq \/ i.request # d.request
    BY <2>1, <2>2
  <2>4. BadIntent(L)
    BY <2>2, <2>3 DEF BadIntent
  <2> QED BY <2>4 DEF Bad, L
<1>8. CASE BadOutcome(l)
  <2>1. PICK o \in Outcomes(l) :
          \/ o.request = None \/ o.success = None \/ o.decision_seq = None \/ o.intent_seq = None
          \/ o.decision_seq # None /\ (o.decision_seq >= o.seq \/ DecisionOf(l, o) = {})
          \/ \E d \in DecisionOf(l, o) : o.request # d.request \/ o.decision # d.decision
          \/ o.intent_seq # None /\ IntentOf(l, o) = {}
          \/ \E i \in IntentOf(l, o) :
               i.seq >= o.seq \/ i.decision_seq # o.decision_seq \/ i.request # o.request
    BY <1>8 DEF BadOutcome
  <2>2. /\ o \in Outcomes(L) /\ r.seq >= o.seq
        /\ DecisionOf(l, o) \subseteq DecisionOf(L, o) /\ DecisionOf(L, o) \subseteq DecisionOf(l, o) \cup {r}
        /\ IntentOf(l, o) \subseteq IntentOf(L, o) /\ IntentOf(L, o) \subseteq IntentOf(l, o) \cup {r}
        /\ \A d \in DecisionOf(L, o) : d.seq = o.decision_seq
    BY <1>2, <1>3, <1>4 DEF DecisionOf
  <2>3. \/ o.request = None \/ o.success = None \/ o.decision_seq = None \/ o.intent_seq = None
        \/ o.decision_seq # None /\ (o.decision_seq >= o.seq \/ DecisionOf(L, o) = {})
        \/ \E d \in DecisionOf(L, o) : o.request # d.request \/ o.decision # d.decision
        \/ o.intent_seq # None /\ IntentOf(L, o) = {}
        \/ \E i \in IntentOf(L, o) :
             i.seq >= o.seq \/ i.decision_seq # o.decision_seq \/ i.request # o.request
    BY <2>1, <2>2
  <2>4. BadOutcome(L)
    BY <2>2, <2>3 DEF BadOutcome
  <2> QED BY <2>4 DEF Bad, L
<1>9. CASE Twice(l)
  <2>1. Twice(L)
    BY <1>2, <1>3, <1>9 DEF Twice, Several
  <2> QED BY <2>1 DEF Bad, L
<1>10. CASE BadFollowing(l)
  <2>1. PICK d \in Decisions(l) :
          (IntentsOn(l, d) # {} \/ OutcomesOn(l, d) # {}) /\ (d.dry_run = TRUE \/ Blocked(d))
    BY <1>10 DEF BadFollowing
  <2>2. d \in Decisions(L) /\ (IntentsOn(L, d) # {} \/ OutcomesOn(L, d) # {})
    BY <1>2, <1>3, <2>1
  <2>3. BadFollowing(L)
    BY <2>1, <2>2 DEF BadFollowing
  <2> QED BY <2>3 DEF Bad, L
<1> QED BY <1>5, <1>6, <1>7, <1>8, <1>9, <1>10 DEF Bad

\* A numbered ledger that is broken cannot be mended by what is appended.
THEOREM BrokenStaysBrokenHolds == Spec => BrokenStaysBroken
<1>1. TypeOK /\ [Next]_vars => [Broken(ledger) /\ Numbered(ledger') => Broken(ledger')]_vars
  <2> SUFFICES ASSUME TypeOK, [Next]_vars, Broken(ledger), Numbered(ledger')
               PROVE  Broken(ledger')
    OBVIOUS
  <2>1. CASE UNCHANGED ledger
    BY <2>1
  <2>2. CASE Next1
    <3>1. PICK r \in Records : ledger' = Append(ledger, r)
      BY <2>2 DEF Next1
    <3>2. Bad(ledger)
      BY IssuesAre
    <3>3. Bad(Append(ledger, r))
      BY <3>1, <3>2, BadStays DEF TypeOK
    <3>4. Broken(Append(ledger, r))
      BY <3>3, IssuesAre
    <3> QED BY <3>1, <3>4
  <2> QED BY <2>1, <2>2, StepAppends
<1> QED BY <1>1, TypeCorrect, PTL DEF Spec, BrokenStaysBroken
-----------------------------------------------------------------------------
(* The gateway alone.                                                      *)

GoodDecision(d) ==
  /\ d.request \in Requests /\ d.decision \in Verdicts /\ d.governance_mode \in Modes
  /\ d.dry_run # None /\ d.stated

GoodIntent(l, i) ==
  \E d \in Decisions(l) :
    i.decision_seq = d.seq /\ d.seq < i.seq /\ i.request = d.request /\ Acts(d)

GoodOutcome(l, o) ==
  \E i \in Intents(l), d \in Decisions(l) :
    /\ o.intent_seq = i.seq /\ i.seq < o.seq
    /\ o.decision_seq = d.seq /\ i.decision_seq = d.seq
    /\ o.request = d.request /\ o.decision = d.decision /\ o.success # None

\* What the gateway has written: whole records in their places, and never a
\* second intent on a decision or a second outcome of an intent.
Honest(l) ==
  /\ Numbered(l)
  /\ \A d \in Decisions(l) : GoodDecision(d)
  /\ \A i \in Intents(l) : GoodIntent(l, i)
  /\ \A o \in Outcomes(l) : GoodOutcome(l, o)
  /\ \A i, k \in Intents(l) : i.decision_seq = k.decision_seq => i = k
  /\ \A o, p \in Outcomes(l) : o.intent_seq = p.intent_seq => o = p

LEMMA ActsNotBlocked == ASSUME NEW d, Acts(d) PROVE d.dry_run = FALSE /\ ~Blocked(d)
BY DEF Acts, Blocked, Enforcing

\* Such a ledger has no issue that more records do not mend.
LEMMA HonestNotBad ==
  ASSUME NEW l \in Seq(Records), Honest(l) PROVE ~Bad(l)
<1>0. /\ \A d \in Decisions(l) : d.seq \in Seqs /\ d \in Records /\ GoodDecision(d)
      /\ \A i \in Intents(l) : i.seq \in Seqs
      /\ \A o \in Outcomes(l) : o.seq \in Seqs
  BY InTable DEF Decisions, Intents, Outcomes, Honest
<1>1. ~BadSeq(l)
  BY NumberedKept DEF BadSeq, Honest
<1>2. ~BadDecision(l)
  BY <1>0, LinksAssumption DEF BadDecision, GoodDecision
<1>3. ASSUME NEW i \in Intents(l)
      PROVE  \E d \in Decisions(l) :
               /\ DecisionOf(l, i) = {d} /\ i.decision_seq = d.seq /\ d.seq < i.seq
               /\ i.request = d.request /\ Acts(d)
  <2>1. PICK d \in Decisions(l) :
          i.decision_seq = d.seq /\ d.seq < i.seq /\ i.request = d.request /\ Acts(d)
    BY DEF Honest, GoodIntent
  <2>2. DecisionOf(l, i) = {d}
    BY <2>1, OneRecord DEF DecisionOf, Decisions
  <2> QED BY <2>1, <2>2
<1>4. ~BadIntent(l)
  <2> SUFFICES ASSUME NEW i \in Intents(l),
                      \/ i.request = None \/ i.decision_seq = None
                      \/ i.decision_seq # None /\ DecisionOf(l, i) = {}
                      \/ \E d \in DecisionOf(l, i) : d.seq >= i.seq \/ i.request # d.request
               PROVE  FALSE
    BY DEF BadIntent
  <2>1. PICK d \in Decisions(l) :
          /\ DecisionOf(l, i) = {d} /\ i.decision_seq = d.seq /\ d.seq < i.seq
          /\ i.request = d.request
    BY <1>3
  <2>2. d.seq \in Nat /\ i.seq \in Nat /\ d.request \in Requests
    BY <1>0 DEF Seqs, GoodDecision
  <2> QED BY <2>1, <2>2, LinksAssumption
<1>5. ~BadOutcome(l)
  <2> SUFFICES ASSUME NEW o \in Outcomes(l),
          \/ o.request = None \/ o.success = None \/ o.decision_seq = None \/ o.intent_seq = None
          \/ o.decision_seq # None /\ (o.decision_seq >= o.seq \/ DecisionOf(l, o) = {})
          \/ \E d \in DecisionOf(l, o) : o.request # d.request \/ o.decision # d.decision
          \/ o.intent_seq # None /\ IntentOf(l, o) = {}
          \/ \E i \in IntentOf(l, o) :
               i.seq >= o.seq \/ i.decision_seq # o.decision_seq \/ i.request # o.request
               PROVE  FALSE
    BY DEF BadOutcome
  <2>1. PICK i \in Intents(l), d \in Decisions(l) :
          /\ o.intent_seq = i.seq /\ i.seq < o.seq
          /\ o.decision_seq = d.seq /\ i.decision_seq = d.seq
          /\ o.request = d.request /\ o.decision = d.decision /\ o.success # None
    BY DEF Honest, GoodOutcome
  <2>2. PICK e \in Decisions(l) : i.decision_seq = e.seq /\ e.seq < i.seq /\ i.request = e.request
    BY <1>3
  <2>3. e = d
    BY <2>1, <2>2, OneRecord DEF Decisions
  <2>4. DecisionOf(l, o) = {d} /\ IntentOf(l, o) = {i}
    BY <2>1, OneRecord DEF DecisionOf, IntentOf, Decisions, Intents
  <2>5. d.seq \in Nat /\ i.seq \in Nat /\ o.seq \in Nat /\ d.request \in Requests
    BY <1>0 DEF Seqs, GoodDecision
  <2> QED BY <2>1, <2>2, <2>3, <2>4, <2>5, LinksAssumption
<1>6. ~Twice(l)
  BY DEF Honest, Twice, Several, IntentsOn, OutcomesOf
<1>7. ~BadFollowing(l)
  <2> SUFFICES ASSUME NEW d \in Decisions(l), IntentsOn(l, d) # {} \/ OutcomesOn(l, d) # {}
               PROVE  d.dry_run # TRUE /\ ~Blocked(d)
    BY DEF BadFollowing
  <2>1. PICK i \in Intents(l) : i.decision_seq = d.seq
    BY DEF Honest, GoodOutcome, IntentsOn, OutcomesOn
  <2>2. PICK e \in Decisions(l) : i.decision_seq = e.seq /\ Acts(e)
    BY <1>3
  <2>3. e = d
    BY <2>1, <2>2, OneRecord DEF Decisions
  <2> QED BY <2>2, <2>3, ActsNotBlocked
<1> QED BY <1>1, <1>2, <1>4, <1>5, <1>6, <1>7 DEF Bad

\* And when every action is finished, no issue at all.
LEMMA HonestAtRest ==
  ASSUME NEW l \in Seq(Records), Honest(l), AtRest(l) PROVE ~Unfinished(l)
<1>1. ASSUME NEW d \in Decisions(l), Live(d) PROVE IntentsOn(l, d) # {}
  <2>1. d.dry_run \in BOOLEAN
    BY InTable, Fields DEF Decisions, Honest, GoodDecision
  <2>2. d.dry_run = FALSE /\ d.decision = "ALLOW"
    BY <1>1, <2>1, Zenon DEF Live
  <2> QED BY <2>2 DEF AtRest
<1>2. \A i \in Intents(l) : OutcomesOf(l, i) # {}
  BY DEF AtRest
<1> QED BY <1>1, <1>2 DEF Unfinished
HonestInv == TypeOK /\ (faults = 0 => Honest(ledger))

\* A decision and a note disturb nothing that was written.
LEMMA DecisionKeeps ==
  ASSUME NEW l \in Seq(Records), Honest(l), NEW r \in Records, r.seq = Len(l) + 1,
         \/ r.record_type = "decision" /\ GoodDecision(r)
         \/ r.record_type = "other"
  PROVE  Honest(Append(l, r))
<1> DEFINE L == Append(l, r)
<1>1. Numbered(L)
  BY DEF Honest, Numbered
<1>2. /\ L \in Seq(Records)
      /\ \A t : OfType(L, t) = OfType(l, t) \cup {x \in {r} : x.record_type = t}
  BY <1>1, AppendTables
<1> HIDE DEF L
<1>3. /\ Decisions(l) \subseteq Decisions(L) /\ \A d \in Decisions(L) : d \in Decisions(l) \/ GoodDecision(d)
      /\ Intents(L) = Intents(l) /\ Outcomes(L) = Outcomes(l)
  <2>1. /\ {x \in {r} : x.record_type = "consequence_intent"} = {}
        /\ {x \in {r} : x.record_type = "outcome"} = {}
    OBVIOUS
  <2>2. Intents(L) = Intents(l) /\ Outcomes(L) = Outcomes(l)
    BY <1>2, <2>1 DEF Intents, Outcomes
  <2>3. Decisions(L) = Decisions(l) \cup {x \in {r} : x.record_type = "decision"}
    BY <1>2 DEF Decisions
  <2>4. \A x \in {r} : x.record_type = "decision" => GoodDecision(x)
    OBVIOUS
  <2> QED BY <2>2, <2>3, <2>4
<1>4. /\ \A i \in Intents(l) : GoodIntent(L, i)
      /\ \A o \in Outcomes(l) : GoodOutcome(L, o)
  BY <1>3 DEF Honest, GoodIntent, GoodOutcome
<1>5. Honest(L)
  BY <1>1, <1>3, <1>4 DEF Honest
<1> QED BY <1>5 DEF L

\* The first intent on a decision that permits it.
LEMMA IntentKeeps ==
  ASSUME NEW l \in Seq(Records), Honest(l), NEW r \in Records, r.seq = Len(l) + 1,
         r.record_type = "consequence_intent", NEW d \in Decisions(l), Acts(d),
         r.decision_seq = d.seq, r.request = d.request, IntentsOn(l, d) = {}
  PROVE  Honest(Append(l, r))
<1> DEFINE L == Append(l, r)
<1>1. Numbered(L)
  BY DEF Honest, Numbered
<1>2. /\ L \in Seq(Records)
      /\ \A t : OfType(L, t) = OfType(l, t) \cup {x \in {r} : x.record_type = t}
  BY <1>1, AppendTables
<1> HIDE DEF L
<1>3. Decisions(L) = Decisions(l) /\ Intents(L) = Intents(l) \cup {r} /\ Outcomes(L) = Outcomes(l)
  BY <1>2 DEF Decisions, Intents, Outcomes
<1>4. d.seq < r.seq
  BY NumberedKept DEF Decisions, Honest
<1>5. \A i \in Intents(L) : GoodIntent(L, i)
  BY <1>3, <1>4 DEF Honest, GoodIntent
<1>6. \A o \in Outcomes(L) : GoodOutcome(L, o)
  BY <1>3 DEF Honest, GoodOutcome
<1>7. \A i, k \in Intents(L) : i.decision_seq = k.decision_seq => i = k
  BY <1>3 DEF Honest, IntentsOn
<1>8. Honest(L)
  BY <1>1, <1>3, <1>5, <1>6, <1>7 DEF Honest
<1> QED BY <1>8 DEF L

\* The first outcome of an intent.
LEMMA OutcomeKeeps ==
  ASSUME NEW l \in Seq(Records), Honest(l), NEW r \in Records, r.seq = Len(l) + 1,
         r.record_type = "outcome", NEW i \in Intents(l), NEW d \in DecisionOf(l, i),
         r.decision_seq = d.seq, r.intent_seq = i.seq, r.request = d.request,
         r.decision = d.decision, r.success # None, OutcomesOf(l, i) = {}
  PROVE  Honest(Append(l, r))
<1> DEFINE L == Append(l, r)
<1>1. Numbered(L)
  BY DEF Honest, Numbered
<1>2. /\ L \in Seq(Records)
      /\ \A t : OfType(L, t) = OfType(l, t) \cup {x \in {r} : x.record_type = t}
  BY <1>1, AppendTables
<1> HIDE DEF L
<1>3. Decisions(L) = Decisions(l) /\ Intents(L) = Intents(l) /\ Outcomes(L) = Outcomes(l) \cup {r}
  BY <1>2 DEF Decisions, Intents, Outcomes
<1>4. i.seq < r.seq
  BY NumberedKept DEF Intents, Honest
<1>5. d \in Decisions(l) /\ i.decision_seq = d.seq
  BY DEF DecisionOf
<1>6. \A k \in Intents(L) : GoodIntent(L, k)
  BY <1>3 DEF Honest, GoodIntent
<1>7. \A o \in Outcomes(L) : GoodOutcome(L, o)
  BY <1>3, <1>4, <1>5 DEF Honest, GoodOutcome
<1>8. \A o, p \in Outcomes(L) : o.intent_seq = p.intent_seq => o = p
  BY <1>3 DEF Honest, OutcomesOf
<1>9. Honest(L)
  BY <1>1, <1>3, <1>6, <1>7, <1>8 DEF Honest
<1> QED BY <1>9 DEF L

LEMMA HonestStep == HonestInv /\ [Next]_vars => HonestInv'
<1> SUFFICES ASSUME HonestInv, [Next]_vars PROVE HonestInv'
  OBVIOUS
<1> USE LinksAssumption
<1>1. faults' \in Nat /\ (faults' = 0 => faults = 0) /\ (UNCHANGED ledger \/ Next1)
  BY StepAppends DEF HonestInv
<1>2. TypeOK' /\ ledger \in Seq(Records) /\ faults \in Nat
  BY <1>1 DEF HonestInv, TypeOK, Next1
<1> SUFFICES ASSUME faults' = 0, Honest(ledger) PROVE Honest(ledger')
  BY <1>1, <1>2 DEF HonestInv
<1>3. Here = Len(ledger) + 1 /\ Here \in Seqs
  BY <1>2 DEF Here, Seqs
<1>4. CASE UNCHANGED vars
  BY <1>4 DEF vars
<1>5. ASSUME NEW p \in Policies, Decide(p) PROVE Honest(ledger')
  <2>1. /\ p.request \in Requests /\ p.decision \in Verdicts /\ p.dry_run \in BOOLEAN
        /\ p.governance_mode \in Modes /\ p.hard_delegation \in BOOLEAN
    BY DEF Policy
  <2> DEFINE r == [seq |-> Here, record_type |-> "decision", request |-> p.request,
                   decision |-> p.decision, dry_run |-> p.dry_run,
                   governance_mode |-> p.governance_mode,
                   hard_delegation |-> p.hard_delegation, stated |-> TRUE]
  <2>2. r \in Records
    BY <1>3, <2>1 DEF Records
  <2>3. p.dry_run # None
    BY <2>1, Zenon
  <2>4. r.seq = Here /\ r.record_type = "decision" /\ GoodDecision(r)
    BY <2>1, <2>3 DEF GoodDecision
  <2>5. ledger' = Append(ledger, r)
    BY <1>5 DEF Decide, Put
  <2> HIDE DEF r
  <2> QED BY <1>2, <1>3, <2>2, <2>4, <2>5, DecisionKeeps
<1>6. ASSUME NEW d \in Decisions(ledger), Intend(d) PROVE Honest(ledger')
  <2>1. d.request \in Requests \cup {None} /\ d.seq \in Seqs
    BY <1>2, InTable, Fields DEF Decisions
  <2> DEFINE r == [seq |-> Here, record_type |-> "consequence_intent", request |-> d.request,
                   decision_seq |-> d.seq]
  <2>2. r \in Records
    BY <1>3, <2>1 DEF Records
  <2>3. /\ r.seq = Here /\ r.record_type = "consequence_intent" /\ r.decision_seq = d.seq
        /\ r.request = d.request
    OBVIOUS
  <2>4. ledger' = Append(ledger, r) /\ Acts(d) /\ IntentsOn(ledger, d) = {}
    BY <1>6 DEF Intend, Put
  <2> HIDE DEF r
  <2> QED BY <1>2, <1>3, <2>2, <2>3, <2>4, IntentKeeps
<1>7. ASSUME NEW i \in Intents(ledger), NEW success \in Successes, Finish(i, success)
      PROVE  Honest(ledger')
  <2>1. PICK d \in DecisionOf(ledger, i) :
          Put([seq |-> Here, record_type |-> "outcome", request |-> d.request,
               decision_seq |-> d.seq, intent_seq |-> i.seq, decision |-> d.decision,
               success |-> success], 0)
    BY <1>7 DEF Finish
  <2>2. /\ d.request \in Requests \cup {None} /\ d.seq \in Seqs
        /\ d.decision \in Verdicts \cup {None} /\ i.seq \in Seqs
    BY <1>2, InTable, Fields DEF DecisionOf, Decisions, Intents
  <2> DEFINE r == [seq |-> Here, record_type |-> "outcome", request |-> d.request,
                   decision_seq |-> d.seq, intent_seq |-> i.seq, decision |-> d.decision,
                   success |-> success]
  <2>3. r \in Records
    BY <1>3, <2>2 DEF Records
  <2>4. /\ r.seq = Here /\ r.record_type = "outcome" /\ r.decision_seq = d.seq
        /\ r.intent_seq = i.seq /\ r.request = d.request /\ r.decision = d.decision
        /\ r.success # None
    OBVIOUS
  <2>5. ledger' = Append(ledger, r) /\ OutcomesOf(ledger, i) = {}
    BY <1>7, <2>1 DEF Finish, Put
  <2> HIDE DEF r
  <2> QED BY <1>2, <1>3, <2>3, <2>4, <2>5, OutcomeKeeps
<1>8. ASSUME Note PROVE Honest(ledger')
  <2> DEFINE r == [seq |-> Here, record_type |-> "other"]
  <2>1. r \in Records /\ r.seq = Here /\ r.record_type = "other"
    BY <1>3 DEF Records
  <2>2. ledger' = Append(ledger, r)
    BY <1>8 DEF Note, Put
  <2> HIDE DEF r
  <2> QED BY <1>2, <1>3, <2>1, <2>2, DecisionKeeps
<1>9. ASSUME NEW r \in Faulty, Fault(r) \/ Fault([r EXCEPT !.seq = Here]) PROVE FALSE
  <2>1. faults' = faults + 1
    BY <1>9 DEF Fault, Put
  <2> QED BY <1>2, <2>1
<1> QED BY <1>4, <1>5, <1>6, <1>7, <1>8, <1>9 DEF Next

\* However many operations the gateway interleaves, it is never accused of
\* more than not having finished, and of nothing when it has.
THEOREM HonestPassesHolds == Spec => []HonestPasses
<1>1. Init => HonestInv
  <2> SUFFICES ASSUME Init PROVE HonestInv
    OBVIOUS
  <2>1. ledger = <<>> /\ TypeOK /\ DOMAIN ledger = {}
    BY DEF Init, TypeOK
  <2>2. Numbered(ledger) /\ \A t : OfType(ledger, t) = {}
    BY <2>1 DEF Numbered, OfType, Kept
  <2> QED BY <2>1, <2>2 DEF HonestInv, Honest, Decisions, Intents, Outcomes
<1>2. HonestInv => HonestPasses
  <2> SUFFICES ASSUME HonestInv, faults = 0
               PROVE  ~Broken(ledger) /\ (AtRest(ledger) => Valid(ledger))
    BY DEF HonestPasses
  <2>1. Honest(ledger) /\ ledger \in Seq(Records)
    BY DEF HonestInv, TypeOK
  <2>2. ~Bad(ledger)
    BY <2>1, HonestNotBad
  <2>3. AtRest(ledger) => ~Unfinished(ledger)
    BY <2>1, HonestAtRest
  <2> QED BY <2>2, <2>3, IssuesAre
<1> QED BY <1>1, <1>2, HonestStep, PTL DEF Spec
=============================================================================
