---------------------------- MODULE ReceiptLinks ----------------------------
(***************************************************************************)
(* verify_receipt_records and verify_receipt_links (receipt_links.py): the *)
(* decisions of one ledger, the intents to act on them and the outcomes of *)
(* acting.  The checks run in passes by kind of record and collect issues; *)
(* each compares two records, and what a ledger without issues means is a  *)
(* matter of all of them together.                                         *)
(*                                                                         *)
(* The gateway that writes the ledger is not part of the verifier.  It is  *)
(* modelled by the records it appends, with many operations open at a      *)
(* time, and somebody else may append a record of any kind.                *)
(***************************************************************************)
EXTENDS Integers, Sequences

CONSTANTS
  None,         \* what is absent or malformed
  Requests,     \* actor, adapter and fingerprint: compared together
  Policies,     \* what the gateway may decide: some of Policy
  Faulty,       \* records somebody else may append
  MaxRecords,   \* bound: records of a ledger, those of Faulty counted twice
  MaxFaults     \* bound: records of Faulty among them

Verdicts == {"ALLOW", "DENY", "ESCALATE"}
Modes == {"discovery", "decision", "enforcement", "constitutional"}
Enforcing == {"enforcement", "constitutional"}
Successes == {"confirmed_success", "confirmed_failure", "unconfirmed"}
Seqs == Nat \ {0}

\* A delegation is hard by a typed delegation_* match among complete reasons.
Policy == [request : Requests, decision : Verdicts, dry_run : BOOLEAN, governance_mode : Modes,
           hard_delegation : BOOLEAN]

\* `stated`: the hashes and the actor of a decision are well-formed.  The
\* success of an outcome is null where it is unconfirmed.
Records ==
  [seq : Seqs \cup {None}, record_type : {"decision"}, request : Requests \cup {None},
   decision : Verdicts \cup {None}, dry_run : BOOLEAN \cup {None},
   governance_mode : Modes \cup {None}, hard_delegation : BOOLEAN, stated : BOOLEAN]
    \cup [seq : Seqs \cup {None}, record_type : {"consequence_intent"},
          request : Requests \cup {None}, decision_seq : Seqs \cup {None}]
    \cup [seq : Seqs \cup {None}, record_type : {"outcome"}, request : Requests \cup {None},
          decision_seq : Seqs \cup {None}, intent_seq : Seqs \cup {None},
          decision : Verdicts \cup {None}, success : Successes \cup {None}]
    \cup [seq : Seqs \cup {None}, record_type : {"other"}]

ASSUME LinksAssumption ==
  /\ None \notin Requests \cup Verdicts \cup Modes \cup Successes
  /\ None \notin Nat /\ None \notin BOOLEAN
  /\ Policies \subseteq Policy
  /\ \A r \in Faulty : r \in Records
  /\ MaxRecords \in Nat /\ MaxFaults \in Nat

VARIABLES
  ledger,   \* the records, in the order of the file
  faults    \* history: records somebody else appended

vars == <<ledger, faults>>

Init == ledger = <<>> /\ faults = 0
-----------------------------------------------------------------------------
(* The records a ledger is read into.                                      *)

\* Of two records with one seq the first is kept.
Kept(l) ==
  {i \in DOMAIN l : l[i].seq # None /\ \A k \in DOMAIN l : l[k].seq = l[i].seq => i <= k}

OfType(l, type) == {l[i] : i \in {k \in Kept(l) : l[k].record_type = type}}

Decisions(l) == OfType(l, "decision")
Intents(l) == OfType(l, "consequence_intent")
Outcomes(l) == OfType(l, "outcome")

\* The decision a record names, and the intent: at most one each.
DecisionOf(l, r) == {d \in Decisions(l) : d.seq = r.decision_seq}
IntentOf(l, o) == {i \in Intents(l) : i.seq = o.intent_seq}

\* What names a decision, and an intent.
IntentsOn(l, d) == {i \in Intents(l) : i.decision_seq = d.seq}
OutcomesOn(l, d) == {o \in Outcomes(l) : o.decision_seq = d.seq}
OutcomesOf(l, i) == {o \in Outcomes(l) : o.intent_seq = i.seq}

Several(S) == \E x, y \in S : x # y

\* `_decision_was_blocked`.
Blocked(d) ==
  /\ d.decision \in {"DENY", "ESCALATE"}
  /\ d.dry_run = FALSE
  /\ \/ d.governance_mode \in Enforcing
     \/ d.governance_mode = "decision" /\ d.hard_delegation

\* Mutation of Live: a dry run is as good.
LiveOrDry(d) == d.decision = "ALLOW"

Live(d) == d.decision = "ALLOW" /\ d.dry_run # TRUE
-----------------------------------------------------------------------------
(* The issues, pass by pass.  Codes that differ by the field are one.      *)

Issue(code, S) == {[code |-> code, seq |-> r.seq] : r \in S}

RecordIssues(l) == Issue("record_seq", {l[i] : i \in DOMAIN l \ Kept(l)})

DecisionIssues(l) ==
  Issue("decision_invalid",
        {d \in Decisions(l) :
           \/ d.decision = None \/ d.request = None \/ d.governance_mode = None
           \/ d.dry_run = None \/ ~d.stated})

\* Mutation of Early: a decision may come after what names it.
EarlyAllowed(l, S) == {}

\* What names a decision that it does not follow.
Early(l, S) == {r \in S : \E d \in DecisionOf(l, r) : d.seq >= r.seq}

IntentIssues(l) ==
  LET intents == Intents(l) IN
  Issue("intent_invalid", {i \in intents : i.request = None \/ i.decision_seq = None})
    \cup Issue("intent_unanchored_decision",
               {i \in intents : i.decision_seq # None /\ DecisionOf(l, i) = {}})
    \cup Issue("intent_not_after_decision", Early(l, intents))
    \cup Issue("intent_mismatch",
               {i \in intents : \E d \in DecisionOf(l, i) : i.request # d.request})
    \cup Issue("duplicate_consequence_intent", {d \in Decisions(l) : Several(IntentsOn(l, d))})

OutcomeIssues(l) ==
  LET outcomes == Outcomes(l) IN
  Issue("outcome_invalid",
        {o \in outcomes : \/ o.request = None \/ o.success = None
                          \/ o.decision_seq = None \/ o.intent_seq = None})
    \cup Issue("outcome_not_after_decision",
               {o \in outcomes : o.decision_seq # None /\ o.decision_seq >= o.seq})
    \cup Issue("outcome_unanchored_decision",
               {o \in outcomes : o.decision_seq # None /\ DecisionOf(l, o) = {}})
    \cup Issue("outcome_mismatch",
               {o \in outcomes : \E d \in DecisionOf(l, o) :
                                   o.request # d.request \/ o.decision # d.decision})
    \cup Issue("outcome_unanchored_intent",
               {o \in outcomes : o.intent_seq # None /\ IntentOf(l, o) = {}})
    \cup Issue("outcome_not_after_intent",
               {o \in outcomes : \E i \in IntentOf(l, o) : i.seq >= o.seq})
    \cup Issue("outcome_link_mismatch",
               {o \in outcomes : \E i \in IntentOf(l, o) : i.decision_seq # o.decision_seq})
    \cup Issue("outcome_intent_mismatch",
               {o \in outcomes : \E i \in IntentOf(l, o) : i.request # o.request})

\* Mutation of IntentOutcomeIssues: one outcome is enough, and so are two.
IntentOutcomeMissing(l) ==
  Issue("intent_missing_outcome", {i \in Intents(l) : OutcomesOf(l, i) = {}})

\* Every intent has one outcome.
IntentOutcomeIssues(l) ==
  Issue("intent_missing_outcome", {i \in Intents(l) : OutcomesOf(l, i) = {}})
    \cup Issue("duplicate_consequence_outcome", {i \in Intents(l) : Several(OutcomesOf(l, i))})

\* What may follow a decision, and what must.
ConsequenceIssues(l) ==
  LET acted == {d \in Decisions(l) : IntentsOn(l, d) # {} \/ OutcomesOn(l, d) # {}} IN
  Issue("dry_run_decision_has_consequence", {d \in acted : d.dry_run = TRUE})
    \cup Issue("allow_missing_intent", {d \in Decisions(l) : Live(d) /\ IntentsOn(l, d) = {}})
    \cup Issue("blocked_decision_has_consequence", {d \in acted : Blocked(d)})

Issues(l) ==
  RecordIssues(l) \cup DecisionIssues(l) \cup IntentIssues(l) \cup OutcomeIssues(l)
    \cup IntentOutcomeIssues(l) \cup ConsequenceIssues(l)

Valid(l) == Issues(l) = {}

\* The rows of the report: a decision and what names it.
Consequences(l) ==
  {[decision |-> d, intents |-> IntentsOn(l, d), outcomes |-> OutcomesOn(l, d)] :
     d \in {x \in Decisions(l) :
              Live(x) \/ IntentsOn(l, x) # {} \/ OutcomesOn(l, x) # {}}}

\* `verify_receipt_links` reads what the walk has numbered.
Numbered(l) == \A i \in DOMAIN l : l[i].seq = i
-----------------------------------------------------------------------------
(* The gateway, and somebody else.                                         *)

Here == Len(ledger) + 1

Put(r, fault) ==
  /\ faults' = faults + fault
  /\ Len(ledger) + faults' < MaxRecords
  /\ ledger' = Append(ledger, r)

Decide(p) ==
  Put([seq |-> Here, record_type |-> "decision", request |-> p.request, decision |-> p.decision,
       dry_run |-> p.dry_run, governance_mode |-> p.governance_mode,
       hard_delegation |-> p.hard_delegation, stated |-> TRUE], 0)

\* The gateway acts on what it allowed, and on a refusal its mode only notes.
Acts(d) ==
  /\ d.dry_run = FALSE
  /\ \/ d.decision = "ALLOW" \/ d.governance_mode = "discovery"
     \/ d.governance_mode = "decision" /\ ~d.hard_delegation

\* It announces the action of a decision once, and records its outcome once,
\* whatever it decided or did in between.
Intend(d) ==
  /\ Acts(d) /\ IntentsOn(ledger, d) = {}
  /\ Put([seq |-> Here, record_type |-> "consequence_intent", request |-> d.request,
          decision_seq |-> d.seq], 0)

Finish(i, success) ==
  /\ OutcomesOf(ledger, i) = {}
  /\ \E d \in DecisionOf(ledger, i) :
       Put([seq |-> Here, record_type |-> "outcome", request |-> d.request,
            decision_seq |-> d.seq, intent_seq |-> i.seq, decision |-> d.decision,
            success |-> success], 0)

Note == Put([seq |-> Here, record_type |-> "other"], 0)

\* A record of any kind, in its place or under any other number.
Fault(r) == faults < MaxFaults /\ Put(r, 1)

Next ==
  \/ \E p \in Policies : Decide(p)
  \/ \E d \in Decisions(ledger) : Intend(d)
  \/ \E i \in Intents(ledger), success \in Successes : Finish(i, success)
  \/ Note
  \/ \E r \in Faulty : Fault(r) \/ Fault([r EXCEPT !.seq = Here])

Spec == Init /\ [][Next]_vars
-----------------------------------------------------------------------------
TypeOK == ledger \in Seq(Records) /\ faults \in Nat

\* In a ledger without issues every row of the report is one action: a
\* decision that permitted it, one intent after it and one outcome after that,
\* of one request and one verdict.  Every action it allowed was taken, and no
\* intent or outcome stands outside the rows.
Linked(l) ==
  /\ \A row \in Consequences(l) : \E i \in Intents(l), o \in Outcomes(l) :
       /\ row.intents = {i} /\ row.outcomes = {o}
       /\ row.decision.seq < i.seq /\ i.seq < o.seq
       /\ o.intent_seq = i.seq
       /\ i.request = row.decision.request /\ o.request = row.decision.request
       /\ o.decision = row.decision.decision
       /\ row.decision.dry_run = FALSE
       /\ row.decision.decision # "ALLOW" => row.decision.governance_mode \notin Enforcing
  /\ \A i \in DOMAIN l : l[i].record_type \in {"consequence_intent", "outcome"} =>
       \E row \in Consequences(l) : l[i] \in row.intents \cup row.outcomes

\* README: "It then requires the append order decision -> consequence-intent
\* -> outcome ... matching fingerprints and verdicts, and one intent and
\* outcome for each non-dry-run ALLOW."  No pass looks at a whole action.
ValidIsLinked == Valid(ledger) => Linked(ledger)

\* What only more records can mend.
Pending == {"allow_missing_intent", "intent_missing_outcome"}

Broken(l) == \E x \in Issues(l) : x.code \notin Pending

\* Every action the gateway allowed is finished.
AtRest(l) ==
  /\ \A d \in Decisions(l) :
       d.decision = "ALLOW" /\ d.dry_run = FALSE => IntentsOn(l, d) # {}
  /\ \A i \in Intents(l) : OutcomesOf(l, i) # {}

\* A gateway that interleaves any number of operations is never accused of
\* more than not having finished, and of nothing when it has.
HonestPasses ==
  faults = 0 => ~Broken(ledger) /\ (AtRest(ledger) => Valid(ledger))

\* A numbered ledger that is broken stays broken: a reference to what was not
\* there yet is not made good by what is appended later.  Without the walk's
\* numbers it could be.
BrokenStaysBroken ==
  [][Broken(ledger) /\ Numbered(ledger') => Broken(ledger')]_vars
=============================================================================
