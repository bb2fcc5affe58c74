--------------------------- MODULE MCReceiptLinks ---------------------------
(* Small instances of ReceiptLinks. *)
EXTENDS ReceiptLinks

CONSTANTS q1, q2

Of(request, verdict, dry, mode, hard) ==
  [request |-> request, decision |-> verdict, dry_run |-> dry, governance_mode |-> mode, hard_delegation |-> hard]

\* Two requests, live and dry, and a refusal that is enforced, noted, or hard.
MCPolicies ==
  {Of(q1, "ALLOW", FALSE, "enforcement", FALSE), Of(q2, "ALLOW", FALSE, "decision", FALSE),
   Of(q1, "ALLOW", TRUE, "constitutional", FALSE), Of(q1, "DENY", FALSE, "constitutional", FALSE),
   Of(q1, "ESCALATE", FALSE, "decision", FALSE), Of(q1, "DENY", FALSE, "decision", TRUE)}

Numbers == {None, 1, 2, 3}

MCFaulty ==
  {[seq |-> s, record_type |-> "decision", request |-> q1, decision |-> v,
    dry_run |-> dry, governance_mode |-> m, hard_delegation |-> FALSE, stated |-> TRUE] :
      s \in {None, 1}, v \in {None, "ALLOW"}, dry \in {None, FALSE}, m \in {None, "decision"}}
    \cup {[seq |-> s, record_type |-> "consequence_intent", request |-> q, decision_seq |-> d] :
            s \in {None, 1}, q \in {q1, None}, d \in Numbers}
    \cup {[seq |-> s, record_type |-> "outcome", request |-> q1, decision_seq |-> d,
           intent_seq |-> i, decision |-> v, success |-> x] :
            s \in {None, 1}, d \in Numbers, i \in Numbers, v \in {"ALLOW", "DENY"},
            x \in {None, "unconfirmed"}}
=============================================================================
