---------------------------- MODULE LedgerChecks ----------------------------
(***************************************************************************)
(* The checks of one ledger against what its writer attested, a witness    *)
(* recorded and a holder retained: `_verify` of cli.py, which runs the     *)
(* checks a command asks for, and `verify_chain` and                       *)
(* `verify_witnessed_head` called alone.                                   *)
(* The files live on while they are read: the writer appends and attests,  *)
(* the witness records heads, and somebody who can write the files rolls   *)
(* them back, forks, replays old attestations or damages them.             *)
(*                                                                         *)
(* A ledger is the history of its bodies, and a head is a history (see     *)
(* LedgerWalk: the walk of an untampered ledger is an atomic read, and the *)
(* head it returns commits to everything before it).  Damaged stands for   *)
(* every ledger that does not verify, Forged for an attestation whose      *)
(* signature, trust root or form does not, None for a missing file.        *)
(***************************************************************************)
EXTENDS Integers, Sequences, SequencesExt, FiniteSets

CONSTANTS
  Bodies,
  MaxLog,      \* bound: records in the ledger
  MaxWitness,  \* bound: records in the witness ledger
  MaxAttacks,  \* bound: rollbacks, replays and damages
  MaxMoves,    \* bound: what happens to the files during a check
  AttackCost,  \* bound: the moves an attack takes the place of
  Requests,    \* what the callers ask for: records of entry and checks
  None, Damaged, Forged, Unrelated

CheckNames == {"head", "witness", "checkpoint"}

ASSUME ChecksAssumption ==
  /\ MaxLog \in Nat /\ MaxWitness \in Nat /\ MaxAttacks \in Nat
  /\ MaxMoves \in Nat /\ AttackCost \in Nat
  /\ Requests \subseteq
       [entry : {"cli"}, checks : SUBSET CheckNames]
         \cup [entry : {"verify_chain"}, checks : SUBSET {"head"}]
         \cup [entry : {"verify_witnessed_head"}, checks : {{"witness"}}]

Heads == UNION {[1 .. n -> Bodies] : n \in 0 .. MaxLog}

\* The failures a check reports.
Failures ==
  {"chain", "head attestation missing", "head attestation invalid",
   "truncated", "stale", "head forgery", "witness ledger invalid",
   "equivocation", "unwitnessed", "witnessed ledger invalid", "rollback",
   "stale witness", "witness forgery", "checkpoint invalid",
   "checkpoint truncated", "checkpoint rollback"}

\* The stand-ins are no heads, and differ from what they stand beside.
ASSUME ValuesApart ==
  /\ {None, Damaged, Forged, Unrelated} \cap Heads = {}
  /\ \A value \in {None, Damaged} : value \notin Seq(Heads \cup {Unrelated})
  /\ None \notin {Damaged, Forged} \cup Requests
  /\ None \notin Nat /\ Forged \notin Nat
  /\ None \notin Failures \cup {"pass"}

VARIABLES
  ledger,           \* a head, or Damaged
  sidecar,          \* the ledger's attestation: a head, Forged or None
  witness,          \* the witness ledger: a sequence of heads, with Unrelated
                    \* for a record of another kind, another ledger or no
                    \* valid signature; or Damaged
  witness_sidecar,  \* its attestation: how many records, Forged or None
  checkpoint,       \* the retained checkpoint: a head, Forged or None
  attested,         \* history: heads the writer signed
  attacks, moves,   \* history: attacks, and changes since the check began
  request,          \* None, or what the caller asked for
  pc, seen,         \* the check's next step, and what it read
  at_start,         \* history: the files when it began
  verdict           \* None, "pass", or the failure reported

ledgerVars == <<ledger, sidecar, attested>>
witnessVars == <<witness, witness_sidecar>>
fileVars == <<ledgerVars, witnessVars, checkpoint>>
checkVars == <<request, pc, seen, at_start, verdict>>
vars == <<fileVars, attacks, moves, checkVars>>

Unread == [ledger |-> None, sidecar |-> None, witness |-> None,
           witness_sidecar |-> None, checkpoint |-> None]

Files == [ledger |-> ledger, sidecar |-> sidecar, witness |-> witness,
          witness_sidecar |-> witness_sidecar, checkpoint |-> checkpoint]

Init ==
  /\ ledger = <<>> /\ sidecar = None /\ attested = {}
  /\ witness = <<>> /\ witness_sidecar = None
  /\ checkpoint = None
  /\ attacks = 0 /\ moves = 0
  /\ request = None /\ pc = "start"
  /\ seen = Unread /\ at_start = Unread /\ verdict = None
-----------------------------------------------------------------------------
(* The writer, the witness, the holder and the attacker: all external.     *)

AppendRecord(b) ==
  /\ ledger # Damaged /\ Len(ledger) < MaxLog
  /\ ledger' = Append(ledger, b)
  /\ UNCHANGED <<sidecar, attested, witnessVars, checkpoint, attacks>>

Attest ==
  /\ ledger # Damaged
  /\ sidecar' = ledger /\ attested' = attested \cup {ledger}
  /\ UNCHANGED <<ledger, witnessVars, checkpoint, attacks>>

\* The witness records any head the writer attested, also a second time.
Witness ==
  /\ witness # Damaged /\ Len(witness) < MaxWitness
  /\ \E head \in {sidecar} \cap attested : witness' = Append(witness, head)
  /\ UNCHANGED <<ledgerVars, witness_sidecar, checkpoint, attacks>>

WitnessElse ==
  /\ witness # Damaged /\ Len(witness) < MaxWitness
  /\ witness' = Append(witness, Unrelated)
  /\ UNCHANGED <<ledgerVars, witness_sidecar, checkpoint, attacks>>

AttestWitness ==
  /\ witness # Damaged
  /\ witness_sidecar' = Len(witness)
  /\ UNCHANGED <<ledgerVars, witness, checkpoint, attacks>>

\* The holder countersigns a head that is attested and witnessed.
Retain ==
  /\ witness # Damaged
  /\ \E head \in ToSet(witness) \cap (attested \ {<<>>}) : checkpoint' = head
  /\ UNCHANGED <<ledgerVars, witnessVars, attacks>>

RollBack ==
  /\ \/ /\ ledger # Damaged
        /\ \E n \in 0 .. Len(ledger) - 1 : ledger' = SubSeq(ledger, 1, n)
     \/ ledger' \in attested \cup {Damaged}
  /\ UNCHANGED <<sidecar, attested, witnessVars, checkpoint>>

\* Old attestations verify for ever.
ReplaySidecar ==
  /\ sidecar' \in attested \cup {Forged, None}
  /\ UNCHANGED <<ledger, attested, witnessVars, checkpoint>>

RollBackWitness ==
  /\ \/ /\ witness # Damaged
        /\ \E n \in 0 .. Len(witness) - 1 :
             witness' = SubSeq(witness, 1, n) /\ witness_sidecar' = n
     \/ witness' = Damaged /\ UNCHANGED witness_sidecar
     \/ witness_sidecar' \in {Forged, None} /\ UNCHANGED witness
  /\ UNCHANGED <<ledgerVars, checkpoint>>

SpoilCheckpoint ==
  /\ checkpoint' = Forged
  /\ UNCHANGED <<ledgerVars, witnessVars>>

Attack ==
  /\ attacks < MaxAttacks /\ attacks' = attacks + 1
  /\ request # None => moves + AttackCost < MaxMoves
  /\ RollBack \/ ReplaySidecar \/ RollBackWitness \/ SpoilCheckpoint

Environment ==
  /\ verdict = None
  /\ request # None => moves + AttackCost * attacks < MaxMoves
  /\ \/ \E b \in Bodies : AppendRecord(b)
     \/ Attest \/ Witness \/ WitnessElse \/ AttestWitness \/ Retain \/ Attack
  /\ moves' = moves + (IF request = None THEN 0 ELSE 1)
  /\ UNCHANGED checkVars
-----------------------------------------------------------------------------
(* Pure comparisons.                                                       *)

\* Mutation of HeadFailure: a head beyond the attested one passes.
HeadFailureUnlessShort(head, attestation) ==
  IF attestation = None THEN "head attestation missing"
  ELSE IF attestation = Forged THEN "head attestation invalid"
  ELSE IF Len(head) < Len(attestation) THEN "truncated"
  ELSE None

\* `_verify_head_attestation`: None when the head is exactly the attested one.
HeadFailure(head, attestation) ==
  IF attestation = None THEN "head attestation missing"
  ELSE IF attestation = Forged THEN "head attestation invalid"
  ELSE IF Len(head) < Len(attestation) THEN "truncated"
  ELSE IF Len(head) > Len(attestation) THEN "stale"
  ELSE IF head # attestation THEN "head forgery"
  ELSE None

Witnessed(records) == {n \in DOMAIN records : records[n] # Unrelated}

\* Mutation of Best: the latest record counts.
BestLatest(records) ==
  {records[n] : n \in {n \in Witnessed(records) :
     \A m \in Witnessed(records) : m <= n}}

\* `_walk_witness_ledger`: the heads witnessed at the highest seq.  More than
\* one is an equivocation.
Best(records) ==
  {records[n] : n \in {n \in Witnessed(records) :
     \A m \in Witnessed(records) : Len(records[m]) <= Len(records[n])}}

\* Mutation of WitnessLedgerFailure: records beyond the attested ones count.
WitnessLedgerFailureUnlessShort(records, attestation) ==
  IF records = Damaged THEN "witness ledger invalid"
  ELSE IF attestation \in {None, Forged} THEN "witness ledger invalid"
  ELSE IF Len(records) < attestation THEN "witness ledger invalid"
  ELSE IF Cardinality(Best(records)) > 1 THEN "equivocation"
  ELSE IF Witnessed(records) = {} THEN "unwitnessed"
  ELSE None

\* `_resolve_witnessed_head`: the witness ledger verifies, up to its head.
WitnessLedgerFailure(records, attestation) ==
  IF records = Damaged THEN "witness ledger invalid"
  ELSE IF attestation \in {None, Forged} THEN "witness ledger invalid"
  ELSE IF Len(records) # attestation THEN "witness ledger invalid"
  ELSE IF Cardinality(Best(records)) > 1 THEN "equivocation"
  ELSE IF Witnessed(records) = {} THEN "unwitnessed"
  ELSE None

\* Mutation of WitnessFailure: ahead and behind are confused.
WitnessFailureSwapped(head, records) ==
  LET witnessed == CHOOSE best \in Best(records) : TRUE
  IN  IF head = Damaged THEN "witnessed ledger invalid"
      ELSE IF Len(head) > Len(witnessed) THEN "rollback"
      ELSE IF Len(head) < Len(witnessed) THEN "stale witness"
      ELSE IF head # witnessed THEN "witness forgery"
      ELSE None

\* `verify_witnessed_head`, given a witness ledger that verifies.
WitnessFailure(head, records) ==
  LET witnessed == CHOOSE best \in Best(records) : TRUE
  IN  IF head = Damaged THEN "witnessed ledger invalid"
      ELSE IF Len(head) < Len(witnessed) THEN "rollback"
      ELSE IF Len(head) > Len(witnessed) THEN "stale witness"
      ELSE IF head # witnessed THEN "witness forgery"
      ELSE None

\* The hash of the record at seq, which the walk collected on its way.
HashAt(head, seq) == SubSeq(head, 1, seq)

\* Mutation of CheckpointFailure: only the length counts.
CheckpointFailureBySeq(head, retained) ==
  IF retained \in {None, Forged} THEN "checkpoint invalid"
  ELSE IF Len(head) < Len(retained) THEN "checkpoint truncated"
  ELSE None

\* `verify_checkpoint`: the head extends the checkpointed one.
CheckpointFailure(head, retained) ==
  IF retained \in {None, Forged} THEN "checkpoint invalid"
  ELSE IF Len(head) < Len(retained) THEN "checkpoint truncated"
  ELSE IF HashAt(head, Len(retained)) # retained THEN "checkpoint rollback"
  ELSE None
-----------------------------------------------------------------------------
(* The steps of a check: each reads one file, and judges what it can.      *)

Read(file, value) == seen' = [seen EXCEPT ![file] = value]

Report(failure) == verdict' = failure /\ pc' = "done"

Continue(step) == pc' = step /\ UNCHANGED verdict

Unless(failure, step) ==
  IF failure # None THEN Report(failure) ELSE Continue(step)

FirstStep(r) ==
  IF r.entry = "verify_witnessed_head" THEN "witness ledger"
  ELSE IF "checkpoint" \in r.checks THEN "checkpoint file" ELSE "ledger"

Start ==
  /\ pc = "start"
  /\ \E r \in Requests : request' = r /\ pc' = FirstStep(r)
  /\ at_start' = Files
  /\ UNCHANGED <<seen, verdict>>

\* The command reads its checkpoint first, to know which hash to collect, and
\* keeps a failure of that read for later.
ReadCheckpointFile ==
  /\ pc = "checkpoint file"
  /\ Read("checkpoint", checkpoint)
  /\ Continue("ledger")
  /\ UNCHANGED <<request, at_start>>

AfterHead(checks) ==
  IF "witness" \in checks THEN "witness sidecar"
  ELSE IF "checkpoint" \in checks THEN "checkpoint" ELSE "pass"

WalkLedger ==
  /\ pc = "ledger"
  /\ Read("ledger", ledger)
  /\ IF request.entry = "verify_witnessed_head"
     THEN Unless(WitnessFailure(ledger, seen.witness), "pass")
     ELSE Continue("head")
  /\ UNCHANGED <<request, at_start>>

\* The command looks for the attestation before it looks at what the walk
\* found; verify_chain after.
HeadCheck ==
  /\ pc = "head"
  /\ IF "head" \in request.checks
     THEN /\ Read("sidecar", sidecar)
          /\ Unless(IF request.entry = "cli" /\ sidecar = None
                    THEN "head attestation missing"
                    ELSE IF seen.ledger = Damaged THEN "chain"
                    ELSE HeadFailure(seen.ledger, sidecar),
                    AfterHead(request.checks))
     ELSE /\ UNCHANGED seen
          /\ IF seen.ledger = Damaged THEN Report("chain")
             ELSE Continue(AfterHead(request.checks))
  /\ UNCHANGED <<request, at_start>>

\* The command reads the witness ledger's attestation before that ledger;
\* verify_witnessed_head reads it after, and only if the ledger verified.
ReadWitnessSidecar ==
  /\ pc = "witness sidecar"
  /\ Read("witness_sidecar", witness_sidecar)
  /\ IF request.entry = "cli"
     THEN Unless(IF witness_sidecar = None THEN "witness ledger invalid"
                                           ELSE None, "witness ledger")
     ELSE Unless(WitnessLedgerFailure(seen.witness, witness_sidecar), "ledger")
  /\ UNCHANGED <<request, at_start>>

WalkWitnessLedger ==
  /\ pc = "witness ledger"
  /\ Read("witness", witness)
  /\ IF request.entry = "cli"
     THEN LET failure == WitnessLedgerFailure(witness, seen.witness_sidecar)
          IN  Unless(IF failure # None THEN failure
                     ELSE WitnessFailure(seen.ledger, witness),
                     AfterHead(request.checks \ {"witness"}))
     ELSE Unless(IF witness = Damaged THEN "witness ledger invalid" ELSE None,
                 "witness sidecar")
  /\ UNCHANGED <<request, at_start>>

CheckCheckpoint ==
  /\ pc = "checkpoint"
  /\ Unless(CheckpointFailure(seen.ledger, seen.checkpoint), "pass")
  /\ UNCHANGED <<request, seen, at_start>>

Pass ==
  /\ pc = "pass"
  /\ Report("pass")
  /\ UNCHANGED <<request, seen, at_start>>

Check ==
  /\ \/ Start \/ ReadCheckpointFile \/ WalkLedger \/ HeadCheck
     \/ ReadWitnessSidecar \/ WalkWitnessLedger \/ CheckCheckpoint \/ Pass
  /\ UNCHANGED <<fileVars, attacks, moves>>

Next == Environment \/ Check

Spec == Init /\ [][Next]_vars
-----------------------------------------------------------------------------
(* Properties.                                                             *)

TypeOK ==
  /\ ledger \in Heads \cup {Damaged}
  /\ sidecar \in attested \cup {None, Forged}
  /\ \/ witness = Damaged
     \/ /\ Len(witness) <= MaxWitness
        /\ ToSet(witness) \subseteq attested \cup {Unrelated}
  /\ witness_sidecar \in 0 .. MaxWitness \cup {None, Forged}
  /\ checkpoint \in attested \cup {None, Forged}
  /\ attested \subseteq Heads
  /\ attacks \in 0 .. MaxAttacks
  /\ request \in Requests \cup {None}
  /\ verdict \in Failures \cup {"pass", None}
  /\ (pc = "done") = (verdict # None)

Passed(check) == verdict = "pass" /\ check \in request.checks

\* README, Head attestation: a head check passes only a ledger whose head the
\* writer signed, whatever files were replaced before or between the reads.
AttestedOnly == Passed("head") => seen.ledger \in attested

\* README, Witness: a rollback below a witnessed head, or a fork beside it, is
\* caught, unless the witness ledger itself was rolled back: the ledger that
\* passes is at least as long as every head witnessed when the check began,
\* and is the only one of its length.
WitnessedKept ==
  Passed("witness") =>
    \/ ~IsPrefix(at_start.witness, seen.witness)
    \/ \A head \in ToSet(at_start.witness) \ {Unrelated} :
         /\ Len(head) <= Len(seen.ledger)
         /\ Len(head) = Len(seen.ledger) => head = seen.ledger

\* verify_checkpoint: a rewrite of the history a checkpoint names is caught
\* even if both the ledger and the witness ledger were rolled back, appended
\* to, attested and witnessed again.
CheckpointKept ==
  Passed("checkpoint") =>
    seen.checkpoint \in attested /\ IsPrefix(seen.checkpoint, seen.ledger)

\* An honest ledger is never accused of a fork.  verify_witnessed_head reads
\* the witness ledger first, so it does not accuse one of a rollback either;
\* the command reads it last, and may if the ledger grew since its walk.
\* verify_checkpoint: "A ledger that only appended since the checkpoint
\* passes", at whatever moments the files are read.
AccusationsTrue ==
  attacks = 0 =>
    /\ verdict \notin {"head forgery", "witness forgery", "equivocation"}
    /\ verdict = "rollback" =>
         request.entry = "cli" /\ IsStrictPrefix(seen.ledger, ledger)
    /\ verdict = "truncated" => IsStrictPrefix(seen.ledger, ledger)
    /\ at_start.checkpoint \notin {None, Forged} =>
         verdict \notin {"checkpoint invalid", "checkpoint truncated", "checkpoint rollback"}

UpToDate(check) ==
  CASE check = "head" -> at_start.sidecar = at_start.ledger
    [] check = "witness" ->
         /\ at_start.ledger \in ToSet(at_start.witness)
         /\ at_start.witness_sidecar = Len(at_start.witness)
    [] check = "checkpoint" -> at_start.checkpoint \notin {None, Forged}

\* A ledger that was never attacked, at rest, attested and witnessed, passes
\* every check: the checks agree on what an honest ledger looks like.
UpToDatePasses ==
  verdict # None /\ attacks = 0 /\ moves = 0 =>
    (verdict = "pass" <=> \A check \in request.checks : UpToDate(check))

\* README: "Order of checks: chain, head attestation, witness, checkpoint.
\* The first failure is reported."  A ledger whose chain does not verify is
\* reported as that.
ChainReportedFirst ==
  verdict = "head attestation missing" => seen.ledger # Damaged
=============================================================================
