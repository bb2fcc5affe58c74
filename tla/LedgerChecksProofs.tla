------------------------- MODULE LedgerChecksProofs -------------------------
(***************************************************************************)
(* Proofs about the checks of a ledger, for any bodies, bounds and         *)
(* requests.                                                               *)
(***************************************************************************)
EXTENDS LedgerChecks, SequenceTheorems, FiniteSetTheorems,
        WellFoundedInduction, TLAPS

-----------------------------------------------------------------------------
(* Heads and their prefixes.                                               *)

\* A head is a sequence of bodies, no longer than the bound.
LEMMA HeadsAre ==
  ASSUME NEW h
  PROVE  h \in Heads <=> h \in Seq(Bodies) /\ Len(h) <= MaxLog
<1>1. h \in Heads <=> \E n \in 0 .. MaxLog : h \in [1 .. n -> Bodies]
  BY DEF Heads
<1>2. MaxLog \in Nat
  BY ChecksAssumption
<1>3. ASSUME NEW n \in 0 .. MaxLog, h \in [1 .. n -> Bodies]
      PROVE  h \in Seq(Bodies) /\ Len(h) <= MaxLog
  BY <1>2, <1>3, SeqDef
<1>4. ASSUME h \in Seq(Bodies), Len(h) <= MaxLog
      PROVE  \E n \in 0 .. MaxLog : h \in [1 .. n -> Bodies]
  BY <1>2, <1>4, LenProperties
<1> QED
  BY <1>1, <1>3, <1>4

\* A prefix of a head agrees with it position by position.
LEMMA PrefixPointwise ==
  ASSUME NEW S, NEW g \in Seq(S), NEW h \in Seq(S)
  PROVE  IsPrefix(g, h) <=>
           Len(g) <= Len(h) /\ \A i \in 1 .. Len(g) : g[i] = h[i]
<1>1. Len(g) \in Nat /\ Len(h) \in Nat
  BY LenProperties
<1>2. SubSeq(g, 1, Len(g)) = g
  BY SubSeqFull
<1>3. ASSUME Len(g) <= Len(h)
      PROVE  /\ SubSeq(h, 1, Len(g)) \in Seq(S)
             /\ Len(SubSeq(h, 1, Len(g))) = Len(g)
             /\ \A i \in 1 .. Len(g) : SubSeq(h, 1, Len(g))[i] = h[i]
  <2>1. \A i \in 1 .. Len(g) : h[i] \in S
    BY <1>1, <1>3, ElementOfSeq
  <2> QED
    BY <1>1, <2>1, SubSeqProperties
<1>4. ASSUME IsPrefix(g, h)
      PROVE  Len(g) <= Len(h) /\ \A i \in 1 .. Len(g) : g[i] = h[i]
  BY <1>2, <1>3, <1>4 DEF IsPrefix
<1>5. ASSUME Len(g) <= Len(h), \A i \in 1 .. Len(g) : g[i] = h[i]
      PROVE  IsPrefix(g, h)
  <2>1. SubSeq(h, 1, Len(g)) = g
    BY <1>3, <1>5, SeqEqual
  <2> QED
    BY <1>2, <1>5, <2>1 DEF IsPrefix
<1> QED
  BY <1>4, <1>5

\* Prefixes are ordered, and the prefixes of one sequence by their lengths.
LEMMA PrefixOrder ==
  ASSUME NEW S, NEW f \in Seq(S), NEW g \in Seq(S), NEW h \in Seq(S)
  PROVE  /\ IsPrefix(f, f)
         /\ IsPrefix(f, g) /\ IsPrefix(g, h) => IsPrefix(f, h)
         /\ IsPrefix(f, h) /\ IsPrefix(g, h) /\ Len(f) <= Len(g)
              => IsPrefix(f, g)
         /\ IsPrefix(f, g) /\ Len(f) = Len(g) => f = g
<1>1. Len(f) \in Nat /\ Len(g) \in Nat /\ Len(h) \in Nat
  BY LenProperties
<1>2. IsPrefix(f, f)
  BY <1>1, PrefixPointwise
<1>3. IsPrefix(f, g) /\ IsPrefix(g, h) => IsPrefix(f, h)
  BY <1>1, PrefixPointwise
<1>4. IsPrefix(f, h) /\ IsPrefix(g, h) /\ Len(f) <= Len(g) => IsPrefix(f, g)
  BY <1>1, PrefixPointwise
<1>5. IsPrefix(f, g) /\ Len(f) = Len(g) => f = g
  BY <1>1, PrefixPointwise, SeqEqual
<1> QED
  BY <1>2, <1>3, <1>4, <1>5

\* A ledger that was appended to extends what it was.
LEMMA PrefixAppend ==
  ASSUME NEW S, NEW s \in Seq(S), NEW e \in S
  PROVE  IsPrefix(s, Append(s, e))
<1> DEFINE t == Append(s, e)
<1>1. /\ t \in Seq(S) /\ Len(t) = Len(s) + 1
      /\ \A i \in 1 .. Len(s) : t[i] = s[i]
  BY AppendProperties
<1>2. Len(s) \in Nat
  BY LenProperties
<1> HIDE DEF t
<1>3. IsPrefix(s, t)
  BY <1>1, <1>2, PrefixPointwise
<1> QED
  BY <1>3 DEF t
-----------------------------------------------------------------------------
(* The heads witnessed at the highest seq.                                 *)

Records == Seq(Heads \cup {Unrelated})

\* Every witnessed head is no longer than the best, and one as long is best.
LEMMA BestIsLongest ==
  ASSUME NEW records \in Records, NEW best \in Best(records),
         NEW n \in Witnessed(records)
  PROVE  /\ records[n] \in Heads /\ best \in Heads
         /\ Len(records[n]) <= Len(best)
         /\ Len(records[n]) = Len(best) => records[n] \in Best(records)
<1>1. PICK b \in Witnessed(records) :
        /\ best = records[b]
        /\ \A m \in Witnessed(records) : Len(records[m]) <= Len(records[b])
  BY DEF Best
<1>2. \A m \in Witnessed(records) : records[m] \in Heads
  BY LenProperties, ElementOfSeq DEF Witnessed, Records
<1>3. \A m \in Witnessed(records) : Len(records[m]) \in Nat
  BY <1>2, HeadsAre, LenProperties
<1>4. ASSUME Len(records[n]) = Len(best)
      PROVE  records[n] \in Best(records)
  BY <1>1, <1>4 DEF Best
<1> QED
  BY <1>1, <1>2, <1>4

\* Every nonempty set of naturals has a least element.
LEMMA Smallest ==
  ASSUME NEW T \in SUBSET Nat, T # {}
  PROVE  \E least \in T : \A k \in T : least <= k
<1> DEFINE Less == {p \in Nat \X Nat : p[1] < p[2]}
<1>1. IsWellFoundedOn(Less, Nat)
  BY NatLessThanWellFounded DEF OpToRel
<1> HIDE DEF Less
<1>2. PICK x \in T : \A y \in T : <<y, x>> \notin Less
  BY <1>1, WFMin
<1>3. \A y \in T : y < x => <<y, x>> \in Less
  BY DEF Less
<1>4. \A y \in T : ~ (y < x)
  BY <1>2, <1>3
<1>5. x \in Nat /\ \A y \in T : y \in Nat
  OBVIOUS
<1> QED
  BY <1>4, <1>5

\* Some head is best when there is any.
LEMMA BestExists ==
  ASSUME NEW records \in Records, Witnessed(records) # {}
  PROVE  Best(records) # {}
<1> DEFINE Short(n) == MaxLog - Len(records[n])
           Shorts == {Short(n) : n \in Witnessed(records)}
<1>1. \A n \in Witnessed(records) :
        records[n] \in Heads /\ Len(records[n]) \in 0 .. MaxLog
  <2>1. \A n \in Witnessed(records) : records[n] \in Heads
    BY LenProperties, ElementOfSeq DEF Witnessed, Records
  <2> QED
    BY <2>1, HeadsAre, LenProperties, ChecksAssumption
<1>2. Shorts \subseteq Nat /\ Shorts # {}
  BY <1>1, ChecksAssumption
<1>3. PICK least \in Shorts : \A k \in Shorts : least <= k
  <2> HIDE DEF Shorts
  <2> QED
    BY <1>2, Smallest
<1>4. PICK n \in Witnessed(records) : least = Short(n)
  OBVIOUS
<1>5. ASSUME NEW m \in Witnessed(records)
      PROVE  Len(records[m]) <= Len(records[n])
  <2>1. Short(n) <= Short(m)
    BY <1>3, <1>4
  <2>2. MaxLog \in Nat /\ Len(records[m]) \in Nat /\ Len(records[n]) \in Nat
    BY <1>1, ChecksAssumption
  <2> QED
    BY <2>1, <2>2
<1> QED
  BY <1>5 DEF Best

\* The witnessed heads are finitely many.
LEMMA BestFinite ==
  ASSUME NEW records \in Records
  PROVE  IsFiniteSet(Best(records))
<1>1. Witnessed(records) \subseteq 1 .. Len(records)
  BY LenProperties DEF Witnessed, Records
<1>2. Len(records) \in Nat
  BY LenProperties DEF Records
<1>3. IsFiniteSet(1 .. Len(records))
  BY <1>2, FS_Interval
<1> DEFINE Longest == {n \in Witnessed(records) :
             \A m \in Witnessed(records) : Len(records[m]) <= Len(records[n])}
<1>4. IsFiniteSet(Longest)
  BY <1>1, <1>3, FS_Subset
<1>5. Best(records) = {records[n] : n \in Longest}
  BY DEF Best
<1> HIDE DEF Longest
<1> DEFINE At == [n \in Longest |-> records[n]]
<1>6. At \in Surjection(Longest, Best(records))
  BY <1>5 DEF Surjection
<1> QED
  BY <1>4, <1>6, FS_Surjection

\* There is no equivocation exactly when all the best heads are equal.
LEMMA BestUnique ==
  ASSUME NEW records \in Records
  PROVE  Cardinality(Best(records)) > 1
           <=> \E g, h \in Best(records) : g # h
<1>1. IsFiniteSet(Best(records)) /\ Cardinality(Best(records)) \in Nat
  BY BestFinite, FS_CardinalityType
<1>2. ASSUME NEW g \in Best(records), NEW h \in Best(records), g # h
      PROVE  Cardinality(Best(records)) > 1
  <2>1. IsFiniteSet({g}) /\ Cardinality({g}) = 1
    BY FS_Singleton
  <2>2. IsFiniteSet({g, h}) /\ Cardinality({g, h}) = 2
    <3>1. {g, h} = {g} \cup {h} /\ h \notin {g}
      BY <1>2
    <3> QED
      BY <2>1, <3>1, FS_AddElement
  <2>3. Cardinality({g, h}) <= Cardinality(Best(records))
    BY <1>1, FS_Subset
  <2> QED
    BY <1>1, <2>2, <2>3
<1>3. ASSUME \A g, h \in Best(records) : g = h
      PROVE  ~ Cardinality(Best(records)) > 1
  <2>1. CASE Best(records) = {}
    BY <2>1, FS_EmptySet
  <2>2. CASE Best(records) # {}
    <3>1. PICK g : Best(records) = {g}
      BY <1>3, <2>2
    <3> QED
      BY <3>1, FS_Singleton
  <2> QED
    BY <2>1, <2>2
<1> QED
  BY <1>2, <1>3
-----------------------------------------------------------------------------
(* What the comparisons report.                                            *)

\* A failure is neither the absence of one nor a pass.
LEMMA FailuresReport == None \notin Failures \cup {"pass"} /\ "pass" \notin Failures
  BY ValuesApart DEF Failures

\* The stand-ins are no heads.
LEMMA NoHeads == None \notin Heads /\ Damaged \notin Heads
                 /\ Forged \notin Heads /\ Unrelated \notin Heads
  BY ValuesApart

\* The lengths of heads are naturals.
LEMMA HeadLength == \A h \in Heads : h \in Seq(Bodies) /\ Len(h) \in Nat
  BY HeadsAre, LenProperties

\* `_verify_head_attestation` passes exactly the attested head.
LEMMA HeadVerdict ==
  ASSUME NEW head \in Heads, NEW att \in Heads \cup {None, Forged}
  PROVE  /\ HeadFailure(head, att) = None <=> head = att
         /\ HeadFailure(head, att) = "truncated"
              => att \in Heads /\ Len(head) < Len(att)
         /\ HeadFailure(head, att) = "head forgery"
              => att \in Heads /\ Len(head) = Len(att) /\ head # att
         /\ HeadFailure(head, att) \in
              {None, "head attestation missing", "head attestation invalid",
               "truncated", "stale", "head forgery"}
<1>1. None \notin {"head attestation missing", "head attestation invalid",
                   "truncated", "stale", "head forgery"}
  BY FailuresReport DEF Failures
<1>2. CASE att = None
  BY <1>1, <1>2, NoHeads DEF HeadFailure
<1>3. CASE att = Forged
  BY <1>1, <1>3, NoHeads, ValuesApart DEF HeadFailure
<1>4. CASE att \in Heads
  <2>1. HeadFailure(head, att) =
          IF Len(head) < Len(att) THEN "truncated"
          ELSE IF Len(head) > Len(att) THEN "stale"
          ELSE IF head # att THEN "head forgery" ELSE None
    BY <1>4, NoHeads DEF HeadFailure
  <2>2. Len(head) < Len(att) \/ Len(head) > Len(att) => head # att
    BY <1>4, HeadLength
  <2>3. Len(head) < Len(att) \/ Len(head) > Len(att) \/ Len(head) = Len(att)
    BY <1>4, HeadLength
  <2> QED
    BY <1>1, <1>4, <2>1, <2>2, <2>3, Zenon
<1> QED
  BY <1>2, <1>3, <1>4

\* The witness ledger passes when its attestation counts its records and
\* exactly one head is the best witnessed.
LEMMA WitnessLedgerVerdict ==
  ASSUME NEW records \in Records, NEW att \in Nat \cup {None, Forged}
  PROVE  /\ WitnessLedgerFailure(records, att) = None
              <=> att = Len(records) /\ \E h \in Heads : Best(records) = {h}
         /\ WitnessLedgerFailure(records, att) = "equivocation"
              => \E g, h \in Best(records) : g # h
         /\ WitnessLedgerFailure(records, att) \in
              {None, "witness ledger invalid", "equivocation", "unwitnessed"}
<1>1. None \notin {"witness ledger invalid", "equivocation", "unwitnessed"}
  BY FailuresReport DEF Failures
<1>2. records # Damaged /\ Len(records) \in Nat
  BY ValuesApart, LenProperties DEF Records
<1>3. Len(records) # None /\ Len(records) # Forged
  BY <1>2, ValuesApart
<1>4. Best(records) \subseteq Heads
  BY BestIsLongest DEF Best
<1>5. Best(records) = {} <=> Witnessed(records) = {}
  <2>1. Witnessed(records) = {} => Best(records) = {}
    BY DEF Best
  <2> QED
    BY <2>1, BestExists
<1>6. (\E h \in Heads : Best(records) = {h})
        <=> Best(records) # {} /\ ~ \E g, h \in Best(records) : g # h
  BY <1>4
<1> QED
  BY <1>1, <1>2, <1>3, <1>5, <1>6, BestUnique DEF WitnessLedgerFailure

\* `verify_witnessed_head` passes exactly the best witnessed head.
LEMMA WitnessVerdict ==
  ASSUME NEW records, NEW best \in Heads, Best(records) = {best},
         NEW head \in Heads
  PROVE  /\ WitnessFailure(head, records) = None <=> head = best
         /\ WitnessFailure(head, records) = "rollback" => Len(head) < Len(best)
         /\ WitnessFailure(head, records) = "witness forgery"
              => Len(head) = Len(best) /\ head # best
         /\ WitnessFailure(head, records) \in
              {None, "rollback", "stale witness", "witness forgery"}
<1>1. None \notin {"rollback", "stale witness", "witness forgery"}
  BY FailuresReport DEF Failures
<1>2. (CHOOSE b \in Best(records) : TRUE) = best
  OBVIOUS
<1>3. WitnessFailure(head, records) =
        IF Len(head) < Len(best) THEN "rollback"
        ELSE IF Len(head) > Len(best) THEN "stale witness"
        ELSE IF head # best THEN "witness forgery" ELSE None
  BY <1>2, NoHeads DEF WitnessFailure
<1>4. Len(head) < Len(best) \/ Len(head) > Len(best) => head # best
  BY HeadLength
<1>5. Len(head) < Len(best) \/ Len(head) > Len(best) \/ Len(head) = Len(best)
  BY HeadLength
<1> QED
  BY <1>1, <1>3, <1>4, <1>5

\* Neither passes a ledger that does not verify.
LEMMA DamagedVerdict ==
  /\ \A att : WitnessLedgerFailure(Damaged, att) = "witness ledger invalid"
  /\ \A records : WitnessFailure(Damaged, records) = "witnessed ledger invalid"
  BY DEF WitnessLedgerFailure, WitnessFailure

\* `verify_checkpoint` passes exactly what extends the checkpointed head.
LEMMA CheckpointVerdict ==
  ASSUME NEW head \in Heads, NEW retained \in Heads \cup {None, Forged}
  PROVE  /\ CheckpointFailure(head, retained) = None
              <=> retained \in Heads /\ IsPrefix(retained, head)
         /\ CheckpointFailure(head, retained) \in
              {None, "checkpoint invalid", "checkpoint truncated",
               "checkpoint rollback"}
<1>1. None \notin {"checkpoint invalid", "checkpoint truncated",
                   "checkpoint rollback"}
  BY FailuresReport DEF Failures
<1>2. retained \in Heads => SubSeq(retained, 1, Len(retained)) = retained
  BY HeadLength, SubSeqFull
<1>3. CASE retained \in {None, Forged}
  BY <1>1, <1>3, NoHeads DEF CheckpointFailure
<1>4. CASE retained \in Heads
  <2>1. CheckpointFailure(head, retained) =
          IF Len(head) < Len(retained) THEN "checkpoint truncated"
          ELSE IF SubSeq(head, 1, Len(retained)) # retained
          THEN "checkpoint rollback" ELSE None
    BY <1>4, NoHeads DEF CheckpointFailure, HashAt
  <2>2. Len(head) \in Nat /\ Len(retained) \in Nat
    BY <1>4, HeadLength
  <2>3. IsPrefix(retained, head) <=>
          ~ Len(head) < Len(retained) /\ SubSeq(head, 1, Len(retained)) = retained
    BY <1>2, <1>4, <2>2 DEF IsPrefix
  <2> QED
    BY <1>1, <1>4, <2>1, <2>3
<1> QED
  BY <1>3, <1>4
-----------------------------------------------------------------------------
(* The types of the files and of a check.                                  *)

Steps == {"start", "checkpoint file", "ledger", "head", "witness sidecar",
          "witness ledger", "checkpoint", "pass", "done"}

\* What a check may have read.
Readings ==
  [ledger : Heads \cup {Damaged, None}, sidecar : Heads \cup {Forged, None},
   witness : Records \cup {Damaged, None},
   witness_sidecar : 0 .. MaxWitness \cup {Forged, None},
   checkpoint : Heads \cup {Forged, None}]

\* Only attested heads are witnessed.
Recorded(records) == ToSet(records) \subseteq attested \cup {Unrelated}

FilesTyped ==
  /\ ledger \in Heads \cup {Damaged}
  /\ sidecar \in attested \cup {None, Forged}
  /\ witness \in Records \cup {Damaged}
  /\ witness \in Records => Len(witness) <= MaxWitness /\ Recorded(witness)
  /\ witness_sidecar \in 0 .. MaxWitness \cup {None, Forged}
  /\ checkpoint \in attested \cup {None, Forged}
  /\ attested \subseteq Heads
  /\ attacks \in 0 .. MaxAttacks /\ moves \in Nat

CheckTyped ==
  /\ request \in Requests \cup {None} /\ pc \in Steps
  /\ verdict \in Failures \cup {"pass", None}
  /\ (pc = "start") = (request = None)
  /\ (pc = "done") = (verdict # None)
  /\ seen \in Readings /\ at_start \in Readings
  /\ seen.checkpoint \in attested \cup {None, Forged}
  /\ seen.witness \in Records => Recorded(seen.witness)
  /\ request = None => moves = 0 /\ seen = Unread

Typed == FilesTyped /\ CheckTyped

\* The types are those the runs check.
LEMMA TypedImpliesTypeOK == Typed => TypeOK
  BY DEF Typed, FilesTyped, CheckTyped, TypeOK, Recorded

\* Before anything happens there is an empty ledger and nothing else.
LEMMA InitTyped == Init => Typed
<1> SUFFICES ASSUME Init PROVE Typed
  OBVIOUS
<1> USE DEF Init
<1>1. <<>> \in Heads
  <2> DEFINE nothing == <<>>
  <2>1. nothing \in Seq(Bodies) /\ Len(nothing) = 0
    BY EmptySeq
  <2> HIDE DEF nothing
  <2>2. Len(nothing) <= MaxLog
    BY <2>1, ChecksAssumption
  <2>3. nothing \in Heads
    BY <2>1, <2>2, HeadsAre
  <2> QED
    BY <2>3 DEF nothing
<1>2. witness \in Records /\ Len(witness) = 0 /\ ToSet(witness) = {}
  BY EmptySeq DEF Records, ToSet
<1>3. FilesTyped
  BY <1>1, <1>2, ChecksAssumption DEF FilesTyped, Recorded
<1>4. Unread \in Readings
  BY DEF Unread, Readings
<1>5. CheckTyped
  <2>1. seen.checkpoint = None /\ seen.witness = None
    BY DEF Unread
  <2>2. seen.witness \notin Records
    BY <2>1, ValuesApart DEF Records
  <2> QED
    BY <1>4, <2>1, <2>2 DEF CheckTyped, Steps
<1> QED
  BY <1>3, <1>5 DEF Typed

\* What the writer, the witness, the holder and the attacker do keeps the
\* types, and no head is ever unsigned again.
LEMMA EnvironmentTyped ==
  ASSUME FilesTyped, Environment
  PROVE  FilesTyped' /\ attested \subseteq attested'
<1> USE DEF FilesTyped
<1>0. moves' \in Nat
  BY DEF Environment
<1>1. ASSUME NEW b \in Bodies, AppendRecord(b)
      PROVE  FilesTyped' /\ attested \subseteq attested'
  <2> DEFINE longer == Append(ledger, b)
  <2>1. ledger \in Seq(Bodies) /\ Len(ledger) \in Nat
    BY <1>1, HeadLength DEF AppendRecord
  <2>2. longer \in Seq(Bodies) /\ Len(longer) = Len(ledger) + 1
    BY <2>1, AppendProperties
  <2>3. ledger' = longer /\ Len(ledger) < MaxLog
    BY <1>1 DEF AppendRecord
  <2> HIDE DEF longer
  <2>4. ledger' \in Heads
    BY <2>1, <2>2, <2>3, HeadsAre, ChecksAssumption
  <2> QED
    BY <1>0, <1>1, <2>4 DEF AppendRecord, witnessVars, Recorded
<1>2. CASE Attest
  BY <1>0, <1>2 DEF Attest, witnessVars, Recorded
<1>3. ASSUME NEW record \in attested \cup {Unrelated},
             witness # Damaged, Len(witness) < MaxWitness,
             witness' = Append(witness, record),
             UNCHANGED <<ledgerVars, witness_sidecar, checkpoint, attacks>>
      PROVE  FilesTyped' /\ attested \subseteq attested'
  <2> DEFINE longer == Append(witness, record)
  <2>1. witness \in Records /\ Len(witness) \in Nat
    BY <1>3, LenProperties DEF Records
  <2>2. /\ longer \in Records /\ Len(longer) = Len(witness) + 1
        /\ \A n \in 1 .. Len(witness) : longer[n] = witness[n]
        /\ longer[Len(witness) + 1] = record
    BY <2>1, AppendProperties DEF Records
  <2>3. DOMAIN longer = 1 .. Len(witness) + 1 /\ DOMAIN witness = 1 .. Len(witness)
    BY <2>1, <2>2, LenProperties DEF Records
  <2> HIDE DEF longer
  <2>4. Recorded(longer)
    BY <1>3, <2>1, <2>2, <2>3 DEF Recorded, ToSet
  <2>5. Len(longer) <= MaxWitness
    BY <1>3, <2>1, <2>2, ChecksAssumption
  <2>6. witness' = longer /\ attested' = attested
    BY <1>3 DEF longer, ledgerVars
  <2> QED
    BY <1>0, <1>3, <2>2, <2>4, <2>5, <2>6 DEF ledgerVars, Recorded
<1>4. CASE Witness
  BY <1>3, <1>4 DEF Witness
<1>5. CASE WitnessElse
  BY <1>3, <1>5 DEF WitnessElse
<1>6. CASE AttestWitness
  <2>1. Len(witness) \in 0 .. MaxWitness
    BY <1>6, LenProperties, ChecksAssumption DEF AttestWitness, Records
  <2> QED
    BY <1>0, <1>6, <2>1 DEF AttestWitness, ledgerVars, Recorded
<1>7. CASE Retain
  BY <1>0, <1>7 DEF Retain, ledgerVars, witnessVars, Recorded
<1>8. CASE Attack
  <2>1. attacks' \in 0 .. MaxAttacks
    BY <1>8, ChecksAssumption DEF Attack
  <2>2. CASE RollBack
    <3>1. ASSUME ledger # Damaged, NEW n \in 0 .. Len(ledger) - 1
          PROVE  SubSeq(ledger, 1, n) \in Heads
      <4> DEFINE shorter == SubSeq(ledger, 1, n)
      <4>1. ledger \in Seq(Bodies) /\ Len(ledger) <= MaxLog /\ Len(ledger) \in Nat
        BY <3>1, HeadsAre, HeadLength
      <4>2. \A i \in 1 .. n : ledger[i] \in Bodies
        BY <4>1, ElementOfSeq
      <4>3. shorter \in Seq(Bodies) /\ Len(shorter) = n
        BY <4>1, <4>2, SubSeqProperties
      <4> HIDE DEF shorter
      <4>4. shorter \in Heads
        BY <4>1, <4>3, HeadsAre, ChecksAssumption
      <4> QED
        BY <4>4 DEF shorter
    <3> QED
      BY <1>0, <2>1, <2>2, <3>1 DEF RollBack, witnessVars, Recorded
  <2>3. CASE ReplaySidecar
    BY <1>0, <2>1, <2>3 DEF ReplaySidecar, witnessVars, Recorded
  <2>4. CASE RollBackWitness
    <3>1. ASSUME witness # Damaged, NEW n \in 0 .. Len(witness) - 1,
                 witness' = SubSeq(witness, 1, n), witness_sidecar' = n,
                 UNCHANGED <<ledgerVars, checkpoint>>
          PROVE  FilesTyped' /\ attested \subseteq attested'
      <4> DEFINE shorter == SubSeq(witness, 1, n)
      <4>1. witness \in Records /\ Len(witness) \in Nat
        BY <3>1, LenProperties DEF Records
      <4>2. \A i \in 1 .. n : witness[i] \in Heads \cup {Unrelated}
        BY <4>1, ElementOfSeq DEF Records
      <4>3. /\ shorter \in Records /\ Len(shorter) = n
            /\ \A i \in 1 .. n : shorter[i] = witness[i]
        BY <4>1, <4>2, SubSeqProperties DEF Records
      <4>4. DOMAIN shorter = 1 .. n /\ DOMAIN witness = 1 .. Len(witness)
        BY <4>1, <4>3, LenProperties DEF Records
      <4> HIDE DEF shorter
      <4>5. Recorded(shorter)
        BY <4>1, <4>3, <4>4 DEF Recorded, ToSet
      <4>6. n \in 0 .. MaxWitness
        BY <4>1, ChecksAssumption
      <4>7. witness' = shorter /\ attested' = attested
        BY <3>1 DEF shorter, ledgerVars
      <4>8. Len(witness') <= MaxWitness /\ Recorded(witness)'
        BY <4>3, <4>5, <4>6, <4>7 DEF Recorded
      <4> QED
        BY <1>0, <2>1, <3>1, <4>3, <4>6, <4>7, <4>8 DEF ledgerVars
    <3>2. CASE witness' = Damaged /\ UNCHANGED witness_sidecar
      <4>1. Damaged \notin Records
        BY ValuesApart DEF Records
      <4> QED
        BY <1>0, <2>1, <2>4, <3>2, <4>1 DEF RollBackWitness, ledgerVars
    <3>3. CASE witness_sidecar' \in {Forged, None} /\ UNCHANGED witness
      BY <1>0, <2>1, <2>4, <3>3 DEF RollBackWitness, ledgerVars, Recorded
    <3> QED
      BY <2>4, <3>1, <3>2, <3>3 DEF RollBackWitness
  <2>5. CASE SpoilCheckpoint
    BY <1>0, <2>1, <2>5 DEF SpoilCheckpoint, ledgerVars, witnessVars, Recorded
  <2> QED
    BY <1>8, <2>2, <2>3, <2>4, <2>5 DEF Attack
<1> QED
  BY <1>1, <1>2, <1>4, <1>5, <1>6, <1>7, <1>8 DEF Environment
-----------------------------------------------------------------------------
(* How far a check has come, and what it knows by then.                    *)

Alone == request.entry = "verify_witnessed_head"

Passing == pc = "pass" \/ verdict = "pass"

HeadJudged ==
  \/ Passing
  \/ ~Alone /\ pc \in {"witness sidecar", "witness ledger", "checkpoint"}

WitnessLedgerJudged ==
  /\ "witness" \in request.checks
  /\ \/ Passing \/ pc = "checkpoint"
     \/ Alone /\ pc = "ledger"

WitnessJudged ==
  "witness" \in request.checks /\ (Passing \/ pc = "checkpoint")

\* Which steps a check takes follows from what was asked for.
OnRoute ==
  /\ Alone => pc \in {"witness ledger", "witness sidecar", "ledger", "pass", "done"}
  /\ pc \in {"witness sidecar", "witness ledger"} => "witness" \in request.checks
  /\ pc \in {"checkpoint file", "checkpoint"} => "checkpoint" \in request.checks

Known ==
  /\ pc = "head" => seen.ledger \in Heads \cup {Damaged}
  /\ HeadJudged => seen.ledger \in Heads
  /\ HeadJudged /\ "head" \in request.checks =>
       seen.ledger \in attested /\ seen.sidecar = seen.ledger
  /\ Alone /\ pc = "witness sidecar" => seen.witness \in Records
  /\ WitnessLedgerJudged =>
       /\ seen.witness \in Records
       /\ WitnessLedgerFailure(seen.witness, seen.witness_sidecar) = None
  /\ WitnessJudged => WitnessFailure(seen.ledger, seen.witness) = None
  /\ Passing /\ "checkpoint" \in request.checks =>
       CheckpointFailure(seen.ledger, seen.checkpoint) = None

\* A witness ledger damaged before the check began is never read as sound.
WitnessLost ==
  /\ at_start.witness \in Records \cup {Damaged}
  /\ at_start.witness = Damaged =>
       witness = Damaged /\ seen.witness \in {None, Damaged}

Judged == request # None => OnRoute /\ Known /\ WitnessLost

IInv == Typed /\ Judged

\* What the callers may ask for.
LEMMA RequestsAre ==
  ASSUME NEW r \in Requests
  PROVE  /\ r.entry \in {"cli", "verify_chain", "verify_witnessed_head"}
         /\ r.checks \subseteq CheckNames
         /\ r.entry = "verify_witnessed_head" => r.checks = {"witness"}
         /\ r.entry = "verify_chain" => r.checks \subseteq {"head"}
<1>1. CASE r \in [entry : {"cli"}, checks : SUBSET CheckNames]
  BY <1>1
<1>2. CASE r \in [entry : {"verify_chain"}, checks : SUBSET {"head"}]
  BY <1>2 DEF CheckNames
<1>3. CASE r \in [entry : {"verify_witnessed_head"}, checks : {{"witness"}}]
  BY <1>3 DEF CheckNames
<1> QED
  BY <1>1, <1>2, <1>3, ChecksAssumption

\* What is on file is what a check may read.
LEMMA FilesRead == FilesTyped => Files \in Readings
  BY DEF FilesTyped, Files, Readings

\* Reading a file leaves what was read of the others.
LEMMA ReadLedger ==
  ASSUME seen \in Readings, NEW v \in Heads \cup {Damaged}, Read("ledger", v)
  PROVE  /\ seen' \in Readings /\ seen'.ledger = v
         /\ seen'.sidecar = seen.sidecar /\ seen'.witness = seen.witness
         /\ seen'.witness_sidecar = seen.witness_sidecar
         /\ seen'.checkpoint = seen.checkpoint
  BY DEF Read, Readings

LEMMA ReadSidecar ==
  ASSUME seen \in Readings, NEW v \in Heads \cup {Forged, None}, Read("sidecar", v)
  PROVE  /\ seen' \in Readings /\ seen'.sidecar = v
         /\ seen'.ledger = seen.ledger /\ seen'.witness = seen.witness
         /\ seen'.witness_sidecar = seen.witness_sidecar
         /\ seen'.checkpoint = seen.checkpoint
  BY DEF Read, Readings

LEMMA ReadWitness ==
  ASSUME seen \in Readings, NEW v \in Records \cup {Damaged}, Read("witness", v)
  PROVE  /\ seen' \in Readings /\ seen'.witness = v
         /\ seen'.ledger = seen.ledger /\ seen'.sidecar = seen.sidecar
         /\ seen'.witness_sidecar = seen.witness_sidecar
         /\ seen'.checkpoint = seen.checkpoint
  BY DEF Read, Readings

LEMMA ReadWitnessCount ==
  ASSUME seen \in Readings, NEW v \in 0 .. MaxWitness \cup {Forged, None},
         Read("witness_sidecar", v)
  PROVE  /\ seen' \in Readings /\ seen'.witness_sidecar = v
         /\ seen'.ledger = seen.ledger /\ seen'.sidecar = seen.sidecar
         /\ seen'.witness = seen.witness
         /\ seen'.checkpoint = seen.checkpoint
  BY DEF Read, Readings

LEMMA ReadCheckpoint ==
  ASSUME seen \in Readings, NEW v \in Heads \cup {Forged, None},
         Read("checkpoint", v)
  PROVE  /\ seen' \in Readings /\ seen'.checkpoint = v
         /\ seen'.ledger = seen.ledger /\ seen'.sidecar = seen.sidecar
         /\ seen'.witness = seen.witness
         /\ seen'.witness_sidecar = seen.witness_sidecar
  BY DEF Read, Readings
-----------------------------------------------------------------------------
(* One step of a check.                                                    *)

\* A comparison either fails and ends the check, or lets it go on.
LEMMA Verdicts ==
  ASSUME NEW failure \in Failures \cup {None}, NEW step,
         Unless(failure, step), verdict = None
  PROVE  \/ /\ failure # None /\ verdict' = failure /\ pc' = "done"
            /\ verdict' \in Failures /\ verdict' # "pass"
         \/ failure = None /\ pc' = step /\ verdict' = None
  BY FailuresReport DEF Unless, Report, Continue

\* A check that failed claims nothing.
LEMMA FailedJudged ==
  ASSUME pc' = "done", verdict' # "pass"
  PROVE  OnRoute' /\ Known'
<1>1. ~ Passing'
  BY DEF Passing
<1> QED
  BY <1>1 DEF OnRoute, Known, HeadJudged, WitnessLedgerJudged, WitnessJudged

LEMMA StartJudged ==
  ASSUME IInv, Start, UNCHANGED fileVars, UNCHANGED moves
  PROVE  CheckTyped' /\ Judged'
<1> USE DEF IInv, Typed
<1>1. PICK r \in Requests : request' = r /\ pc' = FirstStep(r)
  BY DEF Start
<1>2. pc = "start" /\ request = None /\ verdict = None
  BY DEF Start, CheckTyped
<1>3. seen' = Unread /\ verdict' = None /\ seen = Unread
  BY <1>2 DEF Start, CheckTyped
<1>4. at_start' \in Readings
  BY FilesRead DEF Start
<1>5. at_start' = Files /\ UNCHANGED <<witness, attested>>
  BY DEF Start, fileVars, witnessVars, ledgerVars
<1>6. seen.witness = None /\ seen.checkpoint = None
  BY <1>3 DEF Unread
<1>7. r # None
  BY ValuesApart
<1>8. /\ pc' \in {"witness ledger", "checkpoint file", "ledger"}
      /\ pc' = "witness ledger" <=> r.entry = "verify_witnessed_head"
      /\ pc' = "checkpoint file" => "checkpoint" \in r.checks
  BY <1>1 DEF FirstStep
<1>9. CheckTyped'
  BY <1>1, <1>3, <1>4, <1>5, <1>6, <1>7, <1>8 DEF CheckTyped, Steps, Recorded
<1>10. OnRoute'
  BY <1>1, <1>8, RequestsAre DEF OnRoute, Alone
<1>11. ~Passing'
  BY <1>3, <1>8, FailuresReport DEF Passing
<1>12. Known'
  BY <1>1, <1>8, <1>11
  DEF Known, Alone, HeadJudged, WitnessLedgerJudged, WitnessJudged
<1>13. WitnessLost'
  BY <1>3, <1>5, <1>6 DEF WitnessLost, Files, FilesTyped
<1> QED
  BY <1>9, <1>10, <1>12, <1>13 DEF Judged

LEMMA ReadCheckpointFileJudged ==
  ASSUME IInv, ReadCheckpointFile, UNCHANGED fileVars, UNCHANGED moves
  PROVE  CheckTyped' /\ Judged'
<1> USE DEF IInv, Typed
<1>1. checkpoint \in Heads \cup {Forged, None}
  BY DEF FilesTyped
<1>2. /\ seen' \in Readings /\ seen'.checkpoint = checkpoint
      /\ seen'.witness = seen.witness
  BY <1>1, ReadCheckpoint DEF ReadCheckpointFile, CheckTyped
<1>3. /\ pc = "checkpoint file" /\ pc' = "ledger" /\ verdict = None /\ verdict' = None
      /\ request' = request /\ request # None /\ at_start' = at_start
  BY DEF ReadCheckpointFile, Continue, CheckTyped
<1>4. UNCHANGED <<witness, attested, checkpoint, moves>>
  BY DEF fileVars, witnessVars, ledgerVars
<1>5. CheckTyped'
  BY <1>2, <1>3, <1>4 DEF FilesTyped, CheckTyped, Steps, Recorded
<1>6. OnRoute /\ WitnessLost
  BY <1>3 DEF Judged
<1>7. ~Passing' /\ ~Alone'
  BY <1>3, <1>6, FailuresReport DEF Passing, Alone, OnRoute
<1>8. OnRoute' /\ Known'
  BY <1>3, <1>7
  DEF OnRoute, Known, HeadJudged, WitnessLedgerJudged, WitnessJudged
<1>9. WitnessLost'
  BY <1>2, <1>3, <1>4, <1>6 DEF WitnessLost
<1> QED
  BY <1>5, <1>8, <1>9 DEF Judged

\* Given a sound witness ledger, every ledger is judged, and only one that
\* verifies passes.
LEMMA WitnessJudges ==
  ASSUME NEW records \in Records, NEW att \in 0 .. MaxWitness \cup {Forged, None},
         WitnessLedgerFailure(records, att) = None,
         NEW head \in Heads \cup {Damaged}
  PROVE  /\ WitnessFailure(head, records) \in Failures \cup {None}
         /\ WitnessFailure(head, records) = None => head \in Heads
<1>1. att \in Nat \cup {None, Forged}
  BY ChecksAssumption
<1>2. PICK best \in Heads : Best(records) = {best}
  BY <1>1, WitnessLedgerVerdict
<1>3. CASE head \in Heads
  BY <1>2, <1>3, WitnessVerdict DEF Failures
<1>4. CASE head = Damaged
  BY <1>4, DamagedVerdict, FailuresReport DEF Failures
<1> QED
  BY <1>3, <1>4

\* Any witness ledger is judged, and only a sound one passes.
LEMMA WitnessLedgerJudges ==
  ASSUME NEW records \in Records \cup {Damaged},
         NEW att \in 0 .. MaxWitness \cup {Forged, None}
  PROVE  /\ WitnessLedgerFailure(records, att) \in Failures \cup {None}
         /\ WitnessLedgerFailure(records, att) = None => records \in Records
<1>1. att \in Nat \cup {None, Forged}
  BY ChecksAssumption
<1>2. CASE records \in Records
  BY <1>1, <1>2, WitnessLedgerVerdict DEF Failures
<1>3. CASE records = Damaged
  BY <1>3, DamagedVerdict, FailuresReport DEF Failures
<1> QED
  BY <1>2, <1>3

LEMMA WalkLedgerJudged ==
  ASSUME IInv, WalkLedger, UNCHANGED fileVars, UNCHANGED moves
  PROVE  CheckTyped' /\ Judged'
<1> USE DEF IInv, Typed
<1>1. /\ pc = "ledger" /\ verdict = None /\ request # None
      /\ request' = request /\ at_start' = at_start
      /\ seen \in Readings /\ Read("ledger", ledger)
  BY DEF WalkLedger, CheckTyped
<1>2. /\ seen' \in Readings /\ seen'.ledger = ledger
      /\ seen'.witness = seen.witness /\ seen'.checkpoint = seen.checkpoint
      /\ seen'.witness_sidecar = seen.witness_sidecar
      /\ seen'.sidecar = seen.sidecar
      /\ ledger \in Heads \cup {Damaged}
  BY <1>1, ReadLedger DEF FilesTyped
<1>3. UNCHANGED <<witness, attested, checkpoint, moves>>
  BY DEF fileVars, witnessVars, ledgerVars
<1>4. OnRoute /\ WitnessLost /\ Known
  BY <1>1 DEF Judged
<1>5. WitnessLost'
  BY <1>1, <1>2, <1>3, <1>4 DEF WitnessLost
<1>6. CASE Alone
  <2>1. request.checks = {"witness"}
    BY <1>1, <1>6, RequestsAre DEF Alone, CheckTyped
  <2>2. /\ seen.witness \in Records
        /\ WitnessLedgerFailure(seen.witness, seen.witness_sidecar) = None
    BY <1>1, <1>4, <1>6, <2>1 DEF Known, WitnessLedgerJudged
  <2> DEFINE failure == WitnessFailure(ledger, seen.witness)
  <2>3. failure \in Failures \cup {None} /\ (failure = None => ledger \in Heads)
    BY <1>1, <1>2, <2>2, WitnessJudges DEF Readings
  <2>4. Unless(failure, "pass")
    BY <1>6 DEF WalkLedger, Alone
  <2> HIDE DEF failure
  <2>5. CASE verdict' = failure /\ pc' = "done" /\ failure \in Failures /\ failure # None
    <3>1. verdict' # "pass"
      BY <2>5, FailuresReport
    <3> QED
      BY <1>1, <1>2, <1>3, <1>5, <2>5, <3>1, FailedJudged
      DEF CheckTyped, Steps, Recorded, Judged
  <2>6. CASE failure = None /\ pc' = "pass" /\ verdict' = None
    <3>1. CheckTyped'
      BY <1>1, <1>2, <1>3, <2>6 DEF CheckTyped, Steps, Recorded
    <3>2. OnRoute'
      BY <1>1, <2>6 DEF OnRoute
    <3>3. Known'
      BY <1>1, <1>2, <2>1, <2>2, <2>3, <2>6
      DEF Known, failure
    <3> QED
      BY <1>5, <3>1, <3>2, <3>3 DEF Judged
  <2> QED
    BY <1>1, <2>3, <2>4, <2>5, <2>6, Verdicts
<1>7. CASE ~Alone
  <2>1. pc' = "head" /\ verdict' = None
    BY <1>1, <1>7 DEF WalkLedger, Alone, Continue
  <2>2. ~Passing' /\ ~Alone'
    BY <1>1, <1>7, <2>1, FailuresReport DEF Passing, Alone
  <2>3. CheckTyped'
    BY <1>1, <1>2, <1>3, <2>1 DEF CheckTyped, Steps, Recorded
  <2>4. OnRoute' /\ Known'
    BY <1>1, <1>2, <2>1, <2>2
    DEF OnRoute, Known, HeadJudged, WitnessLedgerJudged, WitnessJudged
  <2> QED
    BY <1>5, <2>3, <2>4 DEF Judged
<1> QED
  BY <1>6, <1>7

LEMMA HeadCheckJudged ==
  ASSUME IInv, HeadCheck, UNCHANGED fileVars, UNCHANGED moves
  PROVE  CheckTyped' /\ Judged'
<1> USE DEF IInv, Typed
<1>1. /\ pc = "head" /\ verdict = None /\ request # None
      /\ request' = request /\ at_start' = at_start
      /\ seen \in Readings
  BY DEF HeadCheck, CheckTyped
<1>2. UNCHANGED <<witness, attested, checkpoint, moves>>
  BY DEF fileVars, witnessVars, ledgerVars
<1>3. OnRoute /\ WitnessLost /\ seen.ledger \in Heads \cup {Damaged}
  BY <1>1 DEF Judged, Known
<1>4. ~Alone
  BY <1>1, <1>3 DEF OnRoute
<1> DEFINE failure ==
      IF "head" \in request.checks
      THEN IF request.entry = "cli" /\ sidecar = None
           THEN "head attestation missing"
           ELSE IF seen.ledger = Damaged THEN "chain"
           ELSE HeadFailure(seen.ledger, sidecar)
      ELSE IF seen.ledger = Damaged THEN "chain" ELSE None
<1>5. sidecar \in Heads \cup {Forged, None} /\ sidecar \in attested \cup {None, Forged}
  BY DEF FilesTyped
<1>6. failure \in Failures \cup {None}
  <2>1. ASSUME seen.ledger \in Heads
        PROVE  HeadFailure(seen.ledger, sidecar) \in Failures \cup {None}
    <3>1. HeadFailure(seen.ledger, sidecar) \in
            {None, "head attestation missing", "head attestation invalid",
             "truncated", "stale", "head forgery"}
      BY <1>5, <2>1, HeadVerdict
    <3> QED
      BY <3>1 DEF Failures
  <2> QED
    BY <1>3, <2>1 DEF Failures
<1>7. failure = None =>
        /\ seen.ledger \in Heads
        /\ "head" \in request.checks =>
             seen.ledger \in attested /\ sidecar = seen.ledger
  <2>1. ASSUME failure = None, "head" \in request.checks
        PROVE  /\ seen.ledger \in Heads /\ seen.ledger \in attested
               /\ sidecar = seen.ledger
    <3>1. seen.ledger \in Heads /\ HeadFailure(seen.ledger, sidecar) = None
      BY <1>3, <2>1, FailuresReport DEF Failures
    <3>2. seen.ledger = sidecar
      BY <1>5, <3>1, HeadVerdict
    <3> QED
      BY <1>5, <3>1, <3>2, NoHeads
  <2>2. ASSUME failure = None, "head" \notin request.checks
        PROVE  seen.ledger \in Heads
    BY <1>3, <2>2, FailuresReport DEF Failures
  <2> QED
    BY <2>1, <2>2
<1>8. Unless(failure, AfterHead(request.checks))
  BY FailuresReport DEF HeadCheck, Unless, Failures
<1>9. /\ seen' \in Readings /\ seen'.ledger = seen.ledger
      /\ "head" \in request.checks => seen'.sidecar = sidecar
      /\ seen'.witness = seen.witness /\ seen'.checkpoint = seen.checkpoint
      /\ seen'.witness_sidecar = seen.witness_sidecar
  BY <1>1, <1>5, ReadSidecar DEF HeadCheck
<1> HIDE DEF failure
<1>10. WitnessLost'
  BY <1>1, <1>2, <1>3, <1>9 DEF WitnessLost
<1>11. CASE verdict' = failure /\ pc' = "done" /\ failure \in Failures /\ failure # None
  <2>1. verdict' # "pass"
    BY <1>11, FailuresReport
  <2> QED
    BY <1>1, <1>2, <1>9, <1>10, <1>11, <2>1, FailedJudged
    DEF CheckTyped, Steps, Recorded, Judged
<1>12. CASE failure = None /\ pc' = AfterHead(request.checks) /\ verdict' = None
  <2>1. /\ pc' \in {"witness sidecar", "checkpoint", "pass"}
        /\ pc' = "witness sidecar" <=> "witness" \in request.checks
        /\ pc' = "checkpoint" => "checkpoint" \in request.checks
        /\ pc' = "pass" => "checkpoint" \notin request.checks
    BY <1>12 DEF AfterHead
  <2>2. ~Alone'
    BY <1>1, <1>4 DEF Alone
  <2>3. CheckTyped'
    BY <1>1, <1>2, <1>9, <1>12, <2>1 DEF CheckTyped, Steps, Recorded
  <2>4. OnRoute'
    BY <1>1, <2>1, <2>2 DEF OnRoute
  <2>5. ~WitnessLedgerJudged' /\ ~WitnessJudged'
    BY <1>1, <1>12, <2>1, <2>2, FailuresReport
    DEF WitnessLedgerJudged, WitnessJudged, Passing
  <2>6. Passing' => "checkpoint" \notin request'.checks
    BY <1>1, <1>12, <2>1, FailuresReport DEF Passing
  <2>7. Known'
    BY <1>1, <1>2, <1>7, <1>9, <1>12, <2>1, <2>2, <2>5, <2>6 DEF Known
  <2> QED
    BY <1>10, <2>3, <2>4, <2>7 DEF Judged
<1> QED
  BY <1>1, <1>6, <1>8, <1>11, <1>12, Verdicts

LEMMA ReadWitnessSidecarJudged ==
  ASSUME IInv, ReadWitnessSidecar, UNCHANGED fileVars, UNCHANGED moves
  PROVE  CheckTyped' /\ Judged'
<1> USE DEF IInv, Typed
<1>1. /\ pc = "witness sidecar" /\ verdict = None /\ request # None
      /\ request' = request /\ at_start' = at_start
      /\ seen \in Readings /\ Read("witness_sidecar", witness_sidecar)
  BY DEF ReadWitnessSidecar, CheckTyped
<1>2. /\ seen' \in Readings /\ seen'.ledger = seen.ledger
      /\ seen'.witness = seen.witness /\ seen'.checkpoint = seen.checkpoint
      /\ seen'.witness_sidecar = witness_sidecar /\ seen'.sidecar = seen.sidecar
      /\ witness_sidecar \in 0 .. MaxWitness \cup {Forged, None}
  BY <1>1, ReadWitnessCount DEF FilesTyped
<1>3. UNCHANGED <<witness, attested, checkpoint, moves>>
  BY DEF fileVars, witnessVars, ledgerVars
<1>4. OnRoute /\ WitnessLost /\ Known
  BY <1>1 DEF Judged
<1>5. WitnessLost'
  BY <1>1, <1>2, <1>3, <1>4 DEF WitnessLost
<1>6. "witness" \in request.checks /\ request \in Requests
  BY <1>1, <1>4 DEF OnRoute, CheckTyped
<1>7. request.entry = "cli" <=> ~Alone
  BY <1>6, RequestsAre DEF Alone
<1> DEFINE failure ==
      IF Alone THEN WitnessLedgerFailure(seen.witness, witness_sidecar)
      ELSE IF witness_sidecar = None THEN "witness ledger invalid" ELSE None
           step == IF Alone THEN "ledger" ELSE "witness ledger"
<1>8. Alone => seen.witness \in Records
  BY <1>1, <1>4 DEF Known
<1>9. failure \in Failures \cup {None}
  BY <1>2, <1>8, WitnessLedgerJudges DEF Failures
<1>10. Unless(failure, step)
  BY <1>7 DEF ReadWitnessSidecar
<1>11. failure = None /\ Alone =>
         WitnessLedgerFailure(seen'.witness, seen'.witness_sidecar) = None
  BY <1>2
<1> HIDE DEF failure
<1>12. CASE verdict' = failure /\ pc' = "done" /\ failure \in Failures /\ failure # None
  <2>1. verdict' # "pass"
    BY <1>12, FailuresReport
  <2> QED
    BY <1>1, <1>2, <1>3, <1>5, <1>12, <2>1, FailedJudged
    DEF CheckTyped, Steps, Recorded, Judged
<1>13. CASE failure = None /\ pc' = step /\ verdict' = None
  <2>1. CheckTyped'
    BY <1>1, <1>2, <1>3, <1>13 DEF CheckTyped, Steps, Recorded
  <2>2. Alone' = Alone /\ ~Passing'
    BY <1>1, <1>13, FailuresReport DEF Alone, Passing
  <2>3. OnRoute'
    BY <1>1, <1>6, <1>13, <2>2 DEF OnRoute
  <2>4. ~Alone => HeadJudged
    BY <1>1 DEF HeadJudged
  <2>5. Known'
    BY <1>1, <1>2, <1>3, <1>4, <1>8, <1>11, <1>13, <2>2, <2>4
    DEF Known, HeadJudged, WitnessLedgerJudged, WitnessJudged
  <2> QED
    BY <1>5, <2>1, <2>3, <2>5 DEF Judged
<1> QED
  BY <1>1, <1>9, <1>10, <1>12, <1>13, Verdicts

LEMMA WalkWitnessLedgerJudged ==
  ASSUME IInv, WalkWitnessLedger, UNCHANGED fileVars, UNCHANGED moves
  PROVE  CheckTyped' /\ Judged'
<1> USE DEF IInv, Typed
<1>1. /\ pc = "witness ledger" /\ verdict = None /\ request # None
      /\ request' = request /\ at_start' = at_start
      /\ seen \in Readings /\ Read("witness", witness)
  BY DEF WalkWitnessLedger, CheckTyped
<1>2. /\ seen' \in Readings /\ seen'.ledger = seen.ledger
      /\ seen'.witness = witness /\ seen'.checkpoint = seen.checkpoint
      /\ seen'.witness_sidecar = seen.witness_sidecar
      /\ seen'.sidecar = seen.sidecar
      /\ witness \in Records \cup {Damaged}
  BY <1>1, ReadWitness DEF FilesTyped
<1>3. UNCHANGED <<witness, attested, checkpoint, moves>>
  BY DEF fileVars, witnessVars, ledgerVars
<1>4. OnRoute /\ WitnessLost /\ Known
  BY <1>1 DEF Judged
<1>5. WitnessLost'
  BY <1>1, <1>2, <1>3, <1>4 DEF WitnessLost
<1>6. "witness" \in request.checks /\ request \in Requests
  BY <1>1, <1>4 DEF OnRoute, CheckTyped
<1>7. request.entry = "cli" <=> ~Alone
  BY <1>6, RequestsAre DEF Alone
<1>8. (Recorded(seen.witness))' \/ seen'.witness \notin Records
  BY <1>2, <1>3 DEF FilesTyped, Recorded
<1>9. seen.witness_sidecar \in 0 .. MaxWitness \cup {Forged, None}
  BY <1>1 DEF Readings
<1> DEFINE ledgerFailure == WitnessLedgerFailure(witness, seen.witness_sidecar)
           failure ==
      IF Alone THEN IF witness = Damaged THEN "witness ledger invalid" ELSE None
      ELSE IF ledgerFailure # None THEN ledgerFailure
      ELSE WitnessFailure(seen.ledger, witness)
           step == IF Alone THEN "witness sidecar"
                   ELSE AfterHead(request.checks \ {"witness"})
<1>10. ~Alone => HeadJudged /\ seen.ledger \in Heads
  BY <1>1, <1>4 DEF Known, HeadJudged
<1>11. ledgerFailure \in Failures \cup {None} /\ (ledgerFailure = None => witness \in Records)
  BY <1>2, <1>9, WitnessLedgerJudges
<1>12. ledgerFailure = None /\ ~Alone =>
         WitnessFailure(seen.ledger, witness) \in Failures \cup {None}
  BY <1>9, <1>10, <1>11, WitnessJudges
<1>13. failure \in Failures \cup {None}
  BY <1>11, <1>12 DEF Failures
<1>14. Unless(failure, step)
  BY <1>7 DEF WalkWitnessLedger
<1>15. failure = None /\ Alone => witness \in Records
  BY <1>2, FailuresReport DEF Failures
<1>16. failure = None /\ ~Alone =>
         /\ seen'.witness \in Records
         /\ WitnessLedgerFailure(seen'.witness, seen'.witness_sidecar) = None
         /\ WitnessFailure(seen'.ledger, seen'.witness) = None
  BY <1>2, <1>11
<1> HIDE DEF failure
<1>17. CASE verdict' = failure /\ pc' = "done" /\ failure \in Failures /\ failure # None
  <2>1. verdict' # "pass"
    BY <1>17, FailuresReport
  <2> QED
    BY <1>1, <1>2, <1>3, <1>5, <1>8, <1>17, <2>1, FailedJudged
    DEF CheckTyped, Steps, Recorded, Judged
<1>18. CASE failure = None /\ pc' = step /\ verdict' = None
  <2>1. /\ Alone => pc' = "witness sidecar"
        /\ ~Alone => pc' \in {"checkpoint", "pass"}
        /\ pc' = "checkpoint" => "checkpoint" \in request.checks
        /\ pc' = "pass" => "checkpoint" \notin request.checks
    BY <1>18 DEF AfterHead
  <2>2. CheckTyped'
    BY <1>1, <1>2, <1>3, <1>8, <1>18, <2>1 DEF CheckTyped, Steps, Recorded
  <2>3. Alone' = Alone /\ (Alone => ~Passing') /\ (Passing' => pc' = "pass")
    BY <1>1, <1>18, <2>1, FailuresReport DEF Alone, Passing
  <2>4. OnRoute'
    BY <1>1, <1>6, <2>1, <2>3 DEF OnRoute
  <2>5. Known'
    BY <1>1, <1>2, <1>3, <1>4, <1>10, <1>15, <1>16, <1>18, <2>1, <2>3
    DEF Known, HeadJudged, WitnessLedgerJudged, WitnessJudged
  <2> QED
    BY <1>5, <2>2, <2>4, <2>5 DEF Judged
<1> QED
  BY <1>1, <1>13, <1>14, <1>17, <1>18, Verdicts

LEMMA CheckCheckpointJudged ==
  ASSUME IInv, CheckCheckpoint, UNCHANGED fileVars, UNCHANGED moves
  PROVE  CheckTyped' /\ Judged'
<1> USE DEF IInv, Typed
<1>1. /\ pc = "checkpoint" /\ verdict = None /\ request # None
      /\ request' = request /\ at_start' = at_start /\ seen' = seen
      /\ seen \in Readings
  BY DEF CheckCheckpoint, CheckTyped
<1>2. UNCHANGED <<witness, attested, checkpoint, moves>>
  BY DEF fileVars, witnessVars, ledgerVars
<1>3. OnRoute /\ WitnessLost /\ Known
  BY <1>1 DEF Judged
<1>4. WitnessLost'
  BY <1>1, <1>2, <1>3 DEF WitnessLost
<1>5. ~Alone /\ HeadJudged /\ seen.ledger \in Heads
  BY <1>1, <1>3 DEF OnRoute, Known, HeadJudged
<1> DEFINE failure == CheckpointFailure(seen.ledger, seen.checkpoint)
<1>6. failure \in Failures \cup {None}
  <2>1. seen.checkpoint \in Heads \cup {None, Forged}
    BY <1>1 DEF Readings
  <2>2. failure \in {None, "checkpoint invalid", "checkpoint truncated",
                     "checkpoint rollback"}
    BY <1>5, <2>1, CheckpointVerdict
  <2> QED
    BY <2>2 DEF Failures
<1>7. Unless(failure, "pass")
  BY DEF CheckCheckpoint
<1>8. CASE verdict' = failure /\ pc' = "done" /\ failure \in Failures /\ failure # None
  <2> HIDE DEF failure
  <2>1. verdict' # "pass"
    BY <1>8, FailuresReport
  <2> QED
    BY <1>1, <1>2, <1>4, <1>8, <2>1, FailedJudged
    DEF CheckTyped, Steps, Recorded, Judged
<1>9. CASE failure = None /\ pc' = "pass" /\ verdict' = None
  <2>1. CheckTyped'
    BY <1>1, <1>2, <1>9 DEF CheckTyped, Steps, Recorded
  <2>2. OnRoute'
    BY <1>1, <1>5, <1>9 DEF OnRoute, Alone
  <2>3. Known'
    BY <1>1, <1>2, <1>3, <1>5, <1>9
    DEF Known, HeadJudged, WitnessLedgerJudged, WitnessJudged, Alone
  <2> QED
    BY <1>4, <2>1, <2>2, <2>3 DEF Judged
<1> HIDE DEF failure
<1> QED
  BY <1>1, <1>6, <1>7, <1>8, <1>9, Verdicts

LEMMA PassJudged ==
  ASSUME IInv, Pass, UNCHANGED fileVars, UNCHANGED moves
  PROVE  CheckTyped' /\ Judged'
<1> USE DEF IInv, Typed
<1>1. /\ pc = "pass" /\ request # None /\ pc' = "done" /\ verdict' = "pass"
      /\ request' = request /\ at_start' = at_start /\ seen' = seen
  BY DEF Pass, Report, CheckTyped
<1>2. UNCHANGED <<witness, attested, checkpoint, moves>>
  BY DEF fileVars, witnessVars, ledgerVars
<1>3. OnRoute /\ WitnessLost /\ Known
  BY <1>1 DEF Judged
<1>4. Passing /\ Passing' /\ Alone' = Alone
  BY <1>1 DEF Passing, Alone
<1>5. CheckTyped'
  BY <1>1, <1>2, FailuresReport DEF CheckTyped, Steps, Recorded
<1>6. OnRoute' /\ WitnessLost'
  BY <1>1, <1>2, <1>3, <1>4 DEF OnRoute, WitnessLost
<1>7. Known'
  BY <1>1, <1>2, <1>3, <1>4
  DEF Known, HeadJudged, WitnessLedgerJudged, WitnessJudged
<1> QED
  BY <1>5, <1>6, <1>7 DEF Judged
-----------------------------------------------------------------------------
(* The invariant of the checks.                                            *)

\* A damaged witness ledger stays damaged.
LEMMA WitnessStaysLost ==
  ASSUME Environment, witness = Damaged
  PROVE  witness' = Damaged
<1>1. CASE Attack
  <2>1. CASE RollBack
    BY <2>1 DEF RollBack, witnessVars
  <2>2. CASE ReplaySidecar
    BY <2>2 DEF ReplaySidecar, witnessVars
  <2>3. CASE RollBackWitness
    BY <2>3 DEF RollBackWitness
  <2>4. CASE SpoilCheckpoint
    BY <2>4 DEF SpoilCheckpoint, witnessVars
  <2> QED
    BY <1>1, <2>1, <2>2, <2>3, <2>4 DEF Attack
<1>2. CASE \/ \E b \in Bodies : AppendRecord(b)
           \/ Attest \/ Witness \/ WitnessElse \/ AttestWitness \/ Retain
  BY <1>2 DEF AppendRecord, Attest, Witness, WitnessElse, AttestWitness,
              Retain, witnessVars
<1> QED
  BY <1>1, <1>2 DEF Environment

\* What happens to the files while a check runs changes nothing it knows.
LEMMA EnvironmentJudged ==
  ASSUME IInv, Environment
  PROVE  IInv'
<1>1. FilesTyped' /\ attested \subseteq attested'
  BY EnvironmentTyped DEF IInv, Typed
<1>2. /\ request' = request /\ pc' = pc /\ seen' = seen /\ at_start' = at_start
      /\ verdict' = verdict /\ verdict = None
      /\ moves' = moves + (IF request = None THEN 0 ELSE 1)
  BY DEF Environment, checkVars
<1>3. CheckTyped'
  <2>1. request = None => moves' = 0
    BY <1>2 DEF IInv, Typed, CheckTyped
  <2>2. seen.witness \in Records => Recorded(seen.witness)'
    BY <1>1, <1>2 DEF IInv, Typed, CheckTyped, Recorded
  <2>3. seen.checkpoint \in attested' \cup {None, Forged}
    BY <1>1 DEF IInv, Typed, CheckTyped
  <2> QED
    BY <1>2, <2>1, <2>2, <2>3 DEF IInv, Typed, CheckTyped
<1>4. Judged'
  <2>1. /\ Alone' = Alone /\ Passing' = Passing /\ HeadJudged' = HeadJudged
        /\ WitnessLedgerJudged' = WitnessLedgerJudged
        /\ WitnessJudged' = WitnessJudged
    BY <1>2 DEF Alone, Passing, HeadJudged, WitnessLedgerJudged, WitnessJudged
  <2> SUFFICES ASSUME request # None PROVE (OnRoute /\ Known /\ WitnessLost)'
    BY <1>2 DEF Judged
  <2>2. OnRoute /\ Known /\ WitnessLost
    BY DEF IInv, Judged
  <2>3. OnRoute'
    BY <1>2, <2>1, <2>2 DEF OnRoute
  <2>4. Known'
    BY <1>1, <1>2, <2>1, <2>2 DEF Known
  <2>5. WitnessLost'
    BY <1>2, <2>2, WitnessStaysLost DEF WitnessLost
  <2> QED
    BY <2>3, <2>4, <2>5
<1> QED
  BY <1>1, <1>3, <1>4 DEF IInv, Typed

LEMMA CheckJudged ==
  ASSUME IInv, Check
  PROVE  IInv'
<1>1. UNCHANGED fileVars /\ UNCHANGED moves /\ UNCHANGED attacks
  BY DEF Check
<1>2. FilesTyped'
  BY <1>1 DEF IInv, Typed, FilesTyped, fileVars, ledgerVars, witnessVars, Recorded
<1>3. CheckTyped' /\ Judged'
  BY <1>1, StartJudged, ReadCheckpointFileJudged, WalkLedgerJudged,
     HeadCheckJudged, ReadWitnessSidecarJudged, WalkWitnessLedgerJudged,
     CheckCheckpointJudged, PassJudged DEF Check
<1> QED
  BY <1>2, <1>3 DEF IInv, Typed

\* The invariant holds at the start and is kept by every step.
LEMMA Inductive ==
  /\ Init => IInv
  /\ IInv /\ [Next]_vars => IInv'
<1>1. Init => IInv
  BY InitTyped DEF IInv, Judged, Init
<1>2. ASSUME IInv, UNCHANGED vars PROVE IInv'
  <2> USE <1>2 DEF vars, fileVars, ledgerVars, witnessVars, checkVars
  <2>1. FilesTyped' /\ CheckTyped'
    BY DEF IInv, Typed, FilesTyped, CheckTyped, Recorded
  <2>2. /\ Alone' = Alone /\ Passing' = Passing /\ HeadJudged' = HeadJudged
        /\ WitnessLedgerJudged' = WitnessLedgerJudged
        /\ WitnessJudged' = WitnessJudged
    BY DEF Alone, Passing, HeadJudged, WitnessLedgerJudged, WitnessJudged
  <2>3. OnRoute' = OnRoute /\ Known' = Known /\ WitnessLost' = WitnessLost
    BY <2>2 DEF OnRoute, Known, WitnessLost
  <2> QED
    BY <2>1, <2>3 DEF IInv, Typed, Judged
<1> QED
  BY <1>1, <1>2, EnvironmentJudged, CheckJudged DEF Next

LEMMA Invariant == Spec => []IInv
  BY Inductive, PTL DEF Spec

\* The files and every check keep their types, and a check is done exactly
\* when it has reported.
THEOREM TypeCorrect == Spec => []TypeOK
<1>1. IInv => TypeOK
  BY TypedImpliesTypeOK DEF IInv
<1> QED
  BY <1>1, Invariant, PTL

\* No request but one that was made passes a check.
LEMMA PassedRequested ==
  ASSUME IInv, NEW check, Passed(check)
  PROVE  request \in Requests /\ OnRoute /\ Known /\ WitnessLost /\ Passing
<1>1. verdict = "pass" /\ verdict # None
  BY FailuresReport DEF Passed
<1>2. request # None
  BY <1>1 DEF IInv, Typed, CheckTyped
<1> QED
  BY <1>1, <1>2 DEF IInv, Typed, CheckTyped, Judged, Passing

\* A head check passes only a ledger whose head the writer signed, whatever
\* files were replaced before or between the reads.
THEOREM OnlyAttestedPasses == Spec => []AttestedOnly
<1>1. IInv => AttestedOnly
  BY PassedRequested DEF AttestedOnly, Passed, Known, HeadJudged
<1> QED
  BY <1>1, Invariant, PTL

\* A rollback below a witnessed head, or a fork beside it, is caught unless
\* the witness ledger was rolled back as well.
THEOREM WitnessedHeadsKept == Spec => []WitnessedKept
<1>1. ASSUME IInv PROVE WitnessedKept
  <2> SUFFICES ASSUME Passed("witness"), IsPrefix(at_start.witness, seen.witness),
                      NEW head \in ToSet(at_start.witness) \ {Unrelated}
               PROVE  /\ Len(head) <= Len(seen.ledger)
                      /\ Len(head) = Len(seen.ledger) => head = seen.ledger
    BY DEF WitnessedKept
  <2>1. Known /\ WitnessLost /\ HeadJudged /\ WitnessLedgerJudged /\ WitnessJudged
    <3>1. Known /\ WitnessLost /\ Passing /\ "witness" \in request.checks
      BY <1>1, PassedRequested DEF Passed
    <3> QED
      BY <3>1, Zenon DEF HeadJudged, WitnessLedgerJudged, WitnessJudged
  <2>2. /\ seen.witness \in Records /\ seen.ledger \in Heads
        /\ WitnessLedgerFailure(seen.witness, seen.witness_sidecar) = None
        /\ WitnessFailure(seen.ledger, seen.witness) = None
    BY <2>1 DEF Known
  <2>3. seen.witness_sidecar \in Nat \cup {None, Forged}
    BY <1>1, ChecksAssumption DEF IInv, Typed, CheckTyped, Readings
  <2>4. Best(seen.witness) = {seen.ledger}
    <3>1. PICK best \in Heads : Best(seen.witness) = {best}
      BY <2>2, <2>3, WitnessLedgerVerdict
    <3> QED
      BY <2>2, <3>1, WitnessVerdict
  <2>5. at_start.witness \in Records
    BY <2>1, <2>2, ValuesApart DEF WitnessLost, Records
  <2>6. PICK n \in 1 .. Len(at_start.witness) : head = at_start.witness[n]
    BY <2>5, LenProperties DEF ToSet, Records
  <2>7. n \in 1 .. Len(seen.witness) /\ head = seen.witness[n]
    BY <2>2, <2>5, <2>6, PrefixPointwise, LenProperties DEF Records
  <2>8. n \in Witnessed(seen.witness)
    BY <2>2, <2>7, LenProperties DEF Witnessed, Records
  <2> QED
    BY <2>2, <2>4, <2>7, <2>8, BestIsLongest
<1> QED
  BY <1>1, Invariant, PTL

\* A rewrite of the history a checkpoint names is caught, whatever was rolled
\* back, appended, attested and witnessed again.
THEOREM CheckpointedHistoryKept == Spec => []CheckpointKept
<1>1. ASSUME IInv, Passed("checkpoint")
      PROVE  seen.checkpoint \in attested /\ IsPrefix(seen.checkpoint, seen.ledger)
  <2>1. Known /\ Passing /\ "checkpoint" \in request.checks
    BY <1>1, PassedRequested DEF Passed
  <2>2. /\ seen.ledger \in Heads
        /\ CheckpointFailure(seen.ledger, seen.checkpoint) = None
    BY <2>1 DEF Known, HeadJudged
  <2>3. /\ seen.checkpoint \in Heads \cup {None, Forged}
        /\ seen.checkpoint \in attested \cup {None, Forged}
    BY <1>1 DEF IInv, Typed, CheckTyped, Readings
  <2>4. seen.checkpoint \in Heads /\ IsPrefix(seen.checkpoint, seen.ledger)
    BY <2>2, <2>3, CheckpointVerdict
  <2> QED
    BY <2>3, <2>4, NoHeads
<1> QED
  BY <1>1, Invariant, PTL DEF CheckpointKept
-----------------------------------------------------------------------------
(* A ledger nobody attacked.                                               *)

\* Every attested head is one the ledger still extends.
FilesHonest ==
  /\ ledger \in Heads /\ witness \in Records
  /\ \A head \in attested : IsPrefix(head, ledger)
  /\ sidecar \in attested \cup {None}
  /\ checkpoint \in attested \cup {None}

CheckpointRead ==
  "checkpoint" \in request.checks /\ pc \notin {"start", "checkpoint file"}

CheckHonest ==
  /\ pc = "checkpoint file" => seen.ledger = None
  /\ seen.ledger \in Heads \cup {None}
  /\ seen.ledger \in Heads => IsPrefix(seen.ledger, ledger)
  /\ at_start.checkpoint \notin {None, Forged} =>
       /\ checkpoint \in attested
       /\ CheckpointRead =>
            /\ seen.checkpoint \in attested
            /\ seen.ledger \in Heads => IsPrefix(seen.checkpoint, seen.ledger)

Honest == attacks = 0 => FilesHonest /\ (request # None => CheckHonest)

\* While nothing moves, what was read is what is there.
CheckQuiet ==
  /\ at_start = Files
  /\ seen.ledger \in {None, ledger} /\ seen.sidecar \in {None, sidecar}
  /\ seen.witness \in {None, witness}
  /\ seen.witness_sidecar \in {None, witness_sidecar}
  /\ ~Alone /\ pc = "witness ledger" => seen.witness_sidecar = witness_sidecar
  /\ CheckpointRead => seen.checkpoint = checkpoint
  /\ verdict \in Failures => \E check \in request.checks : ~UpToDate(check)

Quiet == request # None /\ attacks = 0 /\ moves = 0 => CheckQuiet

JInv == IInv /\ Honest /\ Quiet /\ AccusationsTrue

\* The attested heads of a ledger nobody attacked are all on one branch, so
\* no two of them are the best witnessed.
LEMMA HonestBest ==
  ASSUME FilesTyped, FilesHonest, NEW records \in Records, Recorded(records)
  PROVE  /\ Best(records) \subseteq attested
         /\ \A g, h \in Best(records) : g = h
<1>1. \A n \in Witnessed(records) : records[n] \in attested
  BY DEF Recorded, ToSet, Witnessed
<1>2. Best(records) \subseteq {records[n] : n \in Witnessed(records)}
  BY DEF Best
<1>3. ASSUME NEW g \in Best(records), NEW h \in Best(records)
      PROVE  g = h
  <2>1. g \in attested /\ h \in attested
    BY <1>1, <1>2
  <2>2. g \in Heads /\ h \in Heads /\ ledger \in Heads
    BY <2>1 DEF FilesTyped, FilesHonest
  <2>3. IsPrefix(g, ledger) /\ IsPrefix(h, ledger)
    BY <2>1 DEF FilesHonest
  <2>4. Len(g) <= Len(h) /\ Len(h) <= Len(g)
    BY <1>2, BestIsLongest
  <2>5. Len(g) = Len(h)
    BY <2>2, <2>4, HeadLength
  <2>6. IsPrefix(g, h)
    BY <2>2, <2>3, <2>4, HeadLength, PrefixOrder
  <2> QED
    BY <2>2, <2>5, <2>6, HeadLength, PrefixOrder
<1> QED
  BY <1>1, <1>2, <1>3

\* An attested head is no longer than the ledger, and equal to it if as long.
LEMMA HonestHead ==
  ASSUME FilesTyped, FilesHonest, NEW head \in attested
  PROVE  /\ head \in Heads /\ IsPrefix(head, ledger)
         /\ Len(head) <= Len(ledger)
         /\ Len(head) = Len(ledger) => head = ledger
<1>1. head \in Heads /\ ledger \in Heads /\ IsPrefix(head, ledger)
  BY DEF FilesTyped, FilesHonest
<1>2. Len(head) = Len(ledger) => head = ledger
  BY <1>1, HeadLength, PrefixOrder
<1> QED
  BY <1>1, <1>2 DEF IsPrefix

\* Two heads the ledger extends are a prefix and a longer head.
LEMMA HonestPrefixes ==
  ASSUME NEW g \in Heads, NEW h \in Heads, NEW l \in Heads,
         IsPrefix(g, l), IsPrefix(h, l)
  PROVE  /\ Len(g) <= Len(h) => IsPrefix(g, h)
         /\ Len(g) = Len(h) => g = h
         /\ Len(g) < Len(h) => IsStrictPrefix(g, l)
<1>1. Len(g) <= Len(h) => IsPrefix(g, h)
  BY HeadLength, PrefixOrder
<1>2. Len(g) = Len(h) => g = h
  BY <1>1, HeadLength, PrefixOrder
<1>3. Len(g) < Len(h) => g # l
  BY HeadLength DEF IsPrefix
<1> QED
  BY <1>1, <1>2, <1>3 DEF IsStrictPrefix

\* The writer only appends and attests what is there, and the holder retains
\* only what was attested.
LEMMA WorkHonest ==
  ASSUME FilesTyped, FilesHonest, Environment, attacks = 0, attacks' = 0
  PROVE  /\ FilesHonest' /\ IsPrefix(ledger, ledger')
         /\ checkpoint' \in attested \cup {checkpoint}
<1> USE DEF FilesTyped, FilesHonest
<1>0. ledger \in Seq(Bodies) /\ IsPrefix(ledger, ledger)
  BY HeadLength, PrefixOrder
<1>1. ASSUME NEW b \in Bodies, AppendRecord(b)
      PROVE  FilesHonest' /\ IsPrefix(ledger, ledger') /\ checkpoint' = checkpoint
  <2>1. ledger' \in Heads
    <3>1. FilesTyped'
      BY EnvironmentTyped
    <3>2. ledger' \in Seq(Bodies) /\ ledger' = Append(ledger, b)
      BY <1>0, <1>1, AppendProperties DEF AppendRecord
    <3>3. Len(ledger') <= MaxLog
      BY <1>0, <1>1, <3>2, AppendProperties, HeadLength, ChecksAssumption
      DEF AppendRecord
    <3> QED
      BY <3>2, <3>3, HeadsAre
  <2>2. IsPrefix(ledger, ledger')
    BY <1>0, <1>1, PrefixAppend DEF AppendRecord
  <2>3. \A head \in attested : IsPrefix(head, ledger')
    BY <2>1, <2>2, HeadLength, PrefixOrder
  <2> QED
    BY <1>1, <2>1, <2>2, <2>3 DEF AppendRecord, witnessVars
<1>2. CASE Attest
  BY <1>0, <1>2 DEF Attest, witnessVars
<1>3. ASSUME NEW record \in attested \cup {Unrelated},
             witness' = Append(witness, record),
             UNCHANGED <<ledgerVars, witness_sidecar, checkpoint, attacks>>
      PROVE  FilesHonest' /\ IsPrefix(ledger, ledger') /\ checkpoint' = checkpoint
  <2>1. witness' \in Records
    BY <1>3, AppendProperties DEF Records
  <2> QED
    BY <1>0, <1>3, <2>1 DEF ledgerVars
<1>4. CASE Witness
  BY <1>3, <1>4 DEF Witness
<1>5. CASE WitnessElse
  BY <1>3, <1>5 DEF WitnessElse
<1>6. CASE AttestWitness
  BY <1>0, <1>6 DEF AttestWitness, ledgerVars
<1>7. CASE Retain
  BY <1>0, <1>7 DEF Retain, ledgerVars, witnessVars
<1>8. ~Attack
  BY DEF Attack
<1> QED
  BY <1>1, <1>2, <1>4, <1>5, <1>6, <1>7, <1>8 DEF Environment

\* No attack is undone.
LEMMA AttacksRemain ==
  ASSUME FilesTyped, Environment, attacks' = 0
  PROVE  attacks = 0
<1>1. attacks \in Nat
  BY ChecksAssumption DEF FilesTyped
<1>2. Attack => attacks' = attacks + 1
  BY DEF Attack
<1>3. ~Attack => attacks' = attacks
  BY DEF Environment, AppendRecord, Attest, Witness, WitnessElse,
         AttestWitness, Retain
<1> QED
  BY <1>1, <1>2, <1>3

\* Reports that accuse nobody of anything.
Harmless == {"chain", "head attestation missing", "head attestation invalid",
             "stale", "witness ledger invalid", "unwitnessed",
             "witnessed ledger invalid", "stale witness", "pass", None}

LEMMA HarmlessTrue ==
  /\ verdict \in Harmless => AccusationsTrue
  /\ verdict' \in Harmless => AccusationsTrue'
  BY FailuresReport DEF Harmless, AccusationsTrue, Failures

\* While the files change a check has made no accusation.
LEMMA EnvironmentAccuses ==
  ASSUME JInv, Environment
  PROVE  JInv'
<1>1. IInv' /\ FilesTyped
  BY EnvironmentJudged DEF JInv, IInv, Typed
<1>2. /\ request' = request /\ pc' = pc /\ seen' = seen /\ at_start' = at_start
      /\ verdict' = None
      /\ moves' = moves + (IF request = None THEN 0 ELSE 1)
  BY DEF Environment, checkVars
<1>3. AccusationsTrue'
  BY <1>2, HarmlessTrue DEF Harmless
<1>4. Quiet'
  <2>1. moves \in Nat
    BY <1>1 DEF FilesTyped
  <2>2. request # None => moves' # 0
    BY <1>2, <2>1
  <2> QED
    BY <1>2, <2>2 DEF Quiet
<1>5. ASSUME attacks' = 0
      PROVE  FilesHonest' /\ (request' # None => CheckHonest')
  <2>1. attacks = 0 /\ FilesHonest /\ (request # None => CheckHonest)
    BY <1>1, <1>5, AttacksRemain DEF JInv, Honest
  <2>2. /\ FilesHonest' /\ IsPrefix(ledger, ledger')
        /\ checkpoint' \in attested \cup {checkpoint}
        /\ attested \subseteq attested'
    BY <1>1, <1>5, <2>1, WorkHonest, EnvironmentTyped
  <2>3. ASSUME request # None PROVE CheckHonest'
    <3>1. CheckHonest
      BY <2>1, <2>3
    <3>2. CheckpointRead' = CheckpointRead
      BY <1>2 DEF CheckpointRead
    <3>3. ASSUME seen.ledger \in Heads PROVE IsPrefix(seen.ledger, ledger')
      <4>1. ledger \in Heads /\ ledger' \in Heads /\ IsPrefix(seen.ledger, ledger)
        BY <2>1, <2>2, <3>1, <3>3 DEF CheckHonest, FilesHonest
      <4> QED
        BY <2>2, <3>3, <4>1, HeadLength, PrefixOrder
    <3> QED
      BY <1>2, <2>2, <3>1, <3>2, <3>3 DEF CheckHonest
  <2> QED
    BY <1>2, <2>2, <2>3
<1> QED
  BY <1>1, <1>3, <1>4, <1>5 DEF JInv, Honest

\* What a step of a check has to show.
Accused == CheckHonest /\ AccusationsTrue /\ (moves = 0 => CheckQuiet)

LEMMA StartAccuses ==
  ASSUME JInv, Start, attacks = 0, UNCHANGED <<fileVars, attacks, moves>>
  PROVE  Accused'
<1>1. FilesHonest /\ FilesTyped /\ CheckTyped
  BY DEF JInv, Honest, IInv, Typed
<1>2. PICK r \in Requests : request' = r /\ pc' = FirstStep(r)
  BY DEF Start
<1>3. /\ at_start' = Files /\ seen' = Unread /\ verdict' = None
  BY <1>1 DEF Start, CheckTyped
<1>4. Files' = Files /\ UNCHANGED <<ledger, attested, checkpoint, moves>>
  BY DEF Files, fileVars, ledgerVars, witnessVars
<1>5. /\ seen'.ledger = None /\ seen'.sidecar = None /\ seen'.witness = None
      /\ seen'.witness_sidecar = None
  BY <1>3 DEF Unread
<1>6. /\ ~CheckpointRead' /\ (pc' = "witness ledger" => Alone')
  BY <1>2, RequestsAre DEF CheckpointRead, Alone, FirstStep
<1>7. at_start'.checkpoint \notin {None, Forged} => checkpoint \in attested
  BY <1>1, <1>3 DEF Files, FilesHonest
<1>8. CheckHonest'
  BY <1>4, <1>5, <1>6, <1>7, NoHeads DEF CheckHonest
<1>9. CheckQuiet'
  BY <1>3, <1>4, <1>5, <1>6, FailuresReport DEF CheckQuiet
<1>10. AccusationsTrue'
  BY <1>3, HarmlessTrue DEF Harmless
<1> QED
  BY <1>8, <1>9, <1>10 DEF Accused

LEMMA ReadCheckpointFileAccuses ==
  ASSUME JInv, ReadCheckpointFile, attacks = 0,
         UNCHANGED <<fileVars, attacks, moves>>
  PROVE  Accused'
<1>1. FilesHonest /\ FilesTyped /\ CheckTyped
  BY DEF JInv, Honest, IInv, Typed
<1>2. /\ pc = "checkpoint file" /\ pc' = "ledger" /\ verdict = None
      /\ verdict' = None /\ request' = request /\ request # None
      /\ at_start' = at_start /\ seen \in Readings
  BY <1>1 DEF ReadCheckpointFile, Continue, CheckTyped
<1>3. checkpoint \in Heads \cup {Forged, None}
  BY <1>1 DEF FilesTyped
<1>4. /\ seen'.checkpoint = checkpoint /\ seen'.ledger = seen.ledger
      /\ seen'.sidecar = seen.sidecar /\ seen'.witness = seen.witness
      /\ seen'.witness_sidecar = seen.witness_sidecar
  BY <1>2, <1>3, ReadCheckpoint DEF ReadCheckpointFile
<1>5. Files' = Files
      /\ UNCHANGED <<ledger, sidecar, witness, witness_sidecar, attested,
                     checkpoint, moves>>
  BY DEF Files, fileVars, ledgerVars, witnessVars
<1>6. CheckHonest /\ (moves = 0 => CheckQuiet)
  BY <1>2 DEF JInv, Honest, Quiet
<1>7. CheckHonest'
  BY <1>2, <1>4, <1>5, <1>6, NoHeads DEF CheckHonest
<1>8. moves' = 0 => CheckQuiet'
  BY <1>2, <1>4, <1>5, <1>6, FailuresReport DEF CheckQuiet
<1>9. AccusationsTrue'
  BY <1>2, HarmlessTrue DEF Harmless
<1> QED
  BY <1>7, <1>8, <1>9 DEF Accused

\* A witness ledger that records the head of a ledger nobody attacked, and is
\* attested itself, passes.
LEMMA CurrentWitnessPasses ==
  ASSUME FilesTyped, FilesHonest, ledger \in ToSet(witness),
         witness_sidecar = Len(witness)
  PROVE  /\ WitnessLedgerFailure(witness, witness_sidecar) = None
         /\ WitnessFailure(ledger, witness) = None
<1>1. witness \in Records /\ Recorded(witness) /\ ledger \in Heads
  BY DEF FilesTyped, FilesHonest
<1>2. PICK n \in DOMAIN witness : witness[n] = ledger
  BY DEF ToSet
<1>3. n \in Witnessed(witness)
  BY <1>1, <1>2, NoHeads DEF Witnessed
<1>4. PICK best \in Best(witness) : TRUE
  BY <1>1, <1>3, BestExists
<1>5. best \in attested /\ best \in Heads
  BY <1>1, <1>4, HonestBest DEF FilesTyped
<1>6. Len(ledger) <= Len(best)
  BY <1>1, <1>2, <1>3, <1>4, BestIsLongest
<1>7. best = ledger
  BY <1>1, <1>5, <1>6, HonestHead, HeadLength
<1>8. Best(witness) = {ledger}
  BY <1>1, <1>4, <1>7, HonestBest
<1>9. Len(witness) \in Nat
  BY <1>1, LenProperties DEF Records
<1> QED
  BY <1>1, <1>8, <1>9, WitnessLedgerVerdict, WitnessVerdict

\* Against a sound witness ledger that records attested heads only, a ledger
\* is behind the witnessed head or as it should be, but no fork.
LEMMA HonestWitnessVerdict ==
  ASSUME FilesTyped, FilesHonest, NEW records \in Records, Recorded(records),
         NEW att \in 0 .. MaxWitness \cup {Forged, None},
         WitnessLedgerFailure(records, att) = None,
         NEW head \in Heads, IsPrefix(head, ledger)
  PROVE  /\ WitnessFailure(head, records) \in {None, "rollback", "stale witness"}
         /\ WitnessFailure(head, records) = "rollback" => IsStrictPrefix(head, ledger)
<1>1. att \in Nat \cup {None, Forged}
  BY ChecksAssumption
<1>2. PICK best \in Heads : Best(records) = {best}
  BY <1>1, WitnessLedgerVerdict
<1>3. best \in attested
  BY <1>2, HonestBest
<1>4. IsPrefix(best, ledger) /\ ledger \in Heads
  BY <1>3 DEF FilesHonest
<1>5. /\ Len(head) = Len(best) => head = best
      /\ Len(head) < Len(best) => IsStrictPrefix(head, ledger)
  BY <1>2, <1>4, HonestPrefixes
<1> QED
  BY <1>2, <1>5, WitnessVerdict

LEMMA WalkLedgerAccuses ==
  ASSUME JInv, WalkLedger, attacks = 0, UNCHANGED <<fileVars, attacks, moves>>
  PROVE  Accused'
<1>1. FilesHonest /\ FilesTyped /\ CheckTyped
  BY DEF JInv, Honest, IInv, Typed
<1>2. /\ pc = "ledger" /\ verdict = None /\ request # None
      /\ request' = request /\ request \in Requests
      /\ at_start' = at_start /\ seen \in Readings
  BY <1>1 DEF WalkLedger, CheckTyped
<1>3. ledger \in Heads
  BY <1>1 DEF FilesHonest
<1>4. /\ seen'.ledger = ledger /\ seen'.checkpoint = seen.checkpoint
      /\ seen'.sidecar = seen.sidecar /\ seen'.witness = seen.witness
      /\ seen'.witness_sidecar = seen.witness_sidecar
  BY <1>2, <1>3, ReadLedger DEF WalkLedger
<1>5. Files' = Files
      /\ UNCHANGED <<ledger, sidecar, witness, witness_sidecar, attested,
                     checkpoint, moves>>
  BY DEF Files, fileVars, ledgerVars, witnessVars
<1>6. CheckHonest /\ (moves = 0 => CheckQuiet) /\ Known /\ OnRoute
  BY <1>2 DEF JInv, Honest, Quiet, IInv, Judged
<1>7. pc' # "start" /\ pc' # "checkpoint file" /\ pc' # "witness ledger"
  BY DEF WalkLedger, Unless, Report, Continue
<1>8. CheckpointRead' = CheckpointRead
  BY <1>2, <1>7 DEF CheckpointRead
<1>9. CheckHonest'
  <2>1. IsPrefix(ledger, ledger)
    BY <1>3, HeadLength, PrefixOrder
  <2>2. seen.checkpoint \in attested => IsPrefix(seen.checkpoint, ledger)
    BY <1>1 DEF FilesHonest
  <2> QED
    BY <1>2, <1>3, <1>4, <1>5, <1>6, <1>7, <1>8, <2>1, <2>2 DEF CheckHonest
<1> DEFINE failure == WitnessFailure(ledger, seen.witness)
<1>10. CASE Alone
  <2>1. request.checks = {"witness"}
    BY <1>2, <1>10, RequestsAre DEF Alone
  <2>2. /\ seen.witness \in Records
        /\ WitnessLedgerFailure(seen.witness, seen.witness_sidecar) = None
    BY <1>2, <1>6, <1>10, <2>1 DEF Known, WitnessLedgerJudged
  <2>3. /\ seen.witness_sidecar \in 0 .. MaxWitness \cup {Forged, None}
        /\ Recorded(seen.witness)
    BY <1>1, <2>2 DEF CheckTyped, Readings
  <2>4. failure \in {None, "rollback", "stale witness"}
        /\ failure # "rollback"
    <3>1. IsPrefix(ledger, ledger) /\ ~IsStrictPrefix(ledger, ledger)
      BY <1>3, HeadLength, PrefixOrder DEF IsStrictPrefix
    <3> QED
      BY <1>1, <1>3, <2>2, <2>3, <3>1, HonestWitnessVerdict
  <2>5. Unless(failure, "pass")
    BY <1>10 DEF WalkLedger, Alone
  <2> HIDE DEF failure
  <2>6. verdict' \in {None, "stale witness"} /\ (verdict' # None => failure # None)
    BY <1>2, <2>4, <2>5 DEF Unless, Report, Continue
  <2>7. AccusationsTrue'
    BY <2>6, HarmlessTrue DEF Harmless
  <2>8. ASSUME moves = 0, verdict' \in Failures
        PROVE  \E check \in request.checks : ~UpToDate(check)
    <3>1. seen.witness = witness /\ at_start = Files /\ failure # None
      BY <1>6, <2>2, <2>6, <2>8, FailuresReport, ValuesApart DEF CheckQuiet, Records
    <3>2. ~ (ledger \in ToSet(witness) /\ witness_sidecar = Len(witness))
      BY <1>1, <3>1, CurrentWitnessPasses DEF failure
    <3>3. ~UpToDate("witness")
      BY <3>1, <3>2 DEF UpToDate, Files
    <3> QED
      BY <2>1, <3>3
  <2>9. moves = 0 => CheckQuiet'
    <3>1. Alone'
      BY <1>2, <1>10 DEF Alone
    <3>2. moves = 0 /\ verdict' \in Failures
             => \E check \in request'.checks : ~UpToDate(check)'
      BY <1>2, <2>8 DEF UpToDate
    <3> QED
      BY <1>2, <1>4, <1>5, <1>6, <1>7, <1>8, <3>1, <3>2 DEF CheckQuiet
  <2> QED
    BY <1>5, <1>9, <2>7, <2>9 DEF Accused
<1>11. CASE ~Alone
  <2>1. verdict' = None
    BY <1>2, <1>11 DEF WalkLedger, Alone, Continue
  <2>2. AccusationsTrue'
    BY <2>1, HarmlessTrue DEF Harmless
  <2>3. moves = 0 => CheckQuiet'
    BY <1>2, <1>4, <1>5, <1>6, <1>7, <1>8, <2>1, FailuresReport DEF CheckQuiet
  <2> QED
    BY <1>5, <1>9, <2>2, <2>3 DEF Accused
<1> QED
  BY <1>10, <1>11

LEMMA HeadCheckAccuses ==
  ASSUME JInv, HeadCheck, attacks = 0, UNCHANGED <<fileVars, attacks, moves>>
  PROVE  Accused'
<1>1. FilesHonest /\ FilesTyped /\ CheckTyped
  BY DEF JInv, Honest, IInv, Typed
<1>2. /\ pc = "head" /\ verdict = None /\ request # None
      /\ request' = request /\ at_start' = at_start /\ seen \in Readings
  BY <1>1 DEF HeadCheck, CheckTyped
<1>3. Files' = Files
      /\ UNCHANGED <<ledger, sidecar, witness, witness_sidecar, attested,
                     checkpoint, moves>>
  BY DEF Files, fileVars, ledgerVars, witnessVars
<1>4. CheckHonest /\ (moves = 0 => CheckQuiet) /\ Known
  BY <1>2 DEF JInv, Honest, Quiet, IInv, Judged
<1>5. seen.ledger \in Heads /\ IsPrefix(seen.ledger, ledger) /\ seen.ledger # Damaged
  BY <1>2, <1>4, NoHeads, ValuesApart DEF Known, CheckHonest
<1>6. /\ sidecar \in attested \cup {None}
      /\ sidecar \in Heads \cup {Forged, None} /\ ledger \in Heads
  BY <1>1 DEF FilesTyped, FilesHonest
<1>7. /\ seen'.ledger = seen.ledger /\ seen'.sidecar \in {seen.sidecar, sidecar}
      /\ seen'.witness = seen.witness /\ seen'.checkpoint = seen.checkpoint
      /\ seen'.witness_sidecar = seen.witness_sidecar
  BY <1>2, <1>6, ReadSidecar DEF HeadCheck
<1> DEFINE failure ==
      IF request.entry = "cli" /\ sidecar = None THEN "head attestation missing"
      ELSE HeadFailure(seen.ledger, sidecar)
<1>8. /\ "head" \in request.checks
           => Unless(failure, AfterHead(request.checks))
      /\ "head" \notin request.checks => verdict' = None
  BY <1>2, <1>5 DEF HeadCheck, Continue
<1>9. pc' \notin {"start", "checkpoint file", "witness ledger"}
  BY DEF HeadCheck, AfterHead, Unless, Report, Continue
<1>10. CheckpointRead' = CheckpointRead
  BY <1>2, <1>9 DEF CheckpointRead
<1>11. CheckHonest'
  BY <1>2, <1>3, <1>4, <1>5, <1>7, <1>9, <1>10 DEF CheckHonest
<1>12. /\ failure \in Harmless \cup {"truncated"}
       /\ failure = "truncated" => IsStrictPrefix(seen.ledger, ledger)
       /\ sidecar = seen.ledger => failure = None
  <2> DEFINE compared == HeadFailure(seen.ledger, sidecar)
  <2>1. sidecar \in Heads => IsPrefix(sidecar, ledger)
    BY <1>1, <1>6, NoHeads DEF FilesHonest
  <2>2. /\ compared = None <=> seen.ledger = sidecar
        /\ compared = "truncated" => sidecar \in Heads /\ Len(seen.ledger) < Len(sidecar)
        /\ compared = "head forgery"
             => sidecar \in Heads /\ Len(seen.ledger) = Len(sidecar) /\ seen.ledger # sidecar
        /\ compared \in {None, "head attestation missing", "head attestation invalid",
                         "truncated", "stale", "head forgery"}
    BY <1>5, <1>6, HeadVerdict
  <2> HIDE DEF compared
  <2>3. sidecar \in Heads =>
          /\ Len(seen.ledger) = Len(sidecar) => seen.ledger = sidecar
          /\ Len(seen.ledger) < Len(sidecar) => IsStrictPrefix(seen.ledger, ledger)
    BY <1>5, <1>6, <2>1, HonestPrefixes
  <2>4. /\ compared \in Harmless \cup {"truncated"}
        /\ compared = "truncated" => IsStrictPrefix(seen.ledger, ledger)
    BY <2>2, <2>3 DEF Harmless
  <2>5. sidecar = None => sidecar # seen.ledger
    BY <1>5, NoHeads
  <2>6. failure = IF request.entry = "cli" /\ sidecar = None
                  THEN "head attestation missing" ELSE compared
    BY DEF compared
  <2> HIDE DEF failure
  <2> QED
    BY <2>2, <2>4, <2>5, <2>6 DEF Harmless
<1> HIDE DEF failure
<1>13. verdict' = IF "head" \in request.checks THEN failure ELSE None
  BY <1>2, <1>8 DEF Unless, Report, Continue
<1>14. AccusationsTrue'
  <2>1. CASE verdict' \in Harmless
    BY <2>1, HarmlessTrue
  <2>2. CASE verdict' = "truncated"
    <3>1. IsStrictPrefix(seen'.ledger, ledger')
      BY <1>3, <1>7, <1>12, <1>13, <2>2, FailuresReport DEF Failures
    <3> QED
      BY <2>2, <3>1 DEF AccusationsTrue
  <2> QED
    BY <1>12, <1>13, <2>1, <2>2 DEF Harmless
<1>15. ASSUME moves = 0, verdict' \in Failures
       PROVE  \E check \in request.checks : ~UpToDate(check)
  <2>1. "head" \in request.checks /\ failure # None
    BY <1>13, <1>15, FailuresReport
  <2>2. at_start = Files /\ seen.ledger = ledger
    BY <1>4, <1>5, <1>15, NoHeads DEF CheckQuiet
  <2>3. sidecar # ledger
    BY <1>12, <2>1, <2>2
  <2>4. ~UpToDate("head")
    BY <2>2, <2>3 DEF UpToDate, Files
  <2> QED
    BY <2>1, <2>4
<1>16. moves = 0 => CheckQuiet'
  <2>1. moves = 0 /\ verdict' \in Failures
           => \E check \in request'.checks : ~UpToDate(check)'
    BY <1>2, <1>15 DEF UpToDate
  <2> QED
    BY <1>2, <1>3, <1>4, <1>7, <1>9, <1>10, <2>1 DEF CheckQuiet
<1> QED
  BY <1>3, <1>11, <1>14, <1>16 DEF Accused

LEMMA ReadWitnessSidecarAccuses ==
  ASSUME JInv, ReadWitnessSidecar, attacks = 0,
         UNCHANGED <<fileVars, attacks, moves>>
  PROVE  Accused'
<1>1. FilesHonest /\ FilesTyped /\ CheckTyped
  BY DEF JInv, Honest, IInv, Typed
<1>2. /\ pc = "witness sidecar" /\ verdict = None /\ request # None
      /\ request' = request /\ request \in Requests
      /\ at_start' = at_start /\ seen \in Readings
  BY <1>1 DEF ReadWitnessSidecar, CheckTyped
<1>3. Files' = Files
      /\ UNCHANGED <<ledger, sidecar, witness, witness_sidecar, attested,
                     checkpoint, moves>>
  BY DEF Files, fileVars, ledgerVars, witnessVars
<1>4. CheckHonest /\ (moves = 0 => CheckQuiet) /\ Known /\ OnRoute
  BY <1>2 DEF JInv, Honest, Quiet, IInv, Judged
<1>5. witness_sidecar \in 0 .. MaxWitness \cup {Forged, None}
  BY <1>1 DEF FilesTyped
<1>6. /\ seen'.ledger = seen.ledger /\ seen'.sidecar = seen.sidecar
      /\ seen'.witness = seen.witness /\ seen'.checkpoint = seen.checkpoint
      /\ seen'.witness_sidecar = witness_sidecar
  BY <1>2, <1>5, ReadWitnessCount DEF ReadWitnessSidecar
<1>7. pc' \notin {"start", "checkpoint file"}
  BY DEF ReadWitnessSidecar, Unless, Report, Continue
<1>8. CheckpointRead' = CheckpointRead /\ Alone' = Alone
  BY <1>2, <1>7 DEF CheckpointRead, Alone
<1>9. CheckHonest'
  BY <1>2, <1>3, <1>4, <1>6, <1>7, <1>8 DEF CheckHonest
<1>10. "witness" \in request.checks /\ (request.entry = "cli" <=> ~Alone)
  BY <1>2, <1>4, RequestsAre DEF OnRoute, Alone
<1> DEFINE failure ==
      IF Alone THEN WitnessLedgerFailure(seen.witness, witness_sidecar)
      ELSE IF witness_sidecar = None THEN "witness ledger invalid" ELSE None
<1>11. Unless(failure, IF Alone THEN "ledger" ELSE "witness ledger")
  BY <1>10 DEF ReadWitnessSidecar
<1>12. Alone => seen.witness \in Records /\ Recorded(seen.witness)
  BY <1>1, <1>2, <1>4 DEF Known, CheckTyped
<1>13. failure \in Harmless
  <2>1. CASE Alone
    <3>1. witness_sidecar \in Nat \cup {None, Forged}
      BY <1>5, ChecksAssumption
    <3>2. failure # "equivocation"
      BY <1>1, <1>12, <2>1, <3>1, HonestBest, WitnessLedgerVerdict
    <3>3. failure \in {None, "witness ledger invalid", "equivocation", "unwitnessed"}
      BY <1>12, <2>1, <3>1, WitnessLedgerVerdict
    <3> QED
      BY <3>2, <3>3 DEF Harmless
  <2>2. CASE ~Alone
    BY <2>2 DEF Harmless
  <2> QED
    BY <2>1, <2>2
<1>14. moves = 0 /\ failure # None
         => ~ (ledger \in ToSet(witness) /\ witness_sidecar = Len(witness))
  <2>1. CASE Alone /\ moves = 0
    <3>1. seen.witness = witness
      BY <1>4, <1>12, <2>1, ValuesApart DEF CheckQuiet, Records
    <3> QED
      BY <1>1, <2>1, <3>1, CurrentWitnessPasses
  <2>2. CASE ~Alone
    <3>1. Len(witness) # None
      BY <1>1, LenProperties, ValuesApart DEF FilesHonest, Records
    <3> QED
      BY <2>2, <3>1
  <2> QED
    BY <2>1, <2>2
<1> HIDE DEF failure
<1>15. verdict' = failure /\ (failure = None \/ pc' = "done")
  BY <1>2, <1>11 DEF Unless, Report, Continue
<1>16. AccusationsTrue'
  BY <1>13, <1>15, HarmlessTrue
<1>17. ASSUME moves = 0, verdict' \in Failures
       PROVE  \E check \in request.checks : ~UpToDate(check)
  <2>1. at_start = Files /\ failure # None
    BY <1>4, <1>15, <1>17, FailuresReport DEF CheckQuiet
  <2>2. ~UpToDate("witness")
    BY <1>14, <1>17, <2>1 DEF UpToDate, Files
  <2> QED
    BY <1>10, <2>2
<1>18. moves = 0 => CheckQuiet'
  <2>1. moves = 0 /\ verdict' \in Failures
           => \E check \in request'.checks : ~UpToDate(check)'
    BY <1>2, <1>17 DEF UpToDate
  <2> QED
    BY <1>2, <1>3, <1>4, <1>6, <1>7, <1>8, <2>1 DEF CheckQuiet
<1> QED
  BY <1>3, <1>9, <1>16, <1>18 DEF Accused

LEMMA WalkWitnessLedgerAccuses ==
  ASSUME JInv, WalkWitnessLedger, attacks = 0,
         UNCHANGED <<fileVars, attacks, moves>>
  PROVE  Accused'
<1>1. FilesHonest /\ FilesTyped /\ CheckTyped
  BY DEF JInv, Honest, IInv, Typed
<1>2. /\ pc = "witness ledger" /\ verdict = None /\ request # None
      /\ request' = request /\ request \in Requests
      /\ at_start' = at_start /\ seen \in Readings
  BY <1>1 DEF WalkWitnessLedger, CheckTyped
<1>3. Files' = Files
      /\ UNCHANGED <<ledger, sidecar, witness, witness_sidecar, attested,
                     checkpoint, moves>>
  BY DEF Files, fileVars, ledgerVars, witnessVars
<1>4. CheckHonest /\ (moves = 0 => CheckQuiet) /\ Known /\ OnRoute
  BY <1>2 DEF JInv, Honest, Quiet, IInv, Judged
<1>5. witness \in Records /\ Recorded(witness) /\ witness # Damaged
  BY <1>1, ValuesApart DEF FilesTyped, FilesHonest, Records
<1>6. /\ seen'.ledger = seen.ledger /\ seen'.sidecar = seen.sidecar
      /\ seen'.witness = witness /\ seen'.checkpoint = seen.checkpoint
      /\ seen'.witness_sidecar = seen.witness_sidecar
  BY <1>2, <1>5, ReadWitness DEF WalkWitnessLedger
<1>7. pc' \notin {"start", "checkpoint file", "witness ledger"}
  BY DEF WalkWitnessLedger, Unless, Report, Continue, AfterHead
<1>8. CheckpointRead' = CheckpointRead
  BY <1>2, <1>7 DEF CheckpointRead
<1>9. CheckHonest'
  BY <1>2, <1>3, <1>4, <1>6, <1>7, <1>8 DEF CheckHonest
<1>10. "witness" \in request.checks /\ (request.entry = "cli" <=> ~Alone)
  BY <1>2, <1>4, RequestsAre DEF OnRoute, Alone
<1>11. ~Alone => seen.ledger \in Heads /\ IsPrefix(seen.ledger, ledger)
  BY <1>2, <1>4 DEF Known, HeadJudged, CheckHonest
<1> DEFINE judged == WitnessLedgerFailure(witness, seen.witness_sidecar)
           compared == WitnessFailure(seen.ledger, witness)
           failure == IF Alone THEN None
                      ELSE IF judged # None THEN judged ELSE compared
           step == IF Alone THEN "witness sidecar"
                   ELSE AfterHead(request.checks \ {"witness"})
<1>12. Unless(failure, step)
  BY <1>5, <1>10 DEF WalkWitnessLedger
<1>13. seen.witness_sidecar \in 0 .. MaxWitness \cup {Forged, None}
  BY <1>2 DEF Readings
<1>14. judged \in Harmless
  <2>1. seen.witness_sidecar \in Nat \cup {None, Forged}
    BY <1>13, ChecksAssumption
  <2>2. judged # "equivocation"
    BY <1>1, <1>5, <2>1, HonestBest, WitnessLedgerVerdict
  <2>3. judged \in {None, "witness ledger invalid", "equivocation", "unwitnessed"}
    BY <1>5, <2>1, WitnessLedgerVerdict
  <2> QED
    BY <2>2, <2>3 DEF Harmless
<1>15. ~Alone /\ judged = None =>
         /\ compared \in {None, "rollback", "stale witness"}
         /\ compared = "rollback" => IsStrictPrefix(seen.ledger, ledger)
  BY <1>1, <1>5, <1>11, <1>13, HonestWitnessVerdict
<1>16. moves = 0 /\ failure # None
         => ~ (ledger \in ToSet(witness) /\ witness_sidecar = Len(witness))
  <2>1. ASSUME moves = 0, ~Alone
        PROVE  seen.witness_sidecar = witness_sidecar /\ seen.ledger = ledger
    BY <1>2, <1>4, <1>11, <2>1, NoHeads DEF CheckQuiet
  <2> QED
    BY <1>1, <2>1, CurrentWitnessPasses
<1>17. /\ failure \in Harmless \cup {"rollback"}
       /\ failure = "rollback" => ~Alone /\ IsStrictPrefix(seen.ledger, ledger)
  <2> HIDE DEF judged, compared
  <2>1. failure \in Harmless \cup {"rollback"}
    BY <1>14, <1>15 DEF Harmless
  <2>2. judged # "rollback" /\ None # "rollback"
    BY <1>14, FailuresReport DEF Harmless, Failures
  <2> QED
    BY <1>15, <2>1, <2>2
<1> HIDE DEF failure
<1>18. verdict' = failure
  BY <1>2, <1>12 DEF Unless, Report, Continue
<1>19. AccusationsTrue'
  <2>1. CASE verdict' \in Harmless
    BY <2>1, HarmlessTrue
  <2>2. CASE verdict' = "rollback"
    <3>1. request'.entry = "cli" /\ IsStrictPrefix(seen'.ledger, ledger')
      BY <1>2, <1>3, <1>6, <1>10, <1>17, <1>18, <2>2
    <3> QED
      BY <2>2, <3>1 DEF AccusationsTrue
  <2> QED
    BY <1>17, <1>18, <2>1, <2>2
<1>20. ASSUME moves = 0, verdict' \in Failures
       PROVE  \E check \in request.checks : ~UpToDate(check)
  <2>1. at_start = Files /\ failure # None
    BY <1>4, <1>18, <1>20, FailuresReport DEF CheckQuiet
  <2>2. ~UpToDate("witness")
    BY <1>16, <1>20, <2>1 DEF UpToDate, Files
  <2> QED
    BY <1>10, <2>2
<1>21. moves = 0 => CheckQuiet'
  <2>1. moves = 0 /\ verdict' \in Failures
           => \E check \in request'.checks : ~UpToDate(check)'
    BY <1>2, <1>20 DEF UpToDate
  <2> QED
    BY <1>2, <1>3, <1>4, <1>6, <1>7, <1>8, <2>1 DEF CheckQuiet
<1> QED
  BY <1>3, <1>9, <1>19, <1>21 DEF Accused

LEMMA CheckCheckpointAccuses ==
  ASSUME JInv, CheckCheckpoint, attacks = 0,
         UNCHANGED <<fileVars, attacks, moves>>
  PROVE  Accused'
<1>1. FilesHonest /\ FilesTyped /\ CheckTyped
  BY DEF JInv, Honest, IInv, Typed
<1>2. /\ pc = "checkpoint" /\ verdict = None /\ request # None
      /\ request' = request /\ at_start' = at_start /\ seen' = seen
      /\ seen \in Readings
  BY <1>1 DEF CheckCheckpoint, CheckTyped
<1>3. Files' = Files
      /\ UNCHANGED <<ledger, sidecar, witness, witness_sidecar, attested,
                     checkpoint, moves>>
  BY DEF Files, fileVars, ledgerVars, witnessVars
<1>4. CheckHonest /\ (moves = 0 => CheckQuiet) /\ Known /\ OnRoute
  BY <1>2 DEF JInv, Honest, Quiet, IInv, Judged
<1>5. pc' \notin {"start", "checkpoint file", "witness ledger"}
  BY DEF CheckCheckpoint, Unless, Report, Continue
<1>6. CheckpointRead /\ CheckpointRead' /\ ~Alone
  BY <1>2, <1>4, <1>5 DEF CheckpointRead, OnRoute
<1>7. CheckHonest'
  BY <1>2, <1>3, <1>4, <1>5, <1>6 DEF CheckHonest
<1>8. seen.ledger \in Heads /\ seen.checkpoint \in Heads \cup {None, Forged}
  BY <1>2, <1>4, <1>6 DEF Known, HeadJudged, Readings
<1> DEFINE failure == CheckpointFailure(seen.ledger, seen.checkpoint)
<1>9. Unless(failure, "pass")
  BY DEF CheckCheckpoint
<1>10. failure \in {None, "checkpoint invalid", "checkpoint truncated",
                    "checkpoint rollback"}
  BY <1>8, CheckpointVerdict
<1>11. at_start.checkpoint \notin {None, Forged} => failure = None
  <2>1. ASSUME at_start.checkpoint \notin {None, Forged}
        PROVE  seen.checkpoint \in attested /\ IsPrefix(seen.checkpoint, seen.ledger)
    BY <1>4, <1>6, <1>8, <2>1 DEF CheckHonest
  <2> QED
    BY <1>1, <1>8, <2>1, CheckpointVerdict DEF FilesTyped
<1> HIDE DEF failure
<1>12. verdict' = failure
  BY <1>2, <1>9 DEF Unless, Report, Continue
<1>13. AccusationsTrue'
  <2>1. CASE verdict' = None
    BY <2>1, HarmlessTrue DEF Harmless
  <2>2. CASE verdict' # None
    <3>1. at_start'.checkpoint \in {None, Forged}
      BY <1>2, <1>11, <1>12, <2>2
    <3> QED
      BY <1>10, <1>12, <2>2, <3>1 DEF AccusationsTrue
  <2> QED
    BY <2>1, <2>2
<1>14. ASSUME moves = 0, verdict' \in Failures
       PROVE  \E check \in request.checks : ~UpToDate(check)
  <2>1. at_start.checkpoint \in {None, Forged}
    BY <1>11, <1>12, <1>14, FailuresReport
  <2>2. ~UpToDate("checkpoint")
    BY <2>1 DEF UpToDate
  <2> QED
    BY <1>6, <2>2 DEF CheckpointRead
<1>15. moves = 0 => CheckQuiet'
  <2>1. moves = 0 /\ verdict' \in Failures
           => \E check \in request'.checks : ~UpToDate(check)'
    BY <1>2, <1>14 DEF UpToDate
  <2> QED
    BY <1>2, <1>3, <1>4, <1>5, <1>6, <2>1 DEF CheckQuiet
<1> QED
  BY <1>3, <1>7, <1>13, <1>15 DEF Accused

LEMMA PassAccuses ==
  ASSUME JInv, Pass, attacks = 0, UNCHANGED <<fileVars, attacks, moves>>
  PROVE  Accused'
<1>1. /\ pc = "pass" /\ pc' = "done" /\ verdict' = "pass" /\ request # None
      /\ request' = request /\ at_start' = at_start /\ seen' = seen
  BY DEF Pass, Report, JInv, IInv, Typed, CheckTyped
<1>2. Files' = Files
      /\ UNCHANGED <<ledger, sidecar, witness, witness_sidecar, attested,
                     checkpoint, moves>>
  BY DEF Files, fileVars, ledgerVars, witnessVars
<1>3. CheckHonest /\ (moves = 0 => CheckQuiet)
  BY <1>1 DEF JInv, Honest, Quiet
<1>4. CheckpointRead' = CheckpointRead
  BY <1>1 DEF CheckpointRead
<1>5. CheckHonest'
  BY <1>1, <1>2, <1>3, <1>4 DEF CheckHonest
<1>6. AccusationsTrue'
  BY <1>1, HarmlessTrue DEF Harmless
<1>7. moves = 0 => CheckQuiet'
  BY <1>1, <1>2, <1>3, <1>4, FailuresReport DEF CheckQuiet
<1> QED
  BY <1>2, <1>5, <1>6, <1>7 DEF Accused
-----------------------------------------------------------------------------
(* The invariant of an honest ledger.                                      *)

\* With an attack on record nothing is promised of what was read.
LEMMA CheckAccuses ==
  ASSUME JInv, Check
  PROVE  JInv'
<1>1. UNCHANGED <<fileVars, attacks, moves>>
  BY DEF Check
<1>2. IInv'
  BY CheckJudged DEF JInv
<1>3. CASE attacks = 0
  <2>1. Accused'
    BY <1>1, <1>3, StartAccuses, ReadCheckpointFileAccuses, WalkLedgerAccuses,
       HeadCheckAccuses, ReadWitnessSidecarAccuses, WalkWitnessLedgerAccuses,
       CheckCheckpointAccuses, PassAccuses DEF Check
  <2>2. FilesHonest'
    BY <1>1, <1>3 DEF JInv, Honest, FilesHonest, fileVars, ledgerVars, witnessVars
  <2>3. moves' = moves
    BY <1>1
  <2> QED
    BY <1>2, <2>1, <2>2, <2>3 DEF JInv, Honest, Quiet, Accused
<1>4. CASE attacks # 0
  <2>1. attacks' # 0
    BY <1>1, <1>4
  <2> QED
    BY <1>2, <2>1 DEF JInv, Honest, Quiet, AccusationsTrue
<1> QED
  BY <1>3, <1>4

LEMMA InitAccuses == Init => JInv
<1> SUFFICES ASSUME Init PROVE JInv
  OBVIOUS
<1>1. IInv /\ FilesTyped
  BY Inductive DEF IInv, Typed
<1>2. FilesHonest
  <2>1. ledger \in Heads /\ witness \in Records
    <3>1. witness \in Records /\ ledger = witness
      BY EmptySeq DEF Init, Records
    <3>2. ledger # Damaged
      BY <3>1, ValuesApart DEF Records
    <3> QED
      BY <1>1, <3>1, <3>2 DEF FilesTyped
  <2> QED
    BY <2>1 DEF Init, FilesHonest
<1>3. request = None /\ verdict = None
  BY DEF Init
<1>4. AccusationsTrue
  BY <1>3, HarmlessTrue DEF Harmless
<1> QED
  BY <1>1, <1>2, <1>3, <1>4 DEF JInv, Honest, Quiet

LEMMA HonestInductive == JInv /\ [Next]_vars => JInv'
<1>1. ASSUME JInv, UNCHANGED vars PROVE JInv'
  <2> USE <1>1 DEF vars, fileVars, ledgerVars, witnessVars, checkVars
  <2>1. IInv'
    BY Inductive DEF JInv
  <2>2. Files' = Files /\ Alone' = Alone /\ CheckpointRead' = CheckpointRead
    BY DEF Files, Alone, CheckpointRead
  <2>3. FilesHonest' = FilesHonest /\ CheckHonest' = CheckHonest
    BY <2>2 DEF FilesHonest, CheckHonest
  <2>4. CheckQuiet' = CheckQuiet
    BY <2>2 DEF CheckQuiet, UpToDate
  <2>5. AccusationsTrue' = AccusationsTrue
    BY DEF AccusationsTrue
  <2> QED
    BY <2>1, <2>3, <2>4, <2>5 DEF JInv, Honest, Quiet
<1> QED
  BY <1>1, EnvironmentAccuses, CheckAccuses DEF Next

LEMMA HonestInvariant == Spec => []JInv
  BY InitAccuses, HonestInductive, PTL DEF Spec

\* A ledger that was never attacked is never accused of a fork, nor of a
\* rollback or truncation that the ledger's own growth does not explain, nor
\* against a checkpoint retained before the check began.
THEOREM HonestNeverAccused == Spec => []AccusationsTrue
<1>1. JInv => AccusationsTrue
  BY DEF JInv
<1> QED
  BY <1>1, HonestInvariant, PTL

\* A ledger never attacked and at rest passes exactly the checks whose
\* attestations were up to date when the check began.
THEOREM UpToDateLedgerPasses == Spec => []UpToDatePasses
<1>1. ASSUME JInv, verdict # None, attacks = 0, moves = 0
      PROVE  verdict = "pass" <=> \A check \in request.checks : UpToDate(check)
  <2>1. request # None /\ request \in Requests
    BY <1>1 DEF JInv, IInv, Typed, CheckTyped
  <2>2. /\ FilesTyped /\ FilesHonest /\ CheckTyped /\ CheckHonest /\ CheckQuiet
        /\ Known /\ at_start = Files
    BY <1>1, <2>1 DEF JInv, IInv, Typed, Honest, Quiet, CheckQuiet, Judged
  <2>3. ASSUME verdict # "pass"
        PROVE  ~ \A check \in request.checks : UpToDate(check)
    <3>1. verdict \in Failures
      BY <1>1, <2>2, <2>3 DEF CheckTyped
    <3> QED
      BY <2>2, <3>1 DEF CheckQuiet
  <2>4. ASSUME verdict = "pass", NEW check \in request.checks
        PROVE  UpToDate(check)
    <3>1. Passing /\ HeadJudged
      BY <2>4 DEF Passing, HeadJudged
    <3>2. seen.ledger \in Heads /\ seen.ledger = ledger
      BY <2>2, <3>1, NoHeads DEF Known, CheckQuiet
    <3>3. CASE check = "head"
      <4>1. seen.sidecar = ledger
        BY <2>2, <2>4, <3>1, <3>2, <3>3 DEF Known
      <4>2. sidecar = ledger
        BY <2>2, <3>2, <4>1, NoHeads DEF CheckQuiet
      <4> QED
        BY <2>2, <3>3, <4>2 DEF UpToDate, Files
    <3>4. CASE check = "witness"
      <4>1. WitnessLedgerJudged /\ WitnessJudged
        BY <2>4, <3>1, <3>4 DEF WitnessLedgerJudged, WitnessJudged
      <4>2. /\ seen.witness \in Records
            /\ WitnessLedgerFailure(seen.witness, seen.witness_sidecar) = None
            /\ WitnessFailure(seen.ledger, seen.witness) = None
        BY <2>2, <4>1 DEF Known
      <4>3. seen.witness = witness
        BY <2>2, <4>2, ValuesApart DEF CheckQuiet, Records
      <4>4. seen.witness_sidecar \in Nat \cup {None, Forged}
        BY <2>2, ChecksAssumption DEF CheckTyped, Readings
      <4>5. PICK best \in Heads : Best(witness) = {best}
        BY <4>2, <4>3, <4>4, WitnessLedgerVerdict
      <4>6. best = ledger
        BY <3>2, <4>2, <4>3, <4>5, WitnessVerdict
      <4>7. ledger \in ToSet(witness)
        BY <4>5, <4>6 DEF Best, Witnessed, ToSet
      <4>8. seen.witness_sidecar = Len(witness) /\ Len(witness) # None
        <5>1. seen.witness_sidecar = Len(seen.witness)
          BY <4>2, <4>4, WitnessLedgerVerdict
        <5>2. Len(witness) \in Nat
          BY <4>2, <4>3, LenProperties DEF Records
        <5> QED
          BY <4>3, <5>1, <5>2, ValuesApart
      <4>9. witness_sidecar = Len(witness)
        BY <2>2, <4>8 DEF CheckQuiet
      <4> QED
        BY <2>2, <3>4, <4>7, <4>9 DEF UpToDate, Files
    <3>5. CASE check = "checkpoint"
      <4>1. CheckpointFailure(seen.ledger, seen.checkpoint) = None
        BY <2>2, <2>4, <3>1, <3>5 DEF Known
      <4>2. seen.checkpoint \in Heads
        BY <2>2, <3>2, <4>1, CheckpointVerdict DEF CheckTyped, Readings
      <4>3. CheckpointRead
        BY <1>1, <2>2, <2>4, <3>5, FailuresReport DEF CheckpointRead, CheckTyped
      <4>4. checkpoint \notin {None, Forged}
        BY <2>2, <4>2, <4>3, NoHeads DEF CheckQuiet
      <4> QED
        BY <2>2, <3>5, <4>4 DEF UpToDate, Files
    <3> QED
      BY <2>1, <2>4, <3>3, <3>4, <3>5, RequestsAre DEF CheckNames
  <2> QED
    BY <2>3, <2>4
<1> QED
  BY <1>1, HonestInvariant, PTL DEF UpToDatePasses
=============================================================================
