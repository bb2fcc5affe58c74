-------------------------- MODULE LedgerWalkProofs --------------------------
(***************************************************************************)
(* Proofs about the walk of a ledger, for any bodies, limits and bounds:   *)
(* that the head it returns commits to what it counted, that it fails only *)
(* for a reason, and that it is an atomic read of the writer's log.        *)
(***************************************************************************)
EXTENDS LedgerWalk, SequenceTheorems, TLAPS

Lines == Histories \cup {Damaged}

-----------------------------------------------------------------------------
(* The invariant.                                                          *)

FilesTyped ==
  /\ files \in Seq(Seq(Lines)) /\ Len(files) >= 1
  /\ segments \in {Len(files), Len(files) - 1}
  /\ log \in Seq(Bodies) /\ Len(log) <= MaxLog
  /\ tampered \in 0 .. MaxTampering

\* The head commits to as many records as were counted.
Commits ==
  /\ Len(head) = count
  /\ hash_at = IF want_seq \in 1 .. count THEN SubSeq(head, 1, want_seq) ELSE None

WalkTyped ==
  /\ phase \in {"idle", "list", "reading", "ok", "failed"}
  /\ handle \in 0 .. Len(files) /\ queue \in Seq(1 .. Len(files))
  /\ offset \in Nat /\ count \in 0 .. MaxRecords
  /\ head \in Histories \cup {<<>>} /\ hash_at \in Histories \cup {None}
  /\ since \in Nat \cup {None} /\ quiet \in BOOLEAN
  /\ phase = "idle" => since = None
  /\ phase \in {"list", "reading", "ok"} => since \in Nat
  /\ phase \in {"idle", "list"} =>
       queue = <<>> /\ offset = 0 /\ count = 0 /\ head = <<>>
  /\ phase = "list" => handle \in 1 .. Len(files)

\* Where file f ends, when it starts after start[f] records.
End(start, f) == start[f] + Len(files[f])

\* The files of a ledger nobody tampered with hold the writer's records, one
\* after the other, and at the very end perhaps the beginning of a line.
Layout(start) ==
  /\ start \in [1 .. Len(files) -> Nat] /\ start[1] = 0
  /\ \A f \in 1 .. Len(files) - 1 : start[f + 1] = End(start, f)
  /\ \A f, g \in 1 .. Len(files) : f < g => End(start, f) <= start[g]
  /\ \A f \in 1 .. Len(files) : \A l \in 1 .. Len(files[f]) :
       files[f][l] = IF start[f] + l <= Len(log)
                     THEN SubSeq(log, 1, start[f] + l) ELSE Damaged
  /\ start[Len(files)] <= Len(log)
  /\ End(start, Len(files)) \in {Len(log), Len(log) + 1}
  /\ End(start, Len(files)) = Len(log) + 1 => ActiveExists /\ Len(log) < MaxLog

\* The file opened as active held everything appended by then.
Opened(start) ==
  phase \in {"list", "reading"} =>
    /\ handle \in 1 .. Len(files) /\ handle <= segments + 1
    /\ since <= End(start, handle)
    /\ quiet => handle = Len(files) /\ segments = Len(files) - 1

\* The walk is at record count of the log.  It listed `listed` segments, and
\* reads them in order before the file it opened; that one it may have read
\* already, if it was rotated away before the listing.
Reading(start, listed) ==
  phase = "reading" =>
    /\ listed \in 0 .. segments /\ handle <= listed + 1
    /\ quiet => listed = segments
    /\ count <= Len(log) /\ head = SubSeq(log, 1, count)
    /\ Len(queue) <= listed + 1
    /\ \A i \in 1 .. Len(queue) :
         queue[i] = IF i = Len(queue) THEN handle
                    ELSE listed + 1 + i - Len(queue)
    /\ Len(queue) >= 2 \/ (Len(queue) = 1 /\ handle = listed + 1) =>
         count = start[queue[1]] + offset /\ offset <= Len(files[queue[1]])
    /\ Len(queue) = 1 /\ handle <= listed =>
         offset = 0 /\ End(start, handle) <= count
    /\ Len(queue) = 0 => since <= count

\* A walk that failed while nothing happened had a reason.
Reason ==
  phase = "failed" /\ quiet =>
    \/ ~ActiveExists
    \/ Last(files) # <<>> /\ Torn
    \/ Len(log) > MaxRecords

Untampered ==
  tampered = 0 =>
    /\ \E start \in [1 .. Len(files) -> Nat] : \E listed \in 0 .. segments :
         Layout(start) /\ Opened(start) /\ Reading(start, listed)
    /\ Reason

IInv == FilesTyped /\ WalkTyped /\ Commits /\ Untampered
-----------------------------------------------------------------------------
(* Histories and their prefixes.                                           *)

LEMMA HistoriesAre ==
  ASSUME NEW h
  PROVE  h \in Histories <=> h \in Seq(Bodies) /\ Len(h) \in 1 .. MaxLog
<1>1. h \in Histories <=> \E n \in 1 .. MaxLog : h \in [1 .. n -> Bodies]
  BY DEF Histories
<1>2. MaxLog \in Nat
  BY WalkAssumption
<1>3. ASSUME NEW n \in 1 .. MaxLog, h \in [1 .. n -> Bodies]
      PROVE  h \in Seq(Bodies) /\ Len(h) \in 1 .. MaxLog
  BY <1>2, <1>3, SeqDef
<1>4. ASSUME h \in Seq(Bodies), Len(h) \in 1 .. MaxLog
      PROVE  \E n \in 1 .. MaxLog : h \in [1 .. n -> Bodies]
  BY <1>2, <1>4, LenProperties
<1> QED
  BY <1>1, <1>3, <1>4

\* The first k elements of a sequence.
LEMMA Prefix ==
  ASSUME NEW S, NEW s \in Seq(S), NEW k \in 0 .. Len(s)
  PROVE  /\ SubSeq(s, 1, k) \in Seq(S) /\ Len(SubSeq(s, 1, k)) = k
         /\ \A i \in 1 .. k : SubSeq(s, 1, k)[i] = s[i]
<1>1. Len(s) \in Nat
  BY LenProperties
<1>2. \A i \in 1 .. k : s[i] \in S
  BY <1>1, ElementOfSeq
<1> QED
  BY <1>1, <1>2, SubSeqProperties

\* Sequences that agree on their first k elements have the same prefix.
LEMMA SamePrefix ==
  ASSUME NEW S, NEW s \in Seq(S), NEW t \in Seq(S),
         NEW k \in 0 .. Len(s), k <= Len(t), \A i \in 1 .. k : s[i] = t[i]
  PROVE  SubSeq(s, 1, k) = SubSeq(t, 1, k)
<1>1. k \in 0 .. Len(t)
  BY LenProperties
<1> DEFINE p == SubSeq(s, 1, k)
           q == SubSeq(t, 1, k)
<1>2. /\ p \in Seq(S) /\ q \in Seq(S) /\ Len(p) = k /\ Len(q) = k
      /\ \A i \in 1 .. k : p[i] = q[i]
  BY <1>1, Prefix
<1> HIDE DEF p, q
<1>3. p = q
  BY <1>2, SeqEqual
<1> QED
  BY <1>3 DEF p, q

\* A prefix of a prefix.
LEMMA PrefixOfPrefix ==
  ASSUME NEW S, NEW s \in Seq(S), NEW j \in 0 .. Len(s), NEW k \in 0 .. j
  PROVE  SubSeq(SubSeq(s, 1, j), 1, k) = SubSeq(s, 1, k)
<1> DEFINE p == SubSeq(s, 1, j)
<1>1. p \in Seq(S) /\ Len(p) = j /\ \A i \in 1 .. j : p[i] = s[i]
  BY Prefix
<1>2. j \in Nat /\ Len(s) \in Nat
  BY LenProperties
<1> HIDE DEF p
<1>3. SubSeq(p, 1, k) = SubSeq(s, 1, k)
  BY <1>1, <1>2, SamePrefix
<1> QED
  BY <1>3 DEF p

\* The first k bodies of a log: a history, which links to the one before.
LEMMA LogPrefix ==
  ASSUME NEW l \in Seq(Bodies), Len(l) <= MaxLog, NEW k \in 1 .. Len(l)
  PROVE  /\ SubSeq(l, 1, k) \in Histories /\ Len(SubSeq(l, 1, k)) = k
         /\ Front(SubSeq(l, 1, k)) = SubSeq(l, 1, k - 1)
<1>1. Len(l) \in Nat /\ k - 1 \in 0 .. k /\ k \in 0 .. Len(l)
  BY LenProperties
<1> DEFINE h == SubSeq(l, 1, k)
<1>2. h \in Seq(Bodies) /\ Len(h) = k
  BY <1>1, Prefix
<1>3. Front(h) = SubSeq(h, 1, k - 1)
  BY <1>2 DEF Front
<1>4. SubSeq(h, 1, k - 1) = SubSeq(l, 1, k - 1)
  BY <1>1, PrefixOfPrefix
<1> HIDE DEF h
<1>5. h \in Histories
  BY <1>1, <1>2, HistoriesAre, WalkAssumption
<1> QED
  BY <1>2, <1>3, <1>4, <1>5 DEF h

\* What was in the log stays when it is appended to.
LEMMA LogAppend ==
  ASSUME NEW l \in Seq(Bodies), NEW b \in Bodies
  PROVE  /\ Append(l, b) \in Seq(Bodies) /\ Len(Append(l, b)) = Len(l) + 1
         /\ \A k \in 0 .. Len(l) : SubSeq(Append(l, b), 1, k) = SubSeq(l, 1, k)
         /\ SubSeq(Append(l, b), 1, Len(l) + 1) = Append(l, b)
<1> DEFINE m == Append(l, b)
<1>1. /\ m \in Seq(Bodies) /\ Len(m) = Len(l) + 1
      /\ \A i \in 1 .. Len(l) : m[i] = l[i]
  BY AppendProperties
<1>2. Len(l) \in Nat
  BY LenProperties
<1> HIDE DEF m
<1>3. ASSUME NEW k \in 0 .. Len(l)
      PROVE  SubSeq(m, 1, k) = SubSeq(l, 1, k)
  BY <1>1, <1>2, SamePrefix
<1>4. SubSeq(m, 1, Len(l) + 1) = m
  BY <1>1, SubSeqFull
<1> QED
  BY <1>1, <1>3, <1>4 DEF m
-----------------------------------------------------------------------------
(* The writer and the file system keep the types.                          *)

\* Replacing one file by a sequence of lines.
LEMMA ReplaceFile ==
  ASSUME NEW fs \in Seq(Seq(Lines)), NEW f \in 1 .. Len(fs), NEW c \in Seq(Lines)
  PROVE  /\ [fs EXCEPT ![f] = c] \in Seq(Seq(Lines))
         /\ Len([fs EXCEPT ![f] = c]) = Len(fs)
         /\ \A g \in 1 .. Len(fs) : [fs EXCEPT ![f] = c][g] = IF g = f THEN c ELSE fs[g]
  BY ExceptSeq

\* One more empty file.
LEMMA AddFile ==
  ASSUME NEW fs \in Seq(Seq(Lines))
  PROVE  /\ Append(fs, <<>>) \in Seq(Seq(Lines))
         /\ Len(Append(fs, <<>>)) = Len(fs) + 1
         /\ \A g \in 1 .. Len(fs) : Append(fs, <<>>)[g] = fs[g]
         /\ Append(fs, <<>>)[Len(fs) + 1] = <<>>
<1> DEFINE e == <<>>
<1>1. e \in Seq(Lines)
  BY EmptySeq
<1> HIDE DEF e
<1>2. /\ Append(fs, e) \in Seq(Seq(Lines))
      /\ Len(Append(fs, e)) = Len(fs) + 1
      /\ \A g \in 1 .. Len(fs) : Append(fs, e)[g] = fs[g]
      /\ Append(fs, e)[Len(fs) + 1] = e
  BY <1>1, AppendProperties
<1> QED
  BY <1>2 DEF e

\* A file without one of its lines.
LEMMA WithoutLine ==
  ASSUME NEW c \in Seq(Lines), NEW l \in 1 .. Len(c)
  PROVE  RemoveAt(c, l) \in Seq(Lines)
<1> DEFINE p == SubSeq(c, 1, l - 1)
           q == SubSeq(c, l + 1, Len(c))
<1>1. Len(c) \in Nat
  BY LenProperties
<1>2. \A i \in 1 .. Len(c) : c[i] \in Lines
  BY ElementOfSeq
<1>3. p \in Seq(Lines) /\ q \in Seq(Lines)
  BY <1>1, <1>2, SubSeqProperties
<1>4. RemoveAt(c, l) = p \o q
  BY DEF RemoveAt
<1> HIDE DEF p, q
<1> QED
  BY <1>3, <1>4, ConcatProperties
-----------------------------------------------------------------------------
(* The end of an untampered ledger.                                        *)

LEMMA FilesAre ==
  ASSUME FilesTyped
  PROVE  /\ Len(files) \in Nat \ {0} /\ Len(log) \in Nat /\ MaxLog \in Nat
         /\ \A f \in 1 .. Len(files) :
              /\ files[f] \in Seq(Lines) /\ Len(files[f]) \in Nat
              /\ \A l \in 1 .. Len(files[f]) : files[f][l] \in Lines
         /\ DOMAIN files = 1 .. Len(files)
         /\ Last(files) = files[Len(files)]
         /\ ActiveExists <=> segments = Len(files) - 1
         /\ segments \in Nat
<1>1. Len(files) \in Nat \ {0} /\ Len(log) \in Nat /\ MaxLog \in Nat
  BY LenProperties, WalkAssumption DEF FilesTyped
<1>2. \A f \in 1 .. Len(files) : files[f] \in Seq(Lines)
  BY <1>1, ElementOfSeq DEF FilesTyped
<1>3. ASSUME NEW f \in 1 .. Len(files)
      PROVE  /\ Len(files[f]) \in Nat
             /\ \A l \in 1 .. Len(files[f]) : files[f][l] \in Lines
  BY <1>2, ElementOfSeq, LenProperties
<1>4. DOMAIN files = 1 .. Len(files) /\ Last(files) = files[Len(files)]
  BY LenProperties DEF FilesTyped, Last
<1> QED
  BY <1>1, <1>2, <1>3, <1>4 DEF FilesTyped, ActiveExists

\* The ledger ends in an incomplete line exactly when it is a line longer than
\* the log.
LEMMA TornTail ==
  ASSUME FilesTyped, NEW start, Layout(start)
  PROVE  /\ start[Len(files)] \in Nat
         /\ Last(files) # <<>> /\ Torn <=> End(start, Len(files)) = Len(log) + 1
<1> DEFINE n == Len(files)
           c == files[n]
<1>1. /\ n \in Nat \ {0} /\ c \in Seq(Lines) /\ Len(c) \in Nat /\ Len(log) \in Nat
      /\ Last(files) = c
  BY FilesAre
<1>2. /\ start[n] \in Nat /\ start[n] <= Len(log)
      /\ start[n] + Len(c) \in {Len(log), Len(log) + 1}
      /\ \A l \in 1 .. Len(c) :
           c[l] = IF start[n] + l <= Len(log)
                  THEN SubSeq(log, 1, start[n] + l) ELSE Damaged
  BY <1>1 DEF Layout, End
<1>2a. End(start, Len(files)) = start[n] + Len(c) /\ start[Len(files)] = start[n]
  BY DEF End
<1>2b. Torn <=> Last(c) = Damaged
  BY <1>1 DEF Torn
<1> HIDE DEF n, c
<1>3. CASE c = <<>>
  <2>1. Len(c) = 0
    BY <1>3, EmptySeq
  <2> QED
    BY <1>1, <1>2, <1>2a, <1>3, <2>1
<1>4. CASE c # <<>>
  <2>1. Len(c) >= 1 /\ Last(c) = c[Len(c)]
    BY <1>1, <1>4, EmptySeq DEF Last
  <2>2. CASE start[n] + Len(c) = Len(log)
    <3>1. Len(c) \in 1 .. Len(c) /\ start[n] + Len(c) <= Len(log)
      BY <1>1, <1>2, <2>1, <2>2
    <3>2. c[Len(c)] = SubSeq(log, 1, start[n] + Len(c))
      BY <1>2, <3>1, Zenon
    <3>3. c[Len(c)] = SubSeq(log, 1, Len(log))
      BY <2>2, <3>2, Zenon
    <3>4. log \in Seq(Bodies) /\ Len(log) <= MaxLog /\ Len(log) \in 1 .. Len(log)
      <4>1. Len(log) \in 1 .. Len(log)
        BY <1>1, <1>2, <2>1, <2>2
      <4>2. log \in Seq(Bodies) /\ Len(log) <= MaxLog
        BY DEF FilesTyped
      <4> QED
        BY <4>1, <4>2
    <3>5. SubSeq(log, 1, Len(log)) \in Histories
      BY <3>4, LogPrefix
    <3>6. ~Torn
      BY <1>2b, <2>1, <3>3, <3>5, ValuesApart
    <3> QED
      BY <1>1, <1>2, <1>2a, <2>2, <3>6
  <2>3. CASE start[n] + Len(c) = Len(log) + 1
    <3>1. c[Len(c)] = Damaged
      BY <1>1, <1>2, <2>1, <2>3
    <3> QED
      BY <1>1, <1>2, <1>2a, <1>2b, <1>4, <2>1, <2>3, <3>1
  <2> QED
    BY <1>2, <2>2, <2>3
<1> QED
  BY <1>2, <1>2a, <1>3, <1>4
-----------------------------------------------------------------------------
(* The files keep their types.                                             *)

LEMMA FilesKept ==
  ASSUME IInv, Environment
  PROVE  FilesTyped'
<1> USE DEF IInv
<1>1. /\ Len(files) \in Nat \ {0} /\ Len(log) \in Nat /\ MaxLog \in Nat
      /\ Last(files) = files[Len(files)] /\ DOMAIN files = 1 .. Len(files)
      /\ segments \in Nat /\ Len(files) \in 1 .. Len(files)
  BY FilesAre
<1>2. \A f \in 1 .. Len(files) :
        /\ files[f] \in Seq(Lines) /\ Len(files[f]) \in Nat
        /\ \A l \in 1 .. Len(files[f]) : files[f][l] \in Lines
  BY FilesAre
<1>3. CASE BeginAppend
  <2>1. Append(files[Len(files)], Damaged) \in Seq(Lines)
    BY <1>1, <1>2, AppendProperties DEF Lines
  <2>2. files' = [files EXCEPT ![Len(files)] = Append(files[Len(files)], Damaged)]
    BY <1>3 DEF BeginAppend
  <2>3. files' \in Seq(Seq(Lines)) /\ Len(files') = Len(files)
    BY <1>1, <2>1, <2>2, ReplaceFile DEF FilesTyped
  <2> QED
    BY <1>3, <2>3 DEF FilesTyped, BeginAppend
<1>4. ASSUME NEW b \in Bodies, FinishAppend(b)
      PROVE  FilesTyped'
  <2>1. PICK start \in [1 .. Len(files) -> Nat] : Layout(start)
    BY <1>4 DEF Untampered, FinishAppend
  <2>2. Len(log) < MaxLog
    BY <1>4, <2>1, TornTail DEF FinishAppend, Layout
  <2>3. /\ log' \in Seq(Bodies) /\ Len(log') = Len(log) + 1 /\ Len(log') <= MaxLog
    <3>1. log' = Append(log, b)
      BY <1>4 DEF FinishAppend
    <3>2. log' \in Seq(Bodies) /\ Len(log') = Len(log) + 1
      BY <3>1, AppendProperties DEF FilesTyped
    <3> QED
      BY <1>1, <2>2, <3>2
  <2>4. log' \in Lines
    BY <1>1, <2>3, HistoriesAre DEF Lines
  <2> DEFINE c == files[Len(files)]
  <2>5. c \in Seq(Lines) /\ c # <<>>
    BY <1>1, <1>2, <1>4 DEF FinishAppend
  <2>6. Front(c) \in Seq(Lines)
    <3>1. Len(c) - 1 \in 0 .. Len(c)
      BY <2>5, EmptySeq, LenProperties
    <3> QED
      BY <2>5, <3>1, Prefix DEF Front
  <2>7. Append(Front(c), log') \in Seq(Lines)
    BY <2>4, <2>6, AppendProperties
  <2>8. files' = [files EXCEPT ![Len(files)] = Append(Front(c), log')]
    BY <1>4 DEF FinishAppend
  <2> HIDE DEF c
  <2>9. files' \in Seq(Seq(Lines)) /\ Len(files') = Len(files)
    BY <1>1, <2>7, <2>8, ReplaceFile DEF FilesTyped
  <2> QED
    BY <1>4, <2>3, <2>9 DEF FilesTyped, FinishAppend
<1>5. CASE RotateAway
  BY <1>1, <1>5 DEF RotateAway, FilesTyped
<1>6. CASE CreateActive
  <2>1. files' \in Seq(Seq(Lines)) /\ Len(files') = Len(files) + 1
    BY <1>6, AddFile DEF CreateActive, FilesTyped
  <2>2. segments = Len(files)
    <3>1. ~ActiveExists
      BY <1>6 DEF CreateActive
    <3>2. segments = Len(files) \/ segments = Len(files) - 1
      BY DEF FilesTyped
    <3> QED
      BY <3>1, <3>2, FilesAre
  <2>3. segments' = Len(files') - 1 /\ log' = log /\ tampered' = tampered
    BY <1>1, <1>6, <2>1, <2>2 DEF CreateActive
  <2>4. log \in Seq(Bodies) /\ Len(log) <= MaxLog /\ tampered \in 0 .. MaxTampering
    BY DEF FilesTyped
  <2>5. FilesTyped'
    <3>1. Len(files') >= 1 /\ segments' \in {Len(files'), Len(files') - 1}
      BY <1>1, <2>1, <2>3
    <3>2. log' \in Seq(Bodies) /\ Len(log') <= MaxLog /\ tampered' \in 0 .. MaxTampering
      BY <2>3, <2>4
    <3> QED
      BY <2>1, <3>1, <3>2 DEF FilesTyped
  <2> QED
    BY <2>5
<1>7. ASSUME NEW f \in DOMAIN files, NEW l \in DOMAIN files[f], Tamper(f, l)
      PROVE  FilesTyped'
  <2>1. /\ f \in 1 .. Len(files) /\ files[f] \in Seq(Lines) /\ Len(files[f]) \in Nat
        /\ l \in 1 .. Len(files[f])
        /\ \A k \in 1 .. Len(files[f]) : files[f][k] \in Lines
    BY <1>1, <1>2, LenProperties
  <2> DEFINE c == files[f]
  <2>2. \A k \in 1 .. Len(c), x \in Lines : [c EXCEPT ![k] = x] \in Seq(Lines)
    BY <2>1, ExceptSeq
  <2>3. \E d \in Seq(Lines) : files' = [files EXCEPT ![f] = d]
    <3>1. ASSUME NEW line \in Histories \cup {Damaged},
                 files' = [files EXCEPT ![f][l] = line]
          PROVE  \E d \in Seq(Lines) : files' = [files EXCEPT ![f] = d]
      <4>1. files' = [files EXCEPT ![f] = [c EXCEPT ![l] = line]]
        BY <3>1
      <4> HIDE DEF c
      <4> QED
        BY <2>1, <2>2, <4>1 DEF Lines, c
    <3>2. ASSUME files' = [files EXCEPT ![f] = RemoveAt(@, l)]
          PROVE  \E d \in Seq(Lines) : files' = [files EXCEPT ![f] = d]
      <4>1. RemoveAt(files[f], l) \in Seq(Lines)
        BY <2>1, WithoutLine
      <4> QED
        BY <3>2, <4>1
    <3>3. ASSUME l > 1, files' = [files EXCEPT ![f][l] = files[f][l - 1],
                                               ![f][l - 1] = files[f][l]]
          PROVE  \E d \in Seq(Lines) : files' = [files EXCEPT ![f] = d]
      <4>1. l - 1 \in 1 .. Len(c) /\ c[l] \in Lines /\ c[l - 1] \in Lines
        BY <2>1, <3>3
      <4> DEFINE d == [c EXCEPT ![l] = c[l - 1]]
                 e == [d EXCEPT ![l - 1] = c[l]]
      <4>2. d \in Seq(Lines) /\ Len(d) = Len(c)
        BY <2>1, <4>1, ExceptSeq
      <4>3. e \in Seq(Lines)
        <5> HIDE DEF d, c
        <5> QED
          BY <4>1, <4>2, ExceptSeq
      <4>4. files' = [files EXCEPT ![f] = e]
        BY <1>1, <3>3, <2>1
      <4> HIDE DEF e
      <4> QED
        BY <4>3, <4>4
    <3> QED
      BY <1>7, <3>1, <3>2, <3>3 DEF Tamper
  <2>4. files' \in Seq(Seq(Lines)) /\ Len(files') = Len(files)
    BY <2>1, <2>3, ReplaceFile DEF FilesTyped
  <2>5. tampered' \in 0 .. MaxTampering
    <3>1. tampered' = tampered + 1 /\ tampered < MaxTampering
      BY <1>7 DEF Tamper
    <3>2. tampered \in 0 .. MaxTampering
      BY DEF FilesTyped
    <3> QED
      BY <3>1, <3>2, WalkAssumption
  <2> QED
    BY <1>7, <2>4, <2>5 DEF FilesTyped, Tamper
<1> QED
  BY <1>3, <1>4, <1>5, <1>6, <1>7 DEF Environment
-----------------------------------------------------------------------------
(* The walk keeps its types, and its head commits to what it counted.      *)

LEMMA InitInv == ASSUME Init PROVE IInv
<1>1. FilesTyped
  <2> DEFINE e == <<>>
  <2>1. e \in Seq(Lines) /\ e \in Seq(Bodies) /\ Len(e) = 0
    BY EmptySeq
  <2>2. files = <<e>> /\ log = e /\ segments = 0 /\ tampered = 0
    BY DEF Init
  <2> HIDE DEF e
  <2>3. <<e>> \in Seq(Seq(Lines)) /\ Len(<<e>>) = 1
    BY <2>1
  <2> QED
    BY <2>1, <2>2, <2>3, WalkAssumption DEF FilesTyped
<1>2. /\ files = <<<<>>>> /\ segments = 0 /\ log = <<>> /\ phase = "idle"
      /\ handle = 0 /\ queue = <<>> /\ offset = 0 /\ count = 0 /\ head = <<>>
      /\ hash_at = None /\ since = None /\ quiet = TRUE
  BY DEF Init
<1>3. Len(files) = 1 /\ Len(files[1]) = 0 /\ Len(log) = 0
  BY <1>2
<1>4. WalkTyped
  BY <1>2, <1>3, WalkAssumption, EmptySeq DEF WalkTyped
<1>5. Commits
  BY <1>2, EmptySeq DEF Commits
<1>6. Untampered
  <2> DEFINE start == [f \in 1 .. 1 |-> 0]
  <2>1. start \in [1 .. Len(files) -> Nat] /\ start[1] = 0
    BY <1>3
  <2>2. End(start, 1) = 0
    BY <1>3, <2>1 DEF End
  <2>3. Layout(start)
    BY <1>2, <1>3, <2>1, <2>2, WalkAssumption DEF Layout
  <2>4. Opened(start) /\ Reading(start, 0) /\ Reason
    BY <1>2 DEF Opened, Reading, Reason
  <2>5. 0 \in 0 .. segments
    BY <1>2
  <2> HIDE DEF start
  <2> QED
    BY <2>1, <2>3, <2>4, <2>5 DEF Untampered
<1> QED
  BY <1>1, <1>4, <1>5, <1>6 DEF IInv

\* A line that links is the history of one record more.
LEMMA LinkedLine ==
  ASSUME IInv, NEW line \in Lines, Links(line), WithinLimit
  PROVE  /\ line \in Histories /\ line \in Seq(Bodies) /\ Len(line) = count + 1
         /\ \A w \in 1 .. count : SubSeq(line, 1, w) = SubSeq(head, 1, w)
         /\ SubSeq(line, 1, count + 1) = line
         /\ count + 1 \in 0 .. MaxRecords
<1>1. line \in Histories /\ Len(line) = count + 1 /\ Front(line) = head
  BY DEF Links, Lines
<1>2. line \in Seq(Bodies)
  BY <1>1, HistoriesAre
<1>3. count \in Nat /\ count + 1 \in 0 .. MaxRecords
  BY WalkAssumption DEF IInv, WalkTyped, WithinLimit
<1>4. head = SubSeq(line, 1, count)
  BY <1>1, <1>3 DEF Front
<1>5. ASSUME NEW w \in 1 .. count
      PROVE  SubSeq(line, 1, w) = SubSeq(head, 1, w)
  <2>1. count \in 0 .. Len(line) /\ w \in 0 .. count
    BY <1>1, <1>3
  <2>2. SubSeq(SubSeq(line, 1, count), 1, w) = SubSeq(line, 1, w)
    BY <1>2, <2>1, PrefixOfPrefix
  <2> QED
    BY <1>4, <2>2
<1>6. SubSeq(line, 1, count + 1) = line
  BY <1>1, <1>2, SubSeqFull
<1> QED
  BY <1>1, <1>2, <1>3, <1>5, <1>6

\* The line the walk reads.
LEMMA LineRead ==
  ASSUME IInv, ReadLine
  PROVE  /\ queue[1] \in 1 .. Len(files) /\ Len(queue) \in Nat \ {0}
         /\ CurrentFile = files[queue[1]] /\ offset + 1 \in 1 .. Len(CurrentFile)
         /\ CurrentFile[offset + 1] \in Lines
<1>1. queue \in Seq(1 .. Len(files)) /\ queue # <<>> /\ offset \in Nat
  BY DEF IInv, WalkTyped, ReadLine
<1>2. Len(queue) \in Nat \ {0} /\ Head(queue) = queue[1]
  BY <1>1, EmptySeq, LenProperties
<1>3. queue[1] \in 1 .. Len(files)
  BY <1>1, <1>2, ElementOfSeq
<1>4. CurrentFile = files[queue[1]]
  BY <1>2 DEF CurrentFile
<1>5. /\ Len(files[queue[1]]) \in Nat
      /\ \A l \in 1 .. Len(files[queue[1]]) : files[queue[1]][l] \in Lines
  BY <1>3, FilesAre DEF IInv
<1>6. offset + 1 \in 1 .. Len(CurrentFile)
  BY <1>1, <1>4, <1>5 DEF ReadLine
<1> QED
  BY <1>2, <1>3, <1>4, <1>5, <1>6

LEMMA WalkKept ==
  ASSUME IInv, [Next]_vars, FilesTyped'
  PROVE  WalkTyped' /\ Commits'
<1>0. WalkTyped /\ Commits /\ FilesTyped
  BY DEF IInv
<1>1. CASE Environment
  <2>1. /\ phase' = phase /\ handle' = handle /\ queue' = queue
        /\ offset' = offset /\ count' = count /\ head' = head
        /\ hash_at' = hash_at /\ since' = since
        /\ quiet' \in BOOLEAN
    BY <1>1 DEF Environment, walkVars, chainVars
  <2>2. Len(files') >= Len(files) /\ Len(files) \in Nat /\ Len(files') \in Nat
    <3>1. ASSUME NEW f, NEW e PROVE Len([files EXCEPT ![f] = e]) = Len(files)
      BY <1>0 DEF FilesTyped
    <3>2. Len(files) \in Nat /\ Len(files') \in Nat
      BY <1>0, LenProperties DEF FilesTyped
    <3>3. files' = files \/ Len(files') = Len(files) \/ files' = Append(files, <<>>)
      BY <1>1, <3>1 DEF Environment, BeginAppend, FinishAppend, RotateAway,
                        CreateActive, Tamper
    <3>4. Len(Append(files, <<>>)) = Len(files) + 1
      BY <1>0, AddFile DEF FilesTyped
    <3> QED
      BY <3>2, <3>3, <3>4
  <2>3. queue \in Seq(1 .. Len(files')) /\ handle \in 0 .. Len(files')
        /\ (phase = "list" => handle \in 1 .. Len(files'))
    <3>1. \A i \in 1 .. Len(queue) : queue[i] \in 1 .. Len(files)
      BY <1>0, ElementOfSeq DEF WalkTyped
    <3>2. \A i \in 1 .. Len(queue) : queue[i] \in 1 .. Len(files')
      BY <2>2, <3>1
    <3>3. queue \in Seq(1 .. Len(files'))
      <4>1. 1 .. Len(files) \subseteq 1 .. Len(files')
        BY <2>2
      <4> QED
        BY <1>0, <4>1, SeqMonotonic DEF WalkTyped
    <3> QED
      BY <1>0, <2>2, <3>3 DEF WalkTyped
  <2> QED
    BY <1>0, <2>1, <2>3 DEF WalkTyped, Commits
<1>2. CASE OpenActive
  <2>1. Len(files) \in Nat \ {0} /\ Len(log) \in Nat
    BY <1>0, FilesAre
  <2>2. /\ phase = "idle"
        /\ UNCHANGED <<files, queue, offset, count, head, hash_at, quiet>>
    BY <1>2 DEF OpenActive, Fail, fileVars, chainVars
  <2>3. \/ phase' = "list" /\ handle' = Len(files) /\ since' = Len(log)
        \/ phase' = "failed" /\ handle' = handle /\ since' = since
    BY <1>2 DEF OpenActive, Fail
  <2> QED
    BY <1>0, <2>1, <2>2, <2>3 DEF WalkTyped, Commits
<1>3. CASE ListSegments
  <2>1. handle \in 1 .. Len(files) /\ segments \in Nat /\ Len(files) \in Nat
        /\ segments <= Len(files)
    BY <1>0, <1>3, FilesAre DEF ListSegments, WalkTyped, FilesTyped
  <2>2. ReadOrder \in Seq(1 .. Len(files))
    <3> DEFINE r == [s \in 1 .. segments |-> s]
               h == <<handle>>
    <3>1. r \in Seq(1 .. Len(files))
      BY <2>1, IsASeq
    <3>2. h \in Seq(1 .. Len(files))
      BY <2>1
    <3> HIDE DEF r, h
    <3>3. r \o h \in Seq(1 .. Len(files))
      BY <3>1, <3>2, ConcatProperties
    <3> QED
      BY <3>3 DEF ReadOrder, r, h
  <2> QED
    BY <1>0, <1>3, <2>2 DEF ListSegments, WalkTyped, Commits, fileVars, chainVars
<1>4. CASE ReadLine
  <2> DEFINE line == CurrentFile[offset + 1]
  <2>1. line \in Lines /\ offset \in Nat /\ count \in Nat
    BY <1>0, <1>4, LineRead DEF WalkTyped
  <2>2. CASE WithinLimit /\ Links(line)
    <3>1. /\ count' = count + 1 /\ head' = line /\ hash_at' = HashAt(line)
          /\ offset' = offset + 1
          /\ UNCHANGED <<phase, handle, queue, files, since, quiet>>
      BY <1>4, <2>2 DEF ReadLine, fileVars
    <3> HIDE DEF line
    <3>2. /\ line \in Histories /\ line \in Seq(Bodies) /\ Len(line) = count + 1
          /\ \A w \in 1 .. count : SubSeq(line, 1, w) = SubSeq(head, 1, w)
          /\ SubSeq(line, 1, count + 1) = line
          /\ count + 1 \in 0 .. MaxRecords
      BY <2>1, <2>2, LinkedLine
    <3>3. HashAt(line) \in Histories \cup {None}
      BY <1>0, <3>2 DEF HashAt, WalkTyped
    <3>4. phase = "reading"
      BY <1>4 DEF ReadLine
    <3>5. WalkTyped'
      BY <1>0, <2>1, <3>1, <3>2, <3>3, <3>4 DEF WalkTyped
    <3>6. HashAt(line) = IF want_seq \in 1 .. count + 1
                         THEN SubSeq(line, 1, want_seq) ELSE None
      <4>1. CASE want_seq = count + 1
        <5>1. want_seq \in 1 .. count + 1 /\ SubSeq(line, 1, want_seq) = line
          BY <2>1, <3>2, <4>1
        <5> QED
          BY <3>2, <4>1, <5>1 DEF HashAt
      <4>2. CASE want_seq # count + 1
        <5>1. want_seq \in 1 .. count + 1 <=> want_seq \in 1 .. count
          BY <2>1, <4>2, WalkAssumption
        <5>2. HashAt(line) = hash_at
          BY <3>2, <4>2 DEF HashAt
        <5>3. want_seq \in 1 .. count => SubSeq(line, 1, want_seq) = SubSeq(head, 1, want_seq)
          BY <3>2
        <5>4. hash_at = IF want_seq \in 1 .. count THEN SubSeq(head, 1, want_seq) ELSE None
          BY <1>0 DEF Commits
        <5> QED
          BY <5>1, <5>2, <5>3, <5>4
      <4> QED
        BY <4>1, <4>2
    <3>7. Commits'
      BY <3>1, <3>2, <3>6 DEF Commits
    <3> QED
      BY <3>5, <3>7
  <2>3. CASE ~(WithinLimit /\ Links(line))
    <3>1. Fail /\ UNCHANGED <<fileVars, since, quiet>>
      BY <1>4, <2>3 DEF ReadLine
    <3> HIDE DEF line
    <3> QED
      BY <1>0, <3>1 DEF Fail, WalkTyped, Commits, fileVars, chainVars
  <2> QED
    BY <2>2, <2>3
<1>5. CASE NextFile
  <2>1. queue \in Seq(1 .. Len(files)) /\ queue # <<>>
    BY <1>0, <1>5 DEF WalkTyped, NextFile
  <2>2. Tail(queue) \in Seq(1 .. Len(files))
    BY <2>1, HeadTailProperties
  <2>3. /\ queue' = Tail(queue) /\ offset' = 0 /\ phase = "reading"
        /\ UNCHANGED <<files, phase, handle, count, head, hash_at, since, quiet>>
    BY <1>5 DEF NextFile, fileVars, chainVars
  <2> QED
    BY <1>0, <2>2, <2>3 DEF WalkTyped, Commits
<1>6. CASE Finish
  BY <1>0, <1>6 DEF Finish, WalkTyped, Commits, fileVars, chainVars
<1>7. CASE UNCHANGED vars
  BY <1>0, <1>7 DEF vars, fileVars, walkVars, chainVars, WalkTyped, Commits
<1> QED
  BY <1>1, <1>2, <1>3, <1>4, <1>5, <1>6, <1>7 DEF Next, Walk
-----------------------------------------------------------------------------
(* The writer keeps the files in order.                                    *)

\* What is known of the log remains true of a longer one.
Grows ==
  /\ Len(log) <= Len(log') /\ Len(files) <= Len(files') /\ segments <= segments'
  /\ \A k \in 0 .. Len(log) : SubSeq(log', 1, k) = SubSeq(log, 1, k)
  /\ \A f \in 1 .. Len(files) : Len(files[f]) <= Len(files'[f])
  /\ \A f \in 1 .. segments : files'[f] = files[f]

\* A walk under way is not disturbed by a ledger that grows.
LEMMA WalkUndisturbed ==
  ASSUME IInv, FilesTyped', Environment, tampered = 0, Grows,
         NEW start \in [1 .. Len(files) -> Nat], NEW listed \in 0 .. segments,
         Opened(start), Reading(start, listed),
         NEW more \in [1 .. Len(files') -> Nat], Layout(more)',
         \A f \in 1 .. Len(files) : more[f] = start[f]
  PROVE  Untampered'
<1>0. WalkTyped /\ FilesTyped
  BY DEF IInv
<1>1. /\ phase' = phase /\ handle' = handle /\ queue' = queue
      /\ offset' = offset /\ count' = count /\ head' = head
      /\ since' = since /\ quiet' = (phase = "idle")
  BY DEF Environment, walkVars, chainVars
<1>2. /\ Len(files) \in Nat /\ Len(files') \in Nat /\ Len(files) <= Len(files')
      /\ Len(log) \in Nat /\ Len(log') \in Nat /\ Len(log) <= Len(log')
      /\ segments \in Nat /\ segments' \in Nat /\ segments <= segments'
      /\ segments <= Len(files)
  <2>1. Len(files) \in Nat /\ Len(log) \in Nat /\ segments \in Nat
    BY <1>0, FilesAre
  <2>2. Len(files') \in Nat /\ Len(log') \in Nat
    BY LenProperties DEF FilesTyped
  <2>3. segments' \in {Len(files'), Len(files') - 1} /\ Len(files') >= 1
    BY DEF FilesTyped
  <2>4. segments' \in Nat
    BY <2>2, <2>3
  <2>5. segments \in {Len(files), Len(files) - 1}
    BY <1>0 DEF FilesTyped
  <2>6. segments <= Len(files)
    BY <2>1, <2>5
  <2>7. Len(files) <= Len(files') /\ Len(log) <= Len(log') /\ segments <= segments'
    BY DEF Grows
  <2> QED
    BY <2>1, <2>2, <2>4, <2>6, <2>7
<1>3. \A f \in 1 .. Len(files) :
        /\ more[f] = start[f] /\ start[f] \in Nat
        /\ Len(files[f]) \in Nat /\ Len(files'[f]) \in Nat
        /\ Len(files[f]) <= Len(files'[f])
        /\ End(start, f) = start[f] + Len(files[f])
  <2>1. ASSUME NEW f \in 1 .. Len(files)
        PROVE  Len(files[f]) \in Nat /\ Len(files'[f]) \in Nat
    <3>1. f \in 1 .. Len(files')
      BY <1>2
    <3> QED
      BY <1>0, <3>1, FilesAre, ElementOfSeq, LenProperties DEF FilesTyped
  <2> QED
    BY <2>1 DEF Grows, End
<1>4. Opened(more)'
  <2>1. CASE phase \in {"list", "reading"}
    <3>1. handle \in 1 .. Len(files) /\ handle <= segments + 1 /\ since <= End(start, handle)
      BY <2>1 DEF Opened
    <3>2. since \in Nat
      BY <1>0, <2>1 DEF WalkTyped
    <3>3. /\ more[handle] = start[handle] /\ start[handle] \in Nat
          /\ Len(files[handle]) \in Nat /\ Len(files'[handle]) \in Nat
          /\ Len(files[handle]) <= Len(files'[handle])
          /\ End(start, handle) = start[handle] + Len(files[handle])
      BY <1>3, <3>1
    <3>4. since <= more[handle] + Len(files'[handle])
      BY <3>1, <3>2, <3>3
    <3>5. quiet' = FALSE
      BY <1>1, <2>1
    <3>6. handle \in 1 .. Len(files') /\ handle <= segments' + 1
      <4>1. handle \in 1 .. Len(files) /\ handle <= segments + 1
        BY <3>1
      <4>2. handle \in Int /\ 1 <= handle /\ handle <= Len(files)
        BY <1>2, <4>1
      <4>3. handle <= segments' + 1
        <5>1. \A h, s, t \in Int : h <= s + 1 /\ s <= t => h <= t + 1
          OBVIOUS
        <5>2. segments \in Int /\ segments' \in Int /\ segments <= segments'
          BY <1>2
        <5> QED
          BY <4>1, <4>2, <5>1, <5>2, Zenon
      <4>4. handle <= Len(files')
        BY <1>2, <4>2
      <4>5. handle \in 1 .. Len(files')
        BY <1>2, <4>2, <4>4
      <4> QED
        BY <4>3, <4>5
    <3> QED
      BY <1>1, <3>4, <3>5, <3>6 DEF Opened, End
  <2>2. CASE phase \notin {"list", "reading"}
    BY <1>1, <2>2 DEF Opened
  <2> QED
    BY <2>1, <2>2
<1>5. Reading(more, listed)'
  <2>1. CASE phase = "reading"
    <3> DEFINE q == Len(queue)
    <3>1. /\ handle <= listed + 1 /\ count <= Len(log)
          /\ head = SubSeq(log, 1, count) /\ q <= listed + 1
          /\ \A i \in 1 .. q :
               queue[i] = IF i = q THEN handle ELSE listed + 1 + i - q
          /\ q >= 2 \/ (q = 1 /\ handle = listed + 1) =>
               count = start[queue[1]] + offset /\ offset <= Len(files[queue[1]])
          /\ q = 1 /\ handle <= listed => offset = 0 /\ End(start, handle) <= count
          /\ q = 0 => since <= count
      BY <2>1 DEF Reading
    <3>2. q \in Nat /\ offset \in Nat /\ count \in Nat /\ handle \in 0 .. Len(files)
          /\ (q >= 1 => queue[1] \in 1 .. Len(files))
      <4>1. queue \in Seq(1 .. Len(files))
        BY <1>0 DEF WalkTyped
      <4>2. \A i \in 1 .. q : queue[i] \in 1 .. Len(files)
        BY <4>1, ElementOfSeq
      <4>3. q \in Nat
        BY <4>1, LenProperties
      <4> QED
        BY <1>0, <4>2, <4>3 DEF WalkTyped
    <3>3. handle \in 1 .. Len(files)
      BY <2>1 DEF Opened
    <3>4. head = SubSeq(log', 1, count) /\ count <= Len(log')
      BY <1>2, <3>1, <3>2 DEF Grows
    <3>5. q >= 2 \/ (q = 1 /\ handle = listed + 1) =>
            count = more[queue[1]] + offset /\ offset <= Len(files'[queue[1]])
      <4>1. ASSUME q >= 1
            PROVE  /\ more[queue[1]] = start[queue[1]]
                   /\ Len(files[queue[1]]) \in Nat /\ Len(files'[queue[1]]) \in Nat
                   /\ Len(files[queue[1]]) <= Len(files'[queue[1]])
        BY <1>3, <3>2, <4>1
      <4>2. ASSUME q >= 2 \/ (q = 1 /\ handle = listed + 1)
            PROVE  count = start[queue[1]] + offset /\ offset <= Len(files[queue[1]])
        BY <3>1, <4>2
      <4>3. ASSUME q >= 2 \/ (q = 1 /\ handle = listed + 1)
            PROVE  q >= 1
        <5>1. q \in Nat
          BY <3>2
        <5> HIDE DEF q
        <5> QED
          BY <4>3, <5>1
      <4>4. offset \in Nat
        BY <3>2
      <4> QED
        BY <4>1, <4>2, <4>3, <4>4
    <3>6. q = 1 /\ handle <= listed =>
            offset = 0 /\ more[handle] + Len(files'[handle]) <= count
      <4>1. handle <= listed => files'[handle] = files[handle]
        BY <1>2, <3>3 DEF Grows
      <4>2. /\ more[handle] = start[handle]
            /\ End(start, handle) = start[handle] + Len(files[handle])
        BY <1>3, <3>3
      <4> QED
        BY <3>1, <4>1, <4>2
    <3>7. quiet' = FALSE
      BY <1>1, <2>1
    <3>8. listed \in 0 .. segments'
      BY <1>2
    <3> HIDE DEF q
    <3> QED
      BY <1>1, <3>1, <3>4, <3>5, <3>6, <3>7, <3>8 DEF Reading, End, q
  <2>2. CASE phase # "reading"
    BY <1>1, <2>2 DEF Reading
  <2> QED
    BY <2>1, <2>2
<1>6. Reason'
  BY <1>1 DEF Reason
<1>7. listed \in 0 .. segments'
  BY <1>2
<1> QED
  BY <1>4, <1>5, <1>6, <1>7 DEF Untampered

\* The layout, with the end of each file written out.
LEMMA LayoutIs ==
  ASSUME FilesTyped, NEW start
  PROVE  Layout(start) <=>
    /\ start \in [1 .. Len(files) -> Nat] /\ start[1] = 0
    /\ \A f \in 1 .. Len(files) - 1 : start[f + 1] = start[f] + Len(files[f])
    /\ \A f, g \in 1 .. Len(files) : f < g => start[f] + Len(files[f]) <= start[g]
    /\ \A f \in 1 .. Len(files) : \A l \in 1 .. Len(files[f]) :
         files[f][l] = IF start[f] + l <= Len(log)
                       THEN SubSeq(log, 1, start[f] + l) ELSE Damaged
    /\ start[Len(files)] <= Len(log)
    /\ start[Len(files)] + Len(files[Len(files)]) \in {Len(log), Len(log) + 1}
    /\ start[Len(files)] + Len(files[Len(files)]) = Len(log) + 1 =>
         ActiveExists /\ Len(log) < MaxLog
  BY DEF Layout, End

\* An append changes the last file alone.
LEMMA LastFileGrows ==
  ASSUME IInv, FilesTyped', tampered = 0, ActiveExists,
         NEW c \in Seq(Lines), files' = [files EXCEPT ![Len(files)] = c],
         Len(files[Len(files)]) <= Len(c), segments' = segments,
         Len(log) <= Len(log'),
         \A k \in 0 .. Len(log) : SubSeq(log', 1, k) = SubSeq(log, 1, k)
  PROVE  /\ Grows /\ Len(files') = Len(files) /\ files'[Len(files)] = c
         /\ \A f \in 1 .. Len(files) - 1 : files'[f] = files[f]
<1>0. FilesTyped
  BY DEF IInv
<1>1. /\ Len(files) \in Nat \ {0} /\ segments = Len(files) - 1
      /\ \A f \in 1 .. Len(files) : Len(files[f]) \in Nat
  BY <1>0, FilesAre
<1>2. /\ Len(files') = Len(files)
      /\ \A f \in 1 .. Len(files) : files'[f] = IF f = Len(files) THEN c ELSE files[f]
  BY <1>0, <1>1, ReplaceFile DEF FilesTyped
<1>3. files'[Len(files)] = c
  BY <1>1, <1>2
<1>4. \A f \in 1 .. Len(files) - 1 : files'[f] = files[f]
  BY <1>1, <1>2
<1>5. \A f \in 1 .. Len(files) : Len(files[f]) <= Len(files'[f])
  BY <1>1, <1>2
<1>6. \A f \in 1 .. segments : files'[f] = files[f]
  BY <1>1, <1>4
<1>7. segments <= segments' /\ Len(files) <= Len(files')
  BY <1>1, <1>2
<1> QED
  BY <1>2, <1>3, <1>4, <1>5, <1>6, <1>7 DEF Grows

LEMMA OrderAfterBegin ==
  ASSUME IInv, FilesTyped', tampered = 0, BeginAppend,
         NEW start \in [1 .. Len(files) -> Nat], Layout(start)
  PROVE  Grows /\ Len(files') = Len(files) /\ Layout(start)'
<1> DEFINE n == Len(files)
           c == files[n]
           d == Append(c, Damaged)
<1>0. FilesTyped
  BY DEF IInv
<1>1. /\ n \in Nat \ {0} /\ c \in Seq(Lines) /\ Len(c) \in Nat /\ Len(log) \in Nat
  BY <1>0, FilesAre
<1>2. /\ d \in Seq(Lines) /\ Len(d) = Len(c) + 1 /\ d[Len(c) + 1] = Damaged
      /\ \A l \in 1 .. Len(c) : d[l] = c[l]
  BY <1>1, AppendProperties DEF Lines
<1>3. files' = [files EXCEPT ![n] = d]
  BY DEF BeginAppend
<1>4. ActiveExists /\ segments' = segments /\ log' = log /\ Len(log) < MaxLog
  BY DEF BeginAppend
<1>5. start[n] + Len(c) = Len(log) /\ start[n] \in Nat
  <2>1. ~(Last(files) # <<>> /\ Torn)
    BY DEF BeginAppend
  <2>2. start[n] + Len(c) # Len(log) + 1
    BY <1>0, <2>1, TornTail DEF End
  <2>3. start[n] + Len(c) \in {Len(log), Len(log) + 1} /\ start[n] \in Nat
    BY <1>0, <1>1, LayoutIs
  <2> QED
    BY <2>2, <2>3
<1> HIDE DEF d
<1>6. /\ Grows /\ Len(files') = n /\ files'[n] = d
      /\ \A f \in 1 .. n - 1 : files'[f] = files[f]
  <2>1. Len(c) <= Len(d) /\ Len(log) <= Len(log')
    BY <1>1, <1>2, <1>4
  <2>2. \A k \in 0 .. Len(log) : SubSeq(log', 1, k) = SubSeq(log, 1, k)
    BY <1>4
  <2>3. d \in Seq(Lines) /\ ActiveExists /\ segments' = segments
    BY <1>2, <1>4
  <2> QED
    BY <1>3, <2>1, <2>2, <2>3, LastFileGrows
<1>7. /\ start[1] = 0
      /\ \A f \in 1 .. n - 1 : start[f + 1] = start[f] + Len(files[f])
      /\ \A f, g \in 1 .. n : f < g => start[f] + Len(files[f]) <= start[g]
      /\ \A f \in 1 .. n : \A l \in 1 .. Len(files[f]) :
           files[f][l] = IF start[f] + l <= Len(log)
                         THEN SubSeq(log, 1, start[f] + l) ELSE Damaged
  BY <1>0, LayoutIs
<1>8. \A l \in 1 .. Len(d) :
        d[l] = IF start[n] + l <= Len(log) THEN SubSeq(log, 1, start[n] + l) ELSE Damaged
  <2> SUFFICES ASSUME NEW l \in 1 .. Len(d)
               PROVE  d[l] = IF start[n] + l <= Len(log)
                             THEN SubSeq(log, 1, start[n] + l) ELSE Damaged
    OBVIOUS
  <2>1. CASE l = Len(c) + 1
    <3>1. ~(start[n] + l <= Len(log))
      BY <1>1, <1>5, <2>1
    <3> QED
      BY <1>2, <2>1, <3>1
  <2>2. CASE l \in 1 .. Len(c)
    <3>1. d[l] = c[l] /\ n \in 1 .. n
      BY <1>1, <1>2, <2>2
    <3> QED
      BY <1>7, <2>2, <3>1
  <2> QED
    BY <1>1, <1>2, <2>1, <2>2
<1>9. \A f \in 1 .. n : \A l \in 1 .. Len(files'[f]) :
        files'[f][l] = IF start[f] + l <= Len(log')
                       THEN SubSeq(log', 1, start[f] + l) ELSE Damaged
  <2> SUFFICES ASSUME NEW f \in 1 .. n
               PROVE  \A l \in 1 .. Len(files'[f]) :
                        files'[f][l] = IF start[f] + l <= Len(log)
                                       THEN SubSeq(log, 1, start[f] + l) ELSE Damaged
    BY <1>4
  <2>1. CASE f = n
    BY <1>6, <1>8, <2>1
  <2>2. CASE f \in 1 .. n - 1
    BY <1>6, <1>7, <2>2
  <2> QED
    BY <1>1, <2>1, <2>2
<1>10. /\ \A f \in 1 .. n - 1 : start[f + 1] = start[f] + Len(files'[f])
       /\ \A f, g \in 1 .. n : f < g => start[f] + Len(files'[f]) <= start[g]
  <2>1. \A f, g \in 1 .. n : f < g => f \in 1 .. n - 1
    BY <1>1
  <2> QED
    BY <1>6, <1>7, <2>1
<1>11. start[n] + Len(files'[n]) = Len(log) + 1 /\ start[n] <= Len(log)
  BY <1>1, <1>2, <1>5, <1>6
<1>12. ActiveExists'
  BY <1>4, <1>6 DEF ActiveExists
<1> HIDE DEF n, c
<1> QED
  BY <1>4, <1>6, <1>7, <1>9, <1>10, <1>11, <1>12 DEF Layout, End, n

LEMMA OrderAfterFinish ==
  ASSUME IInv, FilesTyped', NEW b \in Bodies, FinishAppend(b),
         NEW start \in [1 .. Len(files) -> Nat], Layout(start)
  PROVE  Grows /\ Len(files') = Len(files) /\ Layout(start)'
<1> DEFINE n == Len(files)
           c == files[n]
           d == Append(Front(c), log')
<1>0. FilesTyped
  BY DEF IInv
<1>1. /\ n \in Nat \ {0} /\ c \in Seq(Lines) /\ Len(c) \in Nat /\ Len(log) \in Nat
      /\ Last(files) = c
  BY <1>0, FilesAre
<1>2. c # <<>> /\ Torn /\ ActiveExists /\ tampered = 0
      /\ segments' = segments /\ log' = Append(log, b)
  BY <1>1 DEF FinishAppend
<1>3. files' = [files EXCEPT ![n] = d]
  BY DEF FinishAppend
<1>4. start[n] + Len(c) = Len(log) + 1 /\ start[n] \in Nat
  BY <1>0, <1>1, <1>2, TornTail DEF End
<1>5. /\ Len(log') = Len(log) + 1
      /\ \A k \in 0 .. Len(log) : SubSeq(log', 1, k) = SubSeq(log, 1, k)
      /\ SubSeq(log', 1, Len(log) + 1) = log'
  BY <1>0, <1>2, LogAppend DEF FilesTyped
<1>6. log' \in Lines
  <2>1. log' \in Seq(Bodies) /\ Len(log') <= MaxLog
    BY DEF FilesTyped
  <2>2. Len(log') \in 1 .. MaxLog
    BY <1>1, <1>5, <2>1, WalkAssumption
  <2> QED
    BY <2>1, <2>2, HistoriesAre DEF Lines
<1>7. /\ d \in Seq(Lines) /\ Len(d) = Len(c) /\ d[Len(c)] = log'
      /\ \A l \in 1 .. Len(c) - 1 : d[l] = c[l]
  <2> DEFINE e == Front(c)
  <2>1. Len(c) - 1 \in 0 .. Len(c)
    BY <1>1, <1>2, EmptySeq
  <2>2. /\ e \in Seq(Lines) /\ Len(e) = Len(c) - 1
        /\ \A l \in 1 .. Len(c) - 1 : e[l] = c[l]
    BY <1>1, <2>1, Prefix DEF Front
  <2> HIDE DEF e, c
  <2>3. /\ Append(e, log') \in Seq(Lines) /\ Len(Append(e, log')) = Len(e) + 1
        /\ Append(e, log')[Len(e) + 1] = log'
        /\ \A l \in 1 .. Len(e) : Append(e, log')[l] = e[l]
    BY <1>6, <2>2, AppendProperties
  <2>4. Len(e) + 1 = Len(c)
    BY <1>1, <2>2
  <2>5. d = Append(e, log')
    BY DEF e
  <2> HIDE DEF d
  <2> QED
    BY <2>2, <2>3, <2>4, <2>5
<1> HIDE DEF d
<1>8. /\ Grows /\ Len(files') = n /\ files'[n] = d
      /\ \A f \in 1 .. n - 1 : files'[f] = files[f]
  <2>1. Len(c) <= Len(d) /\ Len(log) <= Len(log')
    BY <1>1, <1>5, <1>7
  <2> QED
    BY <1>2, <1>3, <1>5, <1>7, <2>1, LastFileGrows
<1>9. /\ start[1] = 0
      /\ \A f \in 1 .. n - 1 : start[f + 1] = start[f] + Len(files[f])
      /\ \A f, g \in 1 .. n : f < g => start[f] + Len(files[f]) <= start[g]
      /\ \A f \in 1 .. n : \A l \in 1 .. Len(files[f]) :
           files[f][l] = IF start[f] + l <= Len(log)
                         THEN SubSeq(log, 1, start[f] + l) ELSE Damaged
      /\ start[n] <= Len(log)
  BY <1>0, LayoutIs
<1>10. ASSUME NEW f \in 1 .. n, NEW l \in 1 .. Len(files'[f])
       PROVE  files'[f][l] = IF start[f] + l <= Len(log')
                             THEN SubSeq(log', 1, start[f] + l) ELSE Damaged
  <2>1. CASE f = n /\ l = Len(c)
    <3>1. files'[f][l] = log'
      BY <1>7, <1>8, <2>1
    <3>2. start[f] + l = Len(log) + 1
      BY <1>4, <2>1
    <3>3. start[f] + l <= Len(log')
      BY <1>1, <1>5, <3>2
    <3>4. SubSeq(log', 1, start[f] + l) = log'
      BY <1>5, <3>2, Zenon
    <3> QED
      BY <3>1, <3>3, <3>4
  <2>2. CASE ~(f = n /\ l = Len(c))
    <3>1. /\ files'[f][l] = files[f][l] /\ l \in 1 .. Len(files[f])
          /\ start[f] + l <= Len(log)
      <4>1. CASE f = n
        <5>1. l \in 1 .. Len(c) - 1
          BY <1>1, <1>7, <1>8, <1>10, <2>2, <4>1
        <5>2. files'[f][l] = c[l]
          BY <1>7, <1>8, <4>1, <5>1
        <5> QED
          BY <1>1, <1>4, <4>1, <5>1, <5>2
      <4>2. CASE f # n
        <5>1. f \in 1 .. n - 1 /\ n \in 1 .. n /\ f < n
          BY <1>1, <4>2
        <5>2. files'[f] = files[f]
          BY <1>8, <5>1
        <5>3. start[f] + Len(files[f]) <= start[n]
          BY <1>9, <5>1
        <5>4. Len(files[f]) \in Nat /\ start[f] \in Nat
          BY <1>0, FilesAre
        <5>5. l \in 1 .. Len(files[f])
          BY <1>10, <5>2
        <5>6. start[f] + l <= Len(log)
          BY <1>1, <1>4, <1>9, <5>3, <5>4, <5>5
        <5> QED
          BY <5>2, <5>5, <5>6
      <4> QED
        BY <4>1, <4>2
    <3>2. files[f][l] = SubSeq(log, 1, start[f] + l)
      BY <1>9, <3>1
    <3>3. start[f] \in Nat /\ l \in Nat /\ Len(files[f]) \in Nat
      BY <1>0, <3>1, FilesAre
    <3>4. start[f] + l \in 0 .. Len(log) /\ start[f] + l <= Len(log')
      BY <1>1, <1>5, <3>1, <3>3
    <3>5. SubSeq(log', 1, start[f] + l) = SubSeq(log, 1, start[f] + l)
      BY <1>5, <3>4
    <3> QED
      BY <3>1, <3>2, <3>4, <3>5
  <2> QED
    BY <2>1, <2>2
<1>11. /\ \A f \in 1 .. n - 1 : start[f + 1] = start[f] + Len(files'[f])
       /\ \A f, g \in 1 .. n : f < g => start[f] + Len(files'[f]) <= start[g]
  <2>1. \A f, g \in 1 .. n : f < g => f \in 1 .. n - 1
    BY <1>1
  <2> QED
    BY <1>8, <1>9, <2>1
<1>12. start[n] + Len(files'[n]) = Len(log') /\ start[n] <= Len(log')
       /\ Len(log') \in Nat
  BY <1>1, <1>4, <1>5, <1>7, <1>8, <1>9
<1>13. start[n] + Len(files'[n]) # Len(log') + 1
  BY <1>12
<1> HIDE DEF n, c
<1> QED
  BY <1>8, <1>9, <1>10, <1>11, <1>12, <1>13 DEF Layout, End, n

LEMMA OrderAfterRotate ==
  ASSUME IInv, RotateAway, NEW start \in [1 .. Len(files) -> Nat], Layout(start)
  PROVE  Grows /\ Len(files') = Len(files) /\ Layout(start)'
<1>0. FilesTyped
  BY DEF IInv
<1>1. files' = files /\ log' = log /\ segments' = Len(files) /\ segments <= Len(files)
      /\ Len(files) \in Nat /\ Len(log) \in Nat
  BY <1>0, FilesAre DEF RotateAway, FilesTyped
<1>2. End(start, Len(files)) # Len(log) + 1
  BY <1>0, TornTail DEF RotateAway
<1>3. Grows
  <2>1. \A f \in 1 .. Len(files) : Len(files[f]) <= Len(files[f])
    BY <1>0, FilesAre
  <2> QED
    BY <1>1, <2>1 DEF Grows
<1>4. Layout(start)'
  <2>1. End(start, Len(files))' = End(start, Len(files))
        /\ \A f : End(start, f)' = End(start, f)
    BY <1>1 DEF End
  <2> QED
    BY <1>1, <1>2, <2>1 DEF Layout
<1> QED
  BY <1>1, <1>3, <1>4

LEMMA OrderAfterCreate ==
  ASSUME IInv, CreateActive,
         NEW start \in [1 .. Len(files) -> Nat], Layout(start)
  PROVE  /\ Grows
         /\ \E more \in [1 .. Len(files') -> Nat] :
              Layout(more)' /\ \A f \in 1 .. Len(files) : more[f] = start[f]
<1>0. FilesTyped
  BY DEF IInv
<1>1. /\ Len(files) \in Nat \ {0} /\ Len(log) \in Nat
      /\ \A f \in 1 .. Len(files) : Len(files[f]) \in Nat /\ start[f] \in Nat
  BY <1>0, FilesAre
<1>2. /\ Len(files') = Len(files) + 1 /\ files'[Len(files) + 1] = <<>>
      /\ \A f \in 1 .. Len(files) : files'[f] = files[f]
  BY <1>0, AddFile DEF CreateActive, FilesTyped
<1>3. log' = log /\ segments' = segments /\ ~ActiveExists
  BY DEF CreateActive
<1>4. Grows
  <2>1. segments <= Len(files) /\ segments \in Nat
    BY <1>0, <1>1, FilesAre DEF FilesTyped
  <2>2. /\ Len(files) <= Len(files') /\ Len(log) <= Len(log')
        /\ segments <= segments'
    BY <1>1, <1>2, <1>3, <2>1
  <2>3. \A f \in 1 .. segments : files'[f] = files[f]
    BY <1>1, <1>2, <2>1
  <2>4. \A f \in 1 .. Len(files) : Len(files[f]) <= Len(files'[f])
    BY <1>1, <1>2
  <2> QED
    BY <1>3, <2>2, <2>3, <2>4 DEF Grows
<1> DEFINE n == Len(files)
<1>5. /\ start[1] = 0
      /\ \A f \in 1 .. n - 1 : start[f + 1] = start[f] + Len(files[f])
      /\ \A f, g \in 1 .. n : f < g => start[f] + Len(files[f]) <= start[g]
      /\ \A f \in 1 .. n : \A l \in 1 .. Len(files[f]) :
           files[f][l] = IF start[f] + l <= Len(log)
                         THEN SubSeq(log, 1, start[f] + l) ELSE Damaged
      /\ start[n] <= Len(log)
      /\ start[n] + Len(files[n]) \in {Len(log), Len(log) + 1}
      /\ start[n] + Len(files[n]) # Len(log) + 1
  BY <1>0, <1>3, LayoutIs
<1>6. start[n] + Len(files[n]) = Len(log)
  BY <1>5
<1>7. PICK more : more = [f \in 1 .. n + 1 |-> IF f <= n THEN start[f] ELSE Len(log)]
  OBVIOUS
<1>8. /\ more \in [1 .. Len(files') -> Nat] /\ more[n + 1] = Len(log)
      /\ \A f \in 1 .. n : more[f] = start[f]
  BY <1>1, <1>2, <1>7
<1>9. /\ Len(files'[n + 1]) = 0
      /\ \A f \in 1 .. n : Len(files'[f]) = Len(files[f])
  BY <1>2, EmptySeq
<1>10. \A f \in 1 .. n : more[f + 1] = more[f] + Len(files'[f])
  <2> SUFFICES ASSUME NEW f \in 1 .. n
               PROVE  more[f + 1] = start[f] + Len(files[f])
    BY <1>8, <1>9
  <2>1. CASE f = n
    BY <1>6, <1>8, <2>1
  <2>2. CASE f # n
    <3>1. f \in 1 .. n - 1 /\ f + 1 \in 1 .. n
      BY <1>1, <2>2
    <3> QED
      BY <1>5, <1>8, <3>1
  <2> QED
    BY <2>1, <2>2
<1>11. \A f, g \in 1 .. n + 1 : f < g => more[f] + Len(files'[f]) <= more[g]
  <2> SUFFICES ASSUME NEW f \in 1 .. n + 1, NEW g \in 1 .. n + 1, f < g
               PROVE  more[f] + Len(files'[f]) <= more[g]
    OBVIOUS
  <2>1. f \in 1 .. n
    BY <1>1
  <2>2. CASE g \in 1 .. n
    <3>1. start[f] + Len(files[f]) <= start[g]
      BY <1>5, <2>1, <2>2
    <3> QED
      BY <1>8, <1>9, <2>1, <2>2, <3>1
  <2>3. CASE g = n + 1
    <3>1. start[f] + Len(files[f]) <= Len(log)
      <4>1. CASE f = n
        BY <1>1, <1>6, <4>1
      <4>2. CASE f < n
        <5>1. f \in 1 .. n /\ n \in 1 .. n
          BY <1>1, <2>1
        <5>2. start[f] + Len(files[f]) <= start[n]
          BY <1>5, <4>2, <5>1
        <5>3. start[f] \in Nat /\ Len(files[f]) \in Nat /\ start[n] \in Nat
          BY <1>1, <5>1
        <5>4. start[n] <= Len(log)
          BY <1>5
        <5> QED
          BY <1>1, <5>2, <5>3, <5>4
      <4>3. f = n \/ f < n
        BY <1>1, <2>1
      <4> QED
        BY <4>1, <4>2, <4>3
    <3> QED
      BY <1>8, <1>9, <2>1, <2>3, <3>1
  <2> QED
    BY <1>1, <2>2, <2>3
<1>12. ASSUME NEW f \in 1 .. n + 1, NEW l \in 1 .. Len(files'[f])
       PROVE  files'[f][l] = IF more[f] + l <= Len(log)
                             THEN SubSeq(log, 1, more[f] + l) ELSE Damaged
  <2>1. f \in 1 .. n
    BY <1>1, <1>9, <1>12
  <2>2. /\ files'[f] = files[f] /\ more[f] = start[f] /\ l \in 1 .. Len(files[f])
    BY <1>2, <1>8, <1>12, <2>1
  <2> QED
    BY <1>5, <2>1, <2>2
<1>13. /\ more[n + 1] <= Len(log) /\ more[n + 1] + Len(files'[n + 1]) = Len(log)
       /\ Len(log) # Len(log) + 1 /\ more[1] = 0
  BY <1>1, <1>5, <1>8, <1>9
<1>14. Len(files') = n + 1 /\ Len(files') - 1 = n
  BY <1>1, <1>2
<1> HIDE DEF n
<1>15. Layout(more)'
  BY <1>3, <1>8, <1>10, <1>11, <1>12, <1>13, <1>14 DEF Layout, End
<1> QED
  BY <1>4, <1>8, <1>15 DEF n

LEMMA EnvironmentKept ==
  ASSUME IInv, Environment, FilesTyped'
  PROVE  Untampered'
<1>1. CASE \E f \in DOMAIN files : \E l \in DOMAIN files[f] : Tamper(f, l)
  <2>1. tampered' = tampered + 1 /\ tampered \in Nat
    BY <1>1 DEF Tamper, IInv, FilesTyped
  <2>2. tampered' # 0
    BY <2>1
  <2> QED
    BY <2>2 DEF Untampered
<1>2. ASSUME tampered = 0,
             BeginAppend \/ RotateAway \/ CreateActive \/ \E b \in Bodies : FinishAppend(b)
      PROVE  Untampered'
  <2>1. PICK start \in [1 .. Len(files) -> Nat], listed \in 0 .. segments :
               Layout(start) /\ Opened(start) /\ Reading(start, listed)
    BY <1>2 DEF IInv, Untampered
  <2>2. CASE Grows /\ Len(files') = Len(files) /\ Layout(start)'
    <3>1. start \in [1 .. Len(files') -> Nat]
      BY <2>2
    <3> QED
      BY <1>2, <2>1, <2>2, <3>1, WalkUndisturbed
  <2>3. CASE CreateActive
    <3>1. /\ Grows
          /\ \E more \in [1 .. Len(files') -> Nat] :
               Layout(more)' /\ \A f \in 1 .. Len(files) : more[f] = start[f]
      BY <2>1, <2>3, OrderAfterCreate
    <3>2. PICK more \in [1 .. Len(files') -> Nat] :
               Layout(more)' /\ \A f \in 1 .. Len(files) : more[f] = start[f]
      BY <3>1
    <3> QED
      BY <1>2, <2>1, <3>1, <3>2, WalkUndisturbed
  <2> QED
    BY <1>2, <2>1, <2>2, <2>3, OrderAfterBegin, OrderAfterFinish, OrderAfterRotate
<1>3. CASE tampered # 0
  <2>1. ASSUME BeginAppend \/ RotateAway \/ CreateActive \/ \E b \in Bodies : FinishAppend(b)
        PROVE  tampered' = tampered
    BY <2>1 DEF BeginAppend, RotateAway, CreateActive, FinishAppend
  <2> QED
    BY <1>1, <1>3, <2>1 DEF Environment, Untampered
<1> QED
  BY <1>1, <1>2, <1>3 DEF Environment
-----------------------------------------------------------------------------
(* A walk of an untampered ledger follows the log.                         *)

LEMMA SameLayout ==
  ASSUME UNCHANGED fileVars, NEW start
  PROVE  /\ Layout(start)' <=> Layout(start)
         /\ \A f : End(start, f)' = End(start, f)
         /\ ActiveExists' <=> ActiveExists
         /\ Torn' <=> Torn
<1>1. files' = files /\ segments' = segments /\ log' = log
  BY DEF fileVars
<1>2. ActiveExists' <=> ActiveExists
  BY <1>1 DEF ActiveExists
<1>3. \A f : End(start, f)' = End(start, f)
  BY <1>1 DEF End
<1>4. Torn' <=> Torn
  BY <1>1 DEF Torn
<1>5. Layout(start)' <=> Layout(start)
  BY <1>1, <1>2 DEF Layout, End
<1> QED
  BY <1>2, <1>3, <1>4, <1>5

\* What the steps of a walk are to keep, for some starts of the files.
LEMMA WalkFollows ==
  ASSUME IInv, UNCHANGED fileVars, tampered = 0,
         NEW start \in [1 .. Len(files) -> Nat], NEW listed \in 0 .. segments,
         Layout(start), Opened(start)', Reading(start, listed)', Reason'
  PROVE  Untampered'
<1>1. files' = files /\ segments' = segments
  BY DEF fileVars
<1>2. Layout(start)'
  BY SameLayout
<1> QED
  BY <1>1, <1>2 DEF Untampered

LEMMA OpenKept ==
  ASSUME IInv, OpenActive, tampered = 0
  PROVE  Untampered'
<1>0. FilesTyped /\ WalkTyped
  BY DEF IInv
<1>1. PICK start \in [1 .. Len(files) -> Nat], listed \in 0 .. segments : Layout(start)
  BY DEF IInv, Untampered
<1>2. UNCHANGED fileVars /\ quiet' = quiet /\ phase = "idle"
  BY DEF OpenActive
<1>3. CASE ActiveExists
  <2>1. /\ phase' = "list" /\ handle' = Len(files) /\ since' = Len(log)
    BY <1>3 DEF OpenActive
  <2>2. /\ Len(files) \in Nat \ {0} /\ Len(log) \in Nat /\ segments = Len(files) - 1
        /\ start[Len(files)] + Len(files[Len(files)]) \in {Len(log), Len(log) + 1}
    BY <1>0, <1>1, <1>3, FilesAre, LayoutIs
  <2>3. files' = files /\ segments' = segments
    BY <1>2 DEF fileVars
  <2>4. Len(log) <= start[Len(files)] + Len(files[Len(files)])
    BY <2>2
  <2>5. Len(files) \in 1 .. Len(files) /\ Len(files) <= segments + 1
    BY <2>2
  <2>6. Opened(start)'
    BY <2>1, <2>2, <2>3, <2>4, <2>5 DEF Opened, End
  <2>7. Reading(start, listed)' /\ Reason'
    BY <2>1 DEF Reading, Reason
  <2> QED
    BY <1>1, <1>2, <2>6, <2>7, WalkFollows
<1>4. CASE ~ActiveExists
  <2>1. phase' = "failed"
    BY <1>4 DEF OpenActive, Fail
  <2>2. Reason'
    BY <1>2, <1>4, SameLayout DEF Reason
  <2>3. Opened(start)' /\ Reading(start, listed)'
    BY <2>1 DEF Opened, Reading
  <2> QED
    BY <1>1, <1>2, <2>2, <2>3, WalkFollows
<1> QED
  BY <1>3, <1>4

LEMMA ListKept ==
  ASSUME IInv, ListSegments, tampered = 0
  PROVE  Untampered'
<1>0. FilesTyped /\ WalkTyped
  BY DEF IInv
<1>1. PICK start \in [1 .. Len(files) -> Nat] : Layout(start) /\ Opened(start)
  BY DEF IInv, Untampered
<1>2. /\ UNCHANGED fileVars /\ phase = "list" /\ phase' = "reading"
      /\ queue' = ReadOrder
      /\ handle' = handle /\ offset' = offset /\ count' = count /\ head' = head
      /\ since' = since /\ quiet' = quiet
  BY DEF ListSegments, chainVars
<1>3. files' = files /\ segments' = segments /\ log' = log
  BY <1>2 DEF fileVars
<1>4. /\ handle \in 1 .. Len(files) /\ handle <= segments + 1
      /\ quiet => handle = Len(files) /\ segments = Len(files) - 1
  BY <1>1, <1>2 DEF Opened
<1>5. offset = 0 /\ count = 0 /\ head = <<>>
  BY <1>0, <1>2 DEF WalkTyped
<1>6. segments \in Nat /\ Len(files) \in Nat \ {0} /\ Len(log) \in Nat
  BY <1>0, FilesAre
<1>7. /\ Len(queue') = segments + 1
      /\ \A i \in 1 .. segments + 1 :
           queue'[i] = IF i = segments + 1 THEN handle ELSE i
  <2> DEFINE r == [s \in 1 .. segments |-> s]
             h == <<handle>>
  <2>1. r \in Seq(Nat) /\ Len(r) = segments /\ \A i \in 1 .. segments : r[i] = i
    BY <1>6, IsASeq
  <2>2. h \in Seq(Nat) /\ Len(h) = 1 /\ h[1] = handle
    BY <1>4
  <2> HIDE DEF r, h
  <2>3. /\ Len(r \o h) = segments + 1
        /\ \A i \in 1 .. segments : (r \o h)[i] = i
        /\ (r \o h)[segments + 1] = handle
    <3>1. /\ Len(r \o h) = Len(r) + Len(h)
          /\ \A i \in 1 .. Len(r) + Len(h) :
               (r \o h)[i] = IF i <= Len(r) THEN r[i] ELSE h[i - Len(r)]
      BY <2>1, <2>2, ConcatProperties
    <3>2. segments + 1 \in 1 .. segments + 1 /\ segments + 1 - segments = 1
      BY <1>6
    <3> QED
      BY <1>6, <2>1, <2>2, <3>1, <3>2
  <2>4. ReadOrder = r \o h
    BY DEF ReadOrder, r, h
  <2> QED
    BY <1>2, <1>6, <2>3, <2>4
<1>8. queue'[1] = 1
  BY <1>4, <1>6, <1>7
<1>9. PICK listed \in 0 .. segments : listed = segments
  BY <1>6
<1>10. Opened(start)'
  BY <1>1, <1>2, <1>3 DEF Opened, End
<1>11. Reading(start, listed)'
  <2>1. listed \in 0 .. segments' /\ segments + 1 <= listed + 1
    BY <1>3, <1>6, <1>9
  <2>2. count' <= Len(log') /\ head' = SubSeq(log', 1, count')
    <3>1. SubSeq(log, 1, 0) = <<>>
      BY <1>0, SubSeqEmpty DEF FilesTyped
    <3> QED
      BY <1>2, <1>3, <1>5, <1>6, <3>1
  <2>3. \A i \in 1 .. Len(queue') :
          queue'[i] = IF i = Len(queue') THEN handle' ELSE listed + 1 + i - Len(queue')
    BY <1>2, <1>6, <1>7, <1>9
  <2>4. start[1] = 0 /\ Len(files[1]) \in Nat
    <3>1. 1 \in 1 .. Len(files)
      BY <1>6
    <3>2. Len(files[1]) \in Nat
      BY <1>0, <3>1, FilesAre
    <3>3. start[1] = 0
      BY <1>1 DEF Layout
    <3> QED
      BY <3>2, <3>3
  <2>5. count' = start[queue'[1]] + offset' /\ offset' <= Len(files'[queue'[1]])
    BY <1>2, <1>3, <1>5, <1>8, <2>4
  <2>6. ~(Len(queue') = 1 /\ handle' <= listed) /\ Len(queue') # 0
    BY <1>2, <1>4, <1>6, <1>7, <1>9
  <2> QED
    BY <1>2, <1>3, <1>4, <1>7, <1>9, <2>1, <2>2, <2>3, <2>5, <2>6 DEF Reading
<1>12. Reason'
  BY <1>2 DEF Reason
<1> QED
  BY <1>1, <1>2, <1>10, <1>11, <1>12, WalkFollows

\* Where an untampered walk stands.
LEMMA ReadingAt ==
  ASSUME IInv, phase = "reading", queue # <<>>,
         NEW start \in [1 .. Len(files) -> Nat], NEW listed \in 0 .. segments,
         Layout(start), Opened(start), Reading(start, listed)
  PROVE  /\ Len(queue) \in Nat \ {0} /\ listed \in Nat /\ segments \in Nat
         /\ handle \in 1 .. Len(files) /\ Len(files) \in Nat \ {0}
         /\ handle <= listed + 1 /\ Len(queue) <= listed + 1
         /\ queue[1] = IF Len(queue) = 1 THEN handle ELSE listed + 2 - Len(queue)
         /\ queue[1] \in 1 .. Len(files)
         /\ start[queue[1]] \in Nat /\ Len(files[queue[1]]) \in Nat
         /\ count \in Nat /\ offset \in Nat /\ Len(log) \in Nat
         /\ count <= Len(log) /\ head = SubSeq(log, 1, count)
<1>0. FilesTyped /\ WalkTyped
  BY DEF IInv
<1>1. /\ handle <= listed + 1 /\ Len(queue) <= listed + 1
      /\ count <= Len(log) /\ head = SubSeq(log, 1, count)
      /\ \A i \in 1 .. Len(queue) :
           queue[i] = IF i = Len(queue) THEN handle ELSE listed + 1 + i - Len(queue)
  BY DEF Reading
<1>2. handle \in 1 .. Len(files)
  BY DEF Opened
<1>3. Len(files) \in Nat \ {0} /\ segments \in Nat /\ Len(log) \in Nat
  BY <1>0, FilesAre
<1>4. queue \in Seq(1 .. Len(files)) /\ count \in Nat /\ offset \in Nat
  BY <1>0, WalkAssumption DEF WalkTyped
<1>5. Len(queue) \in Nat \ {0}
  BY <1>4, EmptySeq, LenProperties
<1>6. 1 \in 1 .. Len(queue)
  BY <1>5
<1>7. queue[1] \in 1 .. Len(files)
  BY <1>4, <1>6, ElementOfSeq
<1>8. listed \in Nat
  BY <1>3
<1>9. queue[1] = IF Len(queue) = 1 THEN handle ELSE listed + 2 - Len(queue)
  <2>1. queue[1] = IF 1 = Len(queue) THEN handle ELSE listed + 1 + 1 - Len(queue)
    BY <1>1, <1>6
  <2>2. listed + 1 + 1 - Len(queue) = listed + 2 - Len(queue)
    BY <1>5, <1>8
  <2> QED
    BY <2>1, <2>2
<1>10. start[queue[1]] \in Nat /\ Len(files[queue[1]]) \in Nat
  <2>1. Len(files[queue[1]]) \in Nat
    BY <1>0, <1>7, FilesAre
  <2> QED
    BY <1>7, <2>1
<1> QED
  BY <1>1, <1>2, <1>3, <1>4, <1>5, <1>7, <1>8, <1>9, <1>10

\* A line beyond the log is the beginning of a line, at the end of the last
\* file.
LEMMA BeyondTheLog ==
  ASSUME FilesTyped, NEW start \in [1 .. Len(files) -> Nat], Layout(start),
         NEW f \in 1 .. Len(files), NEW l \in 1 .. Len(files[f]),
         ~(start[f] + l <= Len(log))
  PROVE  Last(files) # <<>> /\ Torn
<1> DEFINE n == Len(files)
<1>1. /\ n \in Nat \ {0} /\ Len(files[f]) \in Nat /\ Len(log) \in Nat
      /\ Len(files[n]) \in Nat /\ start[f] \in Nat /\ start[n] \in Nat
  <2>1. n \in Nat \ {0} /\ n \in 1 .. n
    BY FilesAre
  <2>2. Len(files[f]) \in Nat /\ Len(files[n]) \in Nat /\ Len(log) \in Nat
    BY <2>1, FilesAre
  <2> QED
    BY <2>1, <2>2
<1>2. /\ \A g, h \in 1 .. n : g < h => start[g] + Len(files[g]) <= start[h]
      /\ start[n] <= Len(log)
      /\ start[n] + Len(files[n]) \in {Len(log), Len(log) + 1}
  BY LayoutIs
<1>3. f = n
  <2> SUFFICES ASSUME f # n PROVE FALSE
    OBVIOUS
  <2>1. f < n /\ n \in 1 .. n
    BY <1>1
  <2>2. start[f] + Len(files[f]) <= start[n]
    BY <1>2, <2>1
  <2> QED
    BY <1>1, <1>2, <2>2
<1>4. start[n] + Len(files[n]) = Len(log) + 1
  BY <1>1, <1>2, <1>3
<1> QED
  BY <1>4, TornTail DEF End

LEMMA ReadKept ==
  ASSUME IInv, ReadLine, tampered = 0
  PROVE  Untampered'
<1>0. FilesTyped /\ WalkTyped
  BY DEF IInv
<1>1. PICK start \in [1 .. Len(files) -> Nat], listed \in 0 .. segments :
             Layout(start) /\ Opened(start) /\ Reading(start, listed)
  BY DEF IInv, Untampered
<1>2. /\ UNCHANGED fileVars /\ phase = "reading" /\ queue # <<>>
      /\ since' = since /\ quiet' = quiet
  BY DEF ReadLine
<1>3. files' = files /\ segments' = segments /\ log' = log
  BY <1>2 DEF fileVars
<1> DEFINE f == queue[1]
           line == CurrentFile[offset + 1]
           q == Len(queue)
<1>4. /\ f \in 1 .. Len(files) /\ q \in Nat \ {0}
      /\ line = files[f][offset + 1] /\ offset + 1 \in 1 .. Len(files[f])
  BY LineRead
<1>5. /\ handle \in 1 .. Len(files) /\ Len(files) \in Nat \ {0}
      /\ listed \in Nat /\ segments \in Nat /\ handle <= listed + 1
      /\ f = IF q = 1 THEN handle ELSE listed + 2 - q
      /\ start[f] \in Nat /\ Len(files[f]) \in Nat
      /\ count \in Nat /\ offset \in Nat /\ Len(log) \in Nat
      /\ count <= Len(log) /\ head = SubSeq(log, 1, count)
  BY <1>1, <1>2, ReadingAt
<1>6. /\ quiet => listed = segments
      /\ q <= listed + 1
      /\ \A i \in 1 .. q :
           queue[i] = IF i = q THEN handle ELSE listed + 1 + i - q
      /\ q >= 2 \/ (q = 1 /\ handle = listed + 1) =>
           count = start[f] + offset /\ offset <= Len(files[f])
      /\ q = 1 /\ handle <= listed => offset = 0 /\ End(start, handle) <= count
  BY <1>1, <1>2 DEF Reading
<1>7. line = IF start[f] + (offset + 1) <= Len(log)
             THEN SubSeq(log, 1, start[f] + (offset + 1)) ELSE Damaged
  BY <1>1, <1>4 DEF Layout
<1>8. log \in Seq(Bodies) /\ Len(log) <= MaxLog
  BY <1>0 DEF FilesTyped
<1> HIDE DEF f, line, q
<1>9. /\ start[f] \in Nat /\ Len(files[f]) \in Nat
      /\ count \in Nat /\ offset \in Nat /\ Len(log) \in Nat
  BY <1>5
<1>10. ASSUME q >= 2 \/ (q = 1 /\ handle = listed + 1)
       PROVE  count = start[f] + offset /\ offset <= Len(files[f])
  BY <1>6, <1>10
<1>11. ASSUME q >= 2 \/ (q = 1 /\ handle = listed + 1)
       PROVE  start[f] + (offset + 1) = count + 1
  <2>1. PICK m \in Nat : m = start[f]
    BY <1>9
  <2>2. count = m + offset
    BY <1>10, <1>11, <2>1
  <2>3. m + (offset + 1) = count + 1
    BY <1>9, <2>2
  <2> QED
    BY <2>1, <2>3
\* A line of the log, in its place, links.
<1>12. ASSUME q >= 2 \/ (q = 1 /\ handle = listed + 1), count + 1 <= Len(log)
      PROVE  Links(line) /\ line = SubSeq(log, 1, count + 1)
  <2>1. start[f] + (offset + 1) = count + 1
    BY <1>11, <1>12
  <2>2. line = SubSeq(log, 1, count + 1)
    BY <1>7, <1>12, <2>1
  <2>3. /\ SubSeq(log, 1, count + 1) \in Histories
        /\ Len(SubSeq(log, 1, count + 1)) = count + 1
        /\ Front(SubSeq(log, 1, count + 1)) = SubSeq(log, 1, count)
    <3>1. PICK k \in 1 .. Len(log) : k = count + 1
      BY <1>9, <1>12
    <3>2. k - 1 = count
      BY <1>9, <3>1
    <3>3. /\ SubSeq(log, 1, k) \in Histories /\ Len(SubSeq(log, 1, k)) = k
          /\ Front(SubSeq(log, 1, k)) = SubSeq(log, 1, k - 1)
      BY <1>8, LogPrefix
    <3> QED
      BY <3>1, <3>2, <3>3
  <2> QED
    BY <1>5, <2>2, <2>3, ValuesApart DEF Links
\* The file opened first, read a second time, does not.
<1>13. ASSUME q = 1, handle <= listed
       PROVE  ~Links(line) /\ ~quiet
  <2>1. f = handle /\ offset = 0 /\ start[f] + Len(files[f]) <= count
    BY <1>5, <1>6, <1>13 DEF End
  <2>2. start[f] + (offset + 1) \in 1 .. Len(log) /\ start[f] + (offset + 1) <= count
    <3>1. PICK m \in Nat : m = start[f]
      BY <1>9
    <3>2. PICK n \in Nat : n = Len(files[f]) /\ 1 <= n
      BY <1>4, <1>9, <2>1
    <3>3. m + n <= count /\ count <= Len(log)
      BY <1>5, <2>1, <3>1, <3>2
    <3>4. m + (offset + 1) \in 1 .. Len(log) /\ m + (offset + 1) <= count
      BY <1>9, <2>1, <3>2, <3>3
    <3> QED
      BY <3>1, <3>4
  <2>3. line = SubSeq(log, 1, start[f] + (offset + 1))
    BY <1>7, <2>2
  <2>4. Len(line) = start[f] + (offset + 1)
    BY <1>8, <2>2, <2>3, LogPrefix
  <2>5. Len(line) # count + 1
    BY <1>5, <2>2, <2>4
  <2>6. quiet => listed = segments /\ handle = Len(files) /\ segments = Len(files) - 1
    BY <1>1, <1>2, <1>6 DEF Opened
  <2>7. ~quiet
    BY <1>5, <1>13, <2>6
  <2> QED
    BY <2>5, <2>7 DEF Links
<1>14. q >= 2 \/ (q = 1 /\ handle = listed + 1) \/ (q = 1 /\ handle <= listed)
  <2>1. q = 1 \/ q >= 2
    BY <1>4
  <2>2. handle \in Int /\ listed \in Nat /\ handle <= listed + 1
    BY <1>5
  <2>3. handle = listed + 1 \/ handle <= listed
    BY <2>2
  <2> QED
    BY <2>1, <2>3
<1>15. CASE WithinLimit /\ Links(line)
  <2>1. /\ phase' = phase /\ handle' = handle /\ queue' = queue
        /\ offset' = offset + 1 /\ count' = count + 1 /\ head' = line
    BY <1>15 DEF ReadLine, line
  <2>2. q >= 2 \/ (q = 1 /\ handle = listed + 1)
    BY <1>13, <1>14, <1>15
  <2>3. count + 1 <= Len(log)
    <3>1. start[f] + (offset + 1) = count + 1
      BY <1>11, <2>2
    <3>2. line # Damaged
      BY <1>15 DEF Links
    <3> QED
      BY <1>7, <3>1, <3>2
  <2>4. line = SubSeq(log, 1, count + 1)
    BY <1>12, <2>2, <2>3
  <2>5. count + 1 = start[f] + (offset + 1) /\ offset + 1 <= Len(files[f])
    BY <1>4, <1>11, <2>2
  <2>6. ~(q = 1 /\ handle <= listed) /\ q # 0
    BY <1>4, <1>5, <2>2
  <2>7. Reading(start, listed)'
    <3>1. listed \in 0 .. segments'
      BY <1>3
    <3>2. count' <= Len(log') /\ head' = SubSeq(log', 1, count')
      BY <1>3, <2>1, <2>3, <2>4
    <3>3. count' = start[queue'[1]] + offset' /\ offset' <= Len(files'[queue'[1]])
      BY <1>3, <2>1, <2>5 DEF f
    <3>4. /\ Len(queue') <= listed + 1
          /\ \A i \in 1 .. Len(queue') :
               queue'[i] = IF i = Len(queue') THEN handle'
                           ELSE listed + 1 + i - Len(queue')
          /\ ~(Len(queue') = 1 /\ handle' <= listed) /\ Len(queue') # 0
          /\ handle' <= listed + 1
      BY <1>5, <1>6, <2>1, <2>6 DEF q
    <3>5. quiet' => listed = segments'
      BY <1>2, <1>3, <1>6
    <3> QED
      BY <3>1, <3>2, <3>3, <3>4, <3>5 DEF Reading
  <2>8. Opened(start)'
    BY <1>1, <1>2, <1>3, <2>1 DEF Opened, End
  <2>9. Reason'
    BY <1>2, <2>1 DEF Reason
  <2> QED
    BY <1>1, <1>2, <2>7, <2>8, <2>9, WalkFollows
<1>16. CASE ~(WithinLimit /\ Links(line))
  <2>1. phase' = "failed"
    BY <1>16 DEF ReadLine, Fail, line
  <2>2. ASSUME quiet
        PROVE  \/ Last(files) # <<>> /\ Torn
               \/ Len(log) > MaxRecords
    <3>1. q >= 2 \/ (q = 1 /\ handle = listed + 1)
      BY <1>13, <1>14, <2>2
    <3>2. start[f] + (offset + 1) = count + 1
      BY <1>11, <3>1
    <3>3. CASE count + 1 <= Len(log)
      <4>1. ~(count < MaxRecords)
        BY <1>12, <1>16, <3>1, <3>3 DEF WithinLimit
      <4> QED
        BY <1>5, <3>3, <4>1, WalkAssumption
    <3>4. CASE ~(count + 1 <= Len(log))
      <4>1. ~(start[f] + (offset + 1) <= Len(log))
        BY <3>2, <3>4
      <4> QED
        BY <1>0, <1>1, <1>4, <4>1, BeyondTheLog
    <3> QED
      BY <3>3, <3>4
  <2>3. Reason'
    <3>1. (Last(files) # <<>> /\ Torn)' <=> Last(files) # <<>> /\ Torn
      BY <1>3 DEF Torn
    <3> QED
      BY <1>2, <1>3, <2>1, <2>2, <3>1 DEF Reason
  <2>4. Opened(start)' /\ Reading(start, listed)'
    BY <2>1 DEF Opened, Reading
  <2> QED
    BY <1>1, <1>2, <2>3, <2>4, WalkFollows
<1> QED
  BY <1>15, <1>16

LEMMA NextKept ==
  ASSUME IInv, NextFile, tampered = 0
  PROVE  Untampered'
<1>0. FilesTyped /\ WalkTyped
  BY DEF IInv
<1>1. PICK start \in [1 .. Len(files) -> Nat], listed \in 0 .. segments :
             Layout(start) /\ Opened(start) /\ Reading(start, listed)
  BY DEF IInv, Untampered
<1>2. /\ UNCHANGED fileVars /\ phase = "reading" /\ queue # <<>>
      /\ since' = since /\ quiet' = quiet /\ phase' = phase /\ handle' = handle
      /\ count' = count /\ head' = head /\ queue' = Tail(queue) /\ offset' = 0
  BY DEF NextFile, chainVars
<1>3. files' = files /\ segments' = segments /\ log' = log
  BY <1>2 DEF fileVars
<1> DEFINE f == queue[1]
           q == Len(queue)
           e == start[f] + Len(files[f])
<1>4. /\ q \in Nat \ {0} /\ listed \in Nat /\ segments \in Nat
      /\ handle \in 1 .. Len(files) /\ Len(files) \in Nat \ {0}
      /\ handle <= listed + 1 /\ q <= listed + 1
      /\ f = IF q = 1 THEN handle ELSE listed + 2 - q
      /\ f \in 1 .. Len(files)
      /\ start[f] \in Nat /\ Len(files[f]) \in Nat
      /\ count \in Nat /\ offset \in Nat /\ Len(log) \in Nat
      /\ count <= Len(log) /\ head = SubSeq(log, 1, count)
  BY <1>1, <1>2, ReadingAt
<1>5. /\ quiet => listed = segments
      /\ \A i \in 1 .. q :
           queue[i] = IF i = q THEN handle ELSE listed + 1 + i - q
      /\ q >= 2 \/ (q = 1 /\ handle = listed + 1) =>
           count = start[f] + offset /\ offset <= Len(files[f])
      /\ q = 1 /\ handle <= listed => offset = 0 /\ End(start, handle) <= count
      /\ since <= End(start, handle)
  BY <1>1, <1>2 DEF Reading, Opened
<1>6. offset >= Len(files[f])
  <2>1. Head(queue) = f
    BY <1>4
  <2> QED
    BY <2>1 DEF NextFile, AtEnd, CurrentFile
<1>7. /\ Len(queue') = q - 1
      /\ \A i \in 1 .. q - 1 : queue'[i] = queue[i + 1]
  BY <1>0, <1>2, HeadTailProperties DEF WalkTyped
<1>8. \A i \in 1 .. q - 1 :
        queue'[i] = IF i = q - 1 THEN handle ELSE listed + 1 + i - (q - 1)
  <2> SUFFICES ASSUME NEW i \in 1 .. q - 1
               PROVE  queue'[i] = IF i = q - 1 THEN handle ELSE listed + 1 + i - (q - 1)
    OBVIOUS
  <2> HIDE DEF q
  <2>1. i + 1 \in 1 .. q
    BY <1>4
  <2>2. queue[i + 1] = IF i + 1 = q THEN handle ELSE listed + 1 + (i + 1) - q
    BY <1>5, <2>1
  <2>3. (i + 1 = q <=> i = q - 1) /\ listed + 1 + (i + 1) - q = listed + 1 + i - (q - 1)
    BY <1>4
  <2> QED
    BY <1>7, <2>2, <2>3
<1>9. /\ \A g \in 1 .. Len(files) - 1 : start[g + 1] = start[g] + Len(files[g])
      /\ \A g, h \in 1 .. Len(files) : g < h => start[g] + Len(files[g]) <= start[h]
  BY <1>0, <1>1, LayoutIs
<1>10. /\ End(start, handle) = start[handle] + Len(files[handle])
       /\ End(start, handle) \in Nat
  <2>1. start[handle] \in Nat /\ Len(files[handle]) \in Nat
    BY <1>0, <1>4, FilesAre
  <2> QED
    BY <2>1 DEF End
<1>11. since \in Nat
  BY <1>0, <1>2 DEF WalkTyped
<1>12. e \in Nat
  BY <1>4
<1> HIDE DEF f, q
\* A file read in its place was read to its end.
<1>13. ASSUME q >= 2 \/ (q = 1 /\ handle = listed + 1)
       PROVE  count = e
  <2>1. PICK m \in Nat : m = start[f]
    BY <1>4
  <2>2. PICK n \in Nat : n = Len(files[f])
    BY <1>4
  <2>3. count = m + offset /\ offset <= n /\ offset >= n /\ offset \in Nat
    BY <1>4, <1>5, <1>6, <1>13, <2>1, <2>2
  <2>4. count = m + n
    BY <2>3
  <2> QED
    BY <2>1, <2>2, <2>4
<1> HIDE DEF e
\* The next file begins where it ended.
<1>14. ASSUME q - 1 >= 2 \/ (q - 1 = 1 /\ handle = listed + 1)
       PROVE  count = start[queue'[1]] /\ 0 <= Len(files[queue'[1]])
  <2>1. q >= 2 /\ 1 \in 1 .. q - 1
    BY <1>4, <1>14
  <2>2. f = listed + 2 - q
    BY <1>4, <2>1
  <2>3. queue'[1] = IF 1 = q - 1 THEN handle ELSE listed + 1 + 1 - (q - 1)
    BY <1>8, <2>1
  <2>4. queue'[1] = f + 1
    BY <1>4, <1>14, <2>1, <2>2, <2>3
  <2>5. f + 1 <= Len(files)
    <3>1. CASE q = 2
      BY <1>4, <1>14, <2>2, <3>1
    <3>2. CASE q # 2
      <4>1. segments <= Len(files)
        BY <1>0, <1>4 DEF FilesTyped
      <4>2. f + 1 <= listed
        BY <1>4, <2>1, <2>2, <3>2
      <4> QED
        BY <1>4, <4>1, <4>2
    <3> QED
      BY <3>1, <3>2
  <2>6. f \in 1 .. Len(files) - 1 /\ f + 1 \in 1 .. Len(files)
    BY <1>4, <2>5
  <2>7. start[f + 1] = e
    BY <1>9, <2>6 DEF e
  <2>8. Len(files[f + 1]) \in Nat
    BY <1>0, <2>6, FilesAre
  <2>9. count = e
    BY <1>13, <2>1
  <2> QED
    BY <2>4, <2>7, <2>8, <2>9
\* The file opened first ended before a segment that followed it.
<1>15. ASSUME q - 1 = 1, handle <= listed
       PROVE  End(start, handle) <= count
  <2>1. q = 2 /\ f = listed
    BY <1>4, <1>15
  <2>2. count = e
    BY <1>13, <2>1
  <2>3. CASE handle = listed
    BY <1>10, <1>12, <2>1, <2>2, <2>3 DEF e
  <2>4. CASE handle < f
    <3>1. End(start, handle) <= start[f]
      BY <1>4, <1>9, <1>10, <2>4
    <3>2. start[f] <= e
      BY <1>4 DEF e
    <3> QED
      BY <1>4, <1>10, <1>12, <2>2, <3>1, <3>2
  <2> QED
    BY <1>4, <1>15, <2>1, <2>3, <2>4
\* Once every file is read, so is what the file opened first held.
<1>16. ASSUME q - 1 = 0
       PROVE  since <= count
  <2>1. q = 1 /\ f = handle
    BY <1>4, <1>16
  <2>2. CASE handle <= listed
    BY <1>4, <1>5, <1>10, <1>11, <2>1, <2>2
  <2>3. CASE handle = listed + 1
    <3>1. count = End(start, handle)
      BY <1>10, <1>13, <2>1, <2>3 DEF e
    <3> QED
      BY <1>5, <3>1
  <2> QED
    BY <1>4, <2>2, <2>3
<1>17. Reading(start, listed)'
  <2>1. listed \in 0 .. segments' /\ (quiet' => listed = segments')
    BY <1>2, <1>3, <1>5
  <2>2. count' <= Len(log') /\ head' = SubSeq(log', 1, count') /\ handle' <= listed + 1
    BY <1>2, <1>3, <1>4
  <2>3. Len(queue') <= listed + 1
    BY <1>4, <1>7
  <2>4. \A i \in 1 .. Len(queue') :
          queue'[i] = IF i = Len(queue') THEN handle' ELSE listed + 1 + i - Len(queue')
    BY <1>2, <1>7, <1>8
  <2>5. Len(queue') >= 2 \/ (Len(queue') = 1 /\ handle' = listed + 1) =>
          count' = start[queue'[1]] + offset' /\ offset' <= Len(files'[queue'[1]])
    <3>1. \A k \in Nat : k + 0 = k
      OBVIOUS
    <3>2. ASSUME Len(queue') >= 2 \/ (Len(queue') = 1 /\ handle' = listed + 1)
          PROVE  count = start[queue'[1]] + 0 /\ 0 <= Len(files[queue'[1]])
      BY <1>2, <1>4, <1>7, <1>14, <3>1, <3>2
    <3> QED
      BY <1>2, <1>3, <3>2
  <2>6. Len(queue') = 1 /\ handle' <= listed =>
          offset' = 0 /\ End(start, handle)' <= count'
    <3>1. End(start, handle)' = End(start, handle)
      BY <1>2, <1>3 DEF End
    <3> QED
      BY <1>2, <1>7, <1>15, <3>1
  <2>7. Len(queue') = 0 => since' <= count'
    BY <1>2, <1>7, <1>16
  <2> QED
    BY <2>1, <2>2, <2>3, <2>4, <2>5, <2>6, <2>7 DEF Reading
<1>18. Opened(start)' /\ Reason'
  BY <1>1, <1>2, <1>3 DEF Opened, Reason, End
<1> QED
  BY <1>1, <1>2, <1>17, <1>18, WalkFollows
-----------------------------------------------------------------------------
(* The theorems.                                                           *)

LEMMA InvNext == ASSUME IInv, [Next]_vars PROVE IInv'
<1>1. FilesTyped'
  <2>1. CASE Environment
    BY <2>1, FilesKept
  <2>2. CASE ~Environment
    <3>1. UNCHANGED fileVars
      BY <2>2 DEF Next, Walk, OpenActive, ListSegments, ReadLine, NextFile, Finish, vars
    <3> QED
      BY <3>1 DEF IInv, FilesTyped, fileVars
  <2> QED
    BY <2>1, <2>2
<1>2. WalkTyped' /\ Commits'
  BY <1>1, WalkKept
<1>3. Untampered'
  <2>1. CASE Environment
    BY <1>1, <2>1, EnvironmentKept
  <2>2. CASE ~Environment
    <3>1. UNCHANGED fileVars
      BY <2>2 DEF Next, Walk, OpenActive, ListSegments, ReadLine, NextFile, Finish, vars
    <3>2. tampered' = tampered
      BY <3>1 DEF fileVars
    <3>3. CASE tampered # 0
      BY <3>2, <3>3 DEF Untampered
    <3>4. ASSUME tampered = 0, Finish \/ UNCHANGED vars
          PROVE  Untampered'
      <4>1. PICK start \in [1 .. Len(files) -> Nat], listed \in 0 .. segments :
                   Layout(start) /\ Opened(start) /\ Reading(start, listed)
        BY <3>4 DEF IInv, Untampered
      <4>2. CASE Finish
        <5>1. Opened(start)' /\ Reading(start, listed)' /\ Reason'
          BY <4>2 DEF Finish, Opened, Reading, Reason
        <5> QED
          BY <3>1, <3>4, <4>1, <5>1, WalkFollows
      <4>3. CASE UNCHANGED vars
        <5>1. /\ files' = files /\ segments' = segments /\ log' = log
              /\ phase' = phase /\ handle' = handle /\ queue' = queue
              /\ offset' = offset /\ count' = count /\ head' = head
              /\ since' = since /\ quiet' = quiet
          BY <4>3 DEF vars, fileVars, walkVars, chainVars
        <5>2. Opened(start)' /\ Reading(start, listed)'
          BY <4>1, <5>1 DEF Opened, Reading, End
        <5>3. Reason'
          <6>1. Reason
            BY <3>4 DEF IInv, Untampered
          <6> QED
            BY <5>1, <6>1 DEF Reason, ActiveExists, Torn
        <5> QED
          BY <3>1, <3>4, <4>1, <5>2, <5>3, WalkFollows
      <4> QED
        BY <3>4, <4>2, <4>3
    <3> QED
      BY <2>2, <3>3, <3>4, OpenKept, ListKept, ReadKept, NextKept DEF Next, Walk
  <2> QED
    BY <2>1, <2>2
<1> QED
  BY <1>1, <1>2, <1>3 DEF IInv

\* What every step of `_walk_ledger` keeps true beside a writer that appends and
\* rotates.
THEOREM Invariance == Spec => []IInv
<1>1. Init => IInv
  BY InitInv
<1>2. IInv /\ [Next]_vars => IInv'
  BY InvNext
<1> QED
  BY <1>1, <1>2, PTL DEF Spec

\* Every variable keeps its type, and no count or index leaves its range: the
\* handle is a file, every queued file exists, at most MaxRecords records count.
THEOREM TypeCorrect == Spec => []TypeOK
<1>1. IInv => TypeOK
  <2> SUFFICES ASSUME IInv PROVE TypeOK
    OBVIOUS
  <2>1. FilesTyped /\ WalkTyped
    BY DEF IInv
  <2>2. DOMAIN files = 1 .. Len(files)
        /\ \A f \in 1 .. Len(files) : \A l \in 1 .. Len(files[f]) : files[f][l] \in Lines
    BY <2>1, FilesAre
  <2>3. \A f \in DOMAIN files : DOMAIN files[f] = 1 .. Len(files[f])
    BY <2>1, <2>2, FilesAre, LenProperties
  <2>4. \A f \in DOMAIN files : \A l \in DOMAIN files[f] : files[f][l] \in Histories \cup {Damaged}
    BY <2>2, <2>3 DEF Lines
  <2>5. \A i \in DOMAIN queue : queue[i] \in DOMAIN files
    <3>1. queue \in Seq(1 .. Len(files))
      BY <2>1 DEF WalkTyped
    <3>2. DOMAIN queue = 1 .. Len(queue)
      BY <3>1, LenProperties
    <3> QED
      BY <2>2, <3>1, <3>2, ElementOfSeq
  <2> QED
    BY <2>1, <2>4, <2>5 DEF TypeOK, FilesTyped, WalkTyped
<1> QED
  BY <1>1, Invariance, PTL

\* The head a walk returns commits to exactly the records it counted, and the
\* hash it noted is the record of that history, whatever was done to the lines
\* of the files before or during the walk (`_check_record`, `_walk_ledger`).
THEOREM HeadCommitsToRecords == Spec => []HeadCommits
<1>1. IInv => HeadCommits
  BY DEF IInv, Commits, HeadCommits
<1> QED
  BY <1>1, Invariance, PTL

\* A walk during which nothing happened to an untampered ledger fails only for
\* want of an active file, at an incomplete last line, or beyond
\* MAX_LEDGER_RECORDS (the raises of `_walk_ledger`).
THEOREM QuietWalkHasReason == Spec => []QuietWalkPasses
<1>1. IInv => QuietWalkPasses
  BY DEF IInv, Untampered, Reason, QuietWalkPasses
<1> QED
  BY <1>1, Invariance, PTL
-----------------------------------------------------------------------------
(* The walk implements an atomic read.                                     *)

\* What the walk has to show for itself.
Result ==
  IF tampered > 0 \/ phase = "failed" THEN Damaged
  ELSE IF phase = "ok" THEN head ELSE None

\* A walk that has read every file of an untampered ledger holds a prefix of
\* the log at least as long as the log was when it began.
LEMMA ReadsPrefix ==
  ASSUME IInv, Finish, tampered = 0
  PROVE  /\ since \in Nat /\ count \in since .. Len(log)
         /\ head = SubSeq(log, 1, count)
<1>1. PICK start \in [1 .. Len(files) -> Nat], listed \in 0 .. segments :
             Layout(start) /\ Opened(start) /\ Reading(start, listed)
  BY DEF IInv, Untampered
<1>2. phase = "reading" /\ queue = <<>>
  BY DEF Finish
<1>3. since \in Nat /\ count \in Nat /\ Len(log) \in Nat
  BY <1>2, FilesAre, WalkAssumption DEF IInv, WalkTyped
<1>4. Len(queue) = 0
  BY <1>2, EmptySeq
<1>5. since <= count /\ count <= Len(log) /\ head = SubSeq(log, 1, count)
  BY <1>1, <1>2, <1>4 DEF Reading
<1> QED
  BY <1>3, <1>5

\* However the writer appends and rotates meanwhile, a walk of an untampered
\* ledger returns what the log was at one moment between its start and its
\* end, or fails (the handle `_walk_ledger` opens before it lists segments).
THEOREM WalkIsAtomic == Spec => ReadsAtomically
<1>1. Init => Read!Init
  BY DEF Init, Read!Init
<1>2. IInv /\ IInv' /\ [Next]_vars => [Read!Next]_Read!vars
  <2> SUFFICES ASSUME IInv, IInv', [Next]_vars
               PROVE  [Read!Next]_Read!vars
    OBVIOUS
  <2>1. tampered \in Nat /\ tampered' \in Nat /\ (phase = "idle" => since = None)
    BY WalkAssumption DEF IInv, FilesTyped, WalkTyped
  <2>2. ASSUME UNCHANGED <<log, since>>, Result' = Result
        PROVE  [Read!Next]_Read!vars
    BY <2>2 DEF Read!vars, Result
  <2>3. ASSUME UNCHANGED <<log, since>>, Result = None, Result' = Damaged
        PROVE  [Read!Next]_Read!vars
    BY <2>3 DEF Read!Next, Read!Refuse, Result
  <2>4. ASSUME UNCHANGED <<log, since, tampered>>, phase' = "failed",
               phase \notin {"ok", "failed"}
        PROVE  [Read!Next]_Read!vars
    <3>1. Result' = Damaged /\ Result = IF tampered > 0 THEN Damaged ELSE None
      BY <2>4 DEF Result
    <3> QED
      BY <2>2, <2>3, <2>4, <3>1
  <2>5. CASE Environment
    <3>1. /\ phase' = phase /\ head' = head /\ since' = since
      BY <2>5 DEF Environment, walkVars, chainVars
    <3>2. CASE BeginAppend \/ RotateAway \/ CreateActive
      <4>1. log' = log /\ tampered' = tampered
        BY <3>2 DEF BeginAppend, RotateAway, CreateActive
      <4>2. Result' = Result
        BY <3>1, <4>1 DEF Result
      <4> QED
        BY <2>2, <3>1, <4>1, <4>2
    <3>3. ASSUME NEW b \in Bodies, FinishAppend(b)
          PROVE  [Read!Next]_Read!vars
      <4>1. log' = Append(log, b) /\ tampered' = tampered
        BY <3>3 DEF FinishAppend
      <4>2. Read!Extend(b)
        BY <3>1, <4>1 DEF Read!Extend
      <4> QED
        BY <4>2 DEF Read!Next
    <3>4. ASSUME NEW f \in DOMAIN files, NEW l \in DOMAIN files[f], Tamper(f, l)
          PROVE  [Read!Next]_Read!vars
      <4>1. log' = log /\ tampered' = tampered + 1 /\ phase \notin {"ok", "failed"}
        BY <3>4 DEF Tamper
      <4>2. tampered' > 0
        BY <2>1, <4>1
      <4>3. Result' = Damaged
        BY <4>2 DEF Result
      <4>4. Result = None \/ Result = Damaged
        BY <4>1 DEF Result
      <4> QED
        BY <2>2, <2>3, <3>1, <4>1, <4>3, <4>4
    <3> QED
      BY <2>5, <3>2, <3>3, <3>4 DEF Environment
  <2>6. CASE OpenActive
    <3>1. log' = log /\ tampered' = tampered /\ phase = "idle"
      BY <2>6 DEF OpenActive, fileVars
    <3>2. CASE ActiveExists
      <4>1. phase' = "list" /\ since' = Len(log)
        BY <2>6, <3>2 DEF OpenActive
      <4>2. Result' = Result
        BY <3>1, <4>1 DEF Result
      <4>3. Read!Start
        BY <2>1, <3>1, <4>1, <4>2 DEF Read!Start, Result
      <4> QED
        BY <4>3 DEF Read!Next
    <3>3. CASE ~ActiveExists
      <4>1. phase' = "failed" /\ since' = since
        BY <2>6, <3>3 DEF OpenActive, Fail
      <4> QED
        BY <2>4, <3>1, <4>1
    <3> QED
      BY <3>2, <3>3
  <2>7. CASE ListSegments \/ NextFile
    <3>1. /\ log' = log /\ tampered' = tampered /\ since' = since
          /\ phase \in {"list", "reading"} /\ phase' = "reading"
      BY <2>7 DEF ListSegments, NextFile, fileVars
    <3>2. Result' = Result
      BY <3>1 DEF Result
    <3> QED
      BY <2>2, <3>1, <3>2
  <2>8. CASE ReadLine
    <3>1. /\ log' = log /\ tampered' = tampered /\ since' = since
          /\ phase = "reading" /\ phase' \in {"reading", "failed"}
      BY <2>8 DEF ReadLine, Fail, fileVars
    <3>2. CASE phase' = "failed"
      BY <2>4, <3>1, <3>2
    <3>3. CASE phase' = "reading"
      <4>1. Result' = Result
        BY <3>1, <3>3 DEF Result
      <4> QED
        BY <2>2, <3>1, <4>1
    <3> QED
      BY <3>1, <3>2, <3>3
  <2>9. CASE Finish
    <3>1. /\ log' = log /\ tampered' = tampered /\ since' = since /\ head' = head
          /\ phase = "reading" /\ phase' = "ok"
      BY <2>9 DEF Finish, fileVars, chainVars
    <3>2. CASE tampered > 0
      <4>1. Result' = Result
        BY <3>1, <3>2 DEF Result
      <4> QED
        BY <2>2, <3>1, <4>1
    <3>3. CASE tampered = 0
      <4>1. /\ since \in Nat /\ count \in since .. Len(log)
            /\ head = SubSeq(log, 1, count)
        BY <2>9, <3>3, ReadsPrefix
      <4>2. since # None
        BY <4>1, ValuesApart
      <4>3. ~(tampered > 0)
        BY <3>3
      <4>4. Result = None /\ Result' = head
        BY <3>1, <4>3 DEF Result
      <4>5. \E n \in since .. Len(log) : Result' = SubSeq(log, 1, n)
        BY <4>1, <4>4
      <4>6. Read!Return
        BY <3>1, <4>2, <4>4, <4>5 DEF Read!Return, Result
      <4> QED
        BY <4>6 DEF Read!Next
    <3> QED
      BY <2>1, <3>2, <3>3
  <2>10. CASE UNCHANGED vars
    <3>1. /\ log' = log /\ tampered' = tampered /\ since' = since
          /\ head' = head /\ phase' = phase
      BY <2>10 DEF vars, fileVars, walkVars, chainVars
    <3>2. Result' = Result
      BY <3>1 DEF Result
    <3> QED
      BY <2>2, <3>1, <3>2
  <2> QED
    BY <2>5, <2>6, <2>7, <2>8, <2>9, <2>10 DEF Next, Walk
<1> QED
  BY <1>1, <1>2, Invariance, PTL DEF Spec, ReadsAtomically, Read!Spec
-----------------------------------------------------------------------------
(* The walk ends: how many steps it has left.                              *)

\* There is room for the active file a rotation still owes.
FilesLimited == Len(files) <= MaxFiles /\ segments < MaxFiles

\* Replacing a file leaves as many.
LEMMA FilesLength ==
  ASSUME FilesTyped, NEW f \in 1 .. Len(files), NEW c
  PROVE  Len([files EXCEPT ![f] = c]) = Len(files)
<1>1. DOMAIN [files EXCEPT ![f] = c] = 1 .. Len(files) /\ Len(files) \in Nat
  BY LenProperties DEF FilesTyped
<1> DEFINE changed == [files EXCEPT ![f] = c]
<1>2. changed \in Seq(Seq(Lines) \cup {c})
  BY LenProperties, ExceptSeq, SeqMonotonic DEF FilesTyped
<1> QED
  BY <1>1, <1>2, LenProperties

\* The writer keeps within its files, and the walk creates none.
LEMMA LimitKept == ASSUME IInv, FilesLimited, [Next]_vars PROVE FilesLimited'
<1>1. /\ FilesTyped /\ Len(files) \in Nat \ {0} /\ MaxFiles \in Nat
      /\ segments \in Nat /\ DOMAIN files = 1 .. Len(files)
  BY FilesAre, WalkAssumption DEF IInv, FilesTyped
<1>2. CASE Environment
  <2>1. CASE BeginAppend \/ \E b \in Bodies : FinishAppend(b)
    <3>1. Len(files') = Len(files) /\ segments' = segments
      <4>1. /\ segments' = segments
            /\ \E c : files' = [files EXCEPT ![Len(files)] = c]
        BY <2>1 DEF BeginAppend, FinishAppend
      <4> QED
        BY <1>1, <4>1, FilesLength
    <3> QED
      BY <3>1 DEF FilesLimited
  <2>2. CASE RotateAway
    BY <1>1, <2>2 DEF RotateAway, FilesLimited
  <2>3. CASE CreateActive
    <3>1. Len(files') = Len(files) + 1 /\ segments' = segments
      BY <1>1, <2>3, AddFile DEF CreateActive, FilesTyped
    <3>2. segments = Len(files)
      <4>1. segments = Len(files) \/ segments = Len(files) - 1
        BY <1>1 DEF FilesTyped
      <4>2. ~(segments < Len(files))
        BY <2>3 DEF CreateActive, ActiveExists
      <4>3. segments \in Nat /\ Len(files) \in Nat
        BY <1>1
      <4> QED
        BY <4>1, <4>2, <4>3
    <3> QED
      BY <1>1, <3>1, <3>2 DEF FilesLimited
  <2>4. ASSUME NEW f \in DOMAIN files, NEW l \in DOMAIN files[f], Tamper(f, l)
        PROVE  FilesLimited'
    <3>1. segments' = segments /\ \E c : files' = [files EXCEPT ![f] = c]
      <4>1. CASE \E line \in Histories \cup {Damaged} :
                    files' = [files EXCEPT ![f][l] = line]
        BY <2>4, <4>1 DEF Tamper
      <4>2. CASE files' = [files EXCEPT ![f] = RemoveAt(@, l)]
        BY <2>4, <4>2 DEF Tamper
      <4>3. CASE files' = [files EXCEPT ![f][l] = files[f][l - 1],
                                        ![f][l - 1] = files[f][l]]
        <5> DEFINE once == [files EXCEPT ![f][l] = files[f][l - 1]]
        <5>1. files' = [files EXCEPT
                ![f] = [[files[f] EXCEPT ![l] = files[f][l - 1]]
                          EXCEPT ![l - 1] = files[f][l]]]
          BY <1>1, <2>4, <4>3
        <5> QED
          BY <2>4, <5>1 DEF Tamper
      <4> QED
        BY <2>4, <4>1, <4>2, <4>3 DEF Tamper
    <3> QED
      BY <1>1, <3>1, FilesLength DEF FilesLimited
  <2> QED
    BY <1>2, <2>1, <2>2, <2>3, <2>4 DEF Environment
<1>3. CASE ~Environment
  <2>1. files' = files /\ segments' = segments
    BY <1>3 DEF Next, Walk, OpenActive, ListSegments, ReadLine, NextFile, Finish,
                vars, fileVars
  <2> QED
    BY <2>1 DEF FilesLimited
<1> QED
  BY <1>2, <1>3

\* Each step of the walk either moves to a later phase, or takes a file off the
\* queue, or counts a record it had room for.
LEMMA WalkAdvances ==
  ASSUME IInv, FilesLimited, Walk
  PROVE  StepsLeft' >= 0 /\ StepsLeft' < StepsLeft
<1>1. /\ FilesTyped /\ WalkTyped /\ Len(files) \in Nat \ {0}
      /\ MaxFiles \in Nat /\ MaxRecords \in Nat /\ segments \in Nat
      /\ count \in Nat /\ count <= MaxRecords
      /\ Len(queue) \in Nat
  BY FilesAre, WalkAssumption, LenProperties DEF IInv, FilesTyped, WalkTyped
<1>2. CASE OpenActive
  <2>1. phase = "idle" /\ phase' \in {"list", "failed"}
    BY <1>2 DEF OpenActive, Fail
  <2> QED
    BY <1>1, <2>1 DEF StepsLeft
<1>3. CASE ListSegments
  <2>1. /\ phase = "list" /\ phase' = "reading" /\ count' = count
        /\ queue' = ReadOrder
    BY <1>3 DEF ListSegments, chainVars
  <2>2. Len(queue') = segments + 1
    <3>1. [s \in 1 .. segments |-> s] \in Seq(Nat) /\ <<handle>> \in Seq({handle})
      BY <1>1, SeqDef
    <3> QED
      BY <1>1, <2>1 DEF ReadOrder
  <2>3. count = 0 /\ segments < MaxFiles
    BY <1>1, <2>1 DEF WalkTyped, FilesLimited
  <2> QED
    BY <1>1, <2>1, <2>2, <2>3 DEF StepsLeft
<1>4. CASE ReadLine
  <2>1. phase = "reading"
    BY <1>4 DEF ReadLine
  <2>2. CASE phase' = "failed"
    BY <1>1, <2>1, <2>2 DEF StepsLeft
  <2>3. CASE phase' # "failed"
    <3>1. phase' = phase /\ queue' = queue /\ count' = count + 1 /\ count < MaxRecords
      BY <1>4, <2>3 DEF ReadLine, Fail, WithinLimit
    <3> QED
      BY <1>1, <2>1, <3>1 DEF StepsLeft
  <2> QED
    BY <2>2, <2>3
<1>5. CASE NextFile
  <2>1. /\ phase = "reading" /\ phase' = phase /\ count' = count
        /\ queue # <<>> /\ queue' = Tail(queue)
    BY <1>5 DEF NextFile, chainVars
  <2>2. Len(queue') = Len(queue) - 1 /\ Len(queue) >= 1
    BY <1>1, <2>1, HeadTailProperties, EmptySeq DEF WalkTyped
  <2> QED
    BY <1>1, <2>1, <2>2 DEF StepsLeft
<1>6. CASE Finish
  <2>1. phase = "reading" /\ phase' = "ok"
    BY <1>6 DEF Finish
  <2> QED
    BY <1>1, <2>1 DEF StepsLeft
<1> QED
  BY <1>2, <1>3, <1>4, <1>5, <1>6 DEF Walk

\* A call of `_walk_ledger` takes at most MaxRecords + MaxFiles + 3 steps,
\* however the writer appends and rotates while it reads.
THEOREM WalkIsBounded == Spec => WalkProgresses
<1> DEFINE LInv == IInv /\ FilesLimited
           Step == /\ StepsLeft' >= 0 /\ StepsLeft' <= StepsLeft
                   /\ Walk => StepsLeft' < StepsLeft
<1>1. Init => LInv
  <2> SUFFICES ASSUME Init PROVE LInv
    OBVIOUS
  <2>1. Len(files) = 1 /\ segments = 0 /\ MaxFiles \in Nat \ {0}
    BY WalkAssumption DEF Init
  <2> QED
    BY <2>1, InitInv DEF FilesLimited
<1>2. LInv /\ [Next]_vars => LInv'
  BY LimitKept, InvNext
<1>3. LInv /\ [Next]_vars => [Step]_vars
  <2> SUFFICES ASSUME LInv, [Next]_vars PROVE [Step]_vars
    OBVIOUS
  <2>1. StepsLeft \in Nat
    BY WalkAssumption, LenProperties DEF IInv, WalkTyped, StepsLeft
  <2>2. CASE Walk
    <3>1. StepsLeft' >= 0 /\ StepsLeft' < StepsLeft
      BY <2>2, WalkAdvances
    <3>2. StepsLeft' \in Int
      <4>1. IInv'
        BY InvNext
      <4> QED
        BY <4>1, WalkAssumption, LenProperties DEF IInv, WalkTyped, StepsLeft
    <3> QED
      BY <2>1, <3>1, <3>2
  <2>3. CASE Environment /\ ~Walk
    <3>1. phase' = phase /\ queue' = queue /\ count' = count
      BY <2>3 DEF Environment, walkVars, chainVars
    <3>2. StepsLeft' = StepsLeft
      BY <3>1 DEF StepsLeft
    <3> QED
      BY <2>1, <2>3, <3>2
  <2> QED
    BY <2>2, <2>3 DEF Next
<1> QED
  BY <1>1, <1>2, <1>3, PTL DEF Spec, WalkProgresses
=============================================================================
