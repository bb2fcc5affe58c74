----------------------------- MODULE LedgerWalk -----------------------------
(***************************************************************************)
(* One walk of a ledger, `_walk_ledger` of verify.py, beside the writer    *)
(* that keeps appending to it and rotating it.                             *)
(*                                                                         *)
(* The walk opens the active file, lists the rotated segments, reads them  *)
(* in order by name and the active file through the handle it opened       *)
(* first.  Every line read is a step of its own.  The writer's rotation is *)
(* external: rename the active file to the next segment, then create a new *)
(* one.  Its appends may be seen half done.                                *)
(*                                                                         *)
(* A record hash commits to everything before the record, so a record is   *)
(* identified with its history: the bodies of the records up to it, itself *)
(* included.  A record of history h has seq Len(h), links to Front(h) and  *)
(* hashes to h; the genesis hash is <<>>.  Damaged stands for every line   *)
(* that is no record with a correct hash of its own.                       *)
(***************************************************************************)
EXTENDS Integers, Sequences, SequencesExt

CONSTANTS
  Bodies,       \* record contents
  MaxRecords,   \* MAX_LEDGER_RECORDS
  want_seq,     \* the seq whose hash the caller wants, 0 for none
  MaxLog,       \* bound: records the writer appends
  MaxFiles,     \* bound: files it rotates through
  MaxTampering, \* bound: lines replaced, removed or moved by somebody else
  None, Damaged

ASSUME WalkAssumption ==
  MaxRecords \in Nat /\ want_seq \in Nat /\ MaxLog \in Nat
  /\ MaxFiles \in Nat \ {0} /\ MaxTampering \in Nat

Histories == UNION {[1 .. n -> Bodies] : n \in 1 .. MaxLog}

\* No record is damaged, and no count is missing.
ASSUME ValuesApart == Damaged \notin Histories /\ None \notin Nat

VARIABLES
  files,        \* contents of the files ever created, in order of creation
  segments,     \* how many of them have been renamed to segments
  log,          \* history: the bodies the writer appended, in order
  tampered,     \* history: how many lines were tampered with
  phase,        \* idle -> list -> reading -> ok or failed
  handle,       \* the file the walk opened as active
  queue,        \* the files still to be read, by the names listed
  offset,       \* lines read of the first of them
  count, head,  \* records verified, and the hash of the last one
  hash_at,      \* hash of record want_seq, once verified
  since,        \* history: length of the log when the walk began
  quiet         \* history: nothing happened to the files since

fileVars == <<files, segments, log, tampered>>
chainVars == <<count, head, hash_at>>
walkVars == <<phase, handle, queue, offset, chainVars, since>>
vars == <<fileVars, walkVars, quiet>>

Init ==
  /\ files = <<<<>>>> /\ segments = 0
  /\ log = <<>> /\ tampered = 0
  /\ phase = "idle" /\ handle = 0 /\ queue = <<>> /\ offset = 0
  /\ count = 0 /\ head = <<>> /\ hash_at = None
  /\ since = None /\ quiet = TRUE

ActiveExists == segments < Len(files)
-----------------------------------------------------------------------------
(* The writer and the file system.                                         *)

Torn == Last(Last(files)) = Damaged

\* An append is first visible as an incomplete line, which is no record.
BeginAppend ==
  /\ ActiveExists /\ Len(log) < MaxLog
  /\ Last(files) # <<>> => ~Torn
  /\ files' = [files EXCEPT ![Len(files)] = Append(@, Damaged)]
  /\ UNCHANGED <<segments, log, tampered>>

\* The line is complete: a record that links to the last one appended.
\* (Bound: the writer stops once its files have been tampered with.)
FinishAppend(b) ==
  /\ ActiveExists /\ tampered = 0
  /\ Last(files) # <<>> /\ Torn
  /\ log' = Append(log, b)
  /\ files' = [files EXCEPT ![Len(files)] = Append(Front(@), log')]
  /\ UNCHANGED <<segments, tampered>>

RotateAway ==
  /\ ActiveExists /\ Len(files) < MaxFiles
  /\ Last(files) # <<>> => ~Torn
  /\ segments' = Len(files)
  /\ UNCHANGED <<files, log, tampered>>

CreateActive ==
  /\ ~ActiveExists
  /\ files' = Append(files, <<>>)
  /\ UNCHANGED <<segments, log, tampered>>

\* A line is replaced, by garbage or by a record of any history, or removed,
\* or swapped with the one before it.
Tamper(f, l) ==
  /\ tampered < MaxTampering /\ phase \notin {"ok", "failed"}
  /\ tampered' = tampered + 1
  /\ \/ \E line \in Histories \cup {Damaged} :
          files' = [files EXCEPT ![f][l] = line]
     \/ files' = [files EXCEPT ![f] = RemoveAt(@, l)]
     \/ l > 1 /\ files' = [files EXCEPT ![f][l] = files[f][l - 1],
                                        ![f][l - 1] = files[f][l]]
  /\ UNCHANGED <<segments, log>>

Environment ==
  /\ \/ BeginAppend \/ RotateAway \/ CreateActive
     \/ \E b \in Bodies : FinishAppend(b)
     \/ \E f \in DOMAIN files : \E l \in DOMAIN files[f] : Tamper(f, l)
  /\ quiet' = (phase = "idle")
  /\ UNCHANGED walkVars
-----------------------------------------------------------------------------
(* The walk.                                                               *)

Fail == phase' = "failed" /\ UNCHANGED <<handle, queue, offset, chainVars>>

\* Open the active file and keep the handle; without one there is no ledger.
OpenActive ==
  /\ phase = "idle"
  /\ IF ActiveExists
     THEN /\ phase' = "list" /\ handle' = Len(files) /\ since' = Len(log)
          /\ UNCHANGED <<queue, offset, chainVars>>
     ELSE Fail /\ UNCHANGED since
  /\ UNCHANGED quiet
  /\ UNCHANGED fileVars

\* Mutation of ReadOrder: the active file comes first.
ReadOrderActiveFirst == <<handle>> \o [s \in 1 .. segments |-> s]

\* Segments in ascending order, then the active file by its handle.
ReadOrder == [s \in 1 .. segments |-> s] \o <<handle>>

ListSegments ==
  /\ phase = "list"
  /\ queue' = ReadOrder
  /\ phase' = "reading"
  /\ UNCHANGED <<fileVars, handle, offset, chainVars, since, quiet>>

\* Mutation of Links: the previous hash is not compared.
LinksBySeq(line) == line # Damaged /\ Len(line) = count + 1

\* `_check_record`: a record with a correct hash, the next seq, and a link to
\* the record before it.
Links(line) ==
  line # Damaged /\ Len(line) = count + 1 /\ Front(line) = head

\* Mutation of WithinLimit: a record too many.
WithinLimitInclusive == count <= MaxRecords

WithinLimit == count < MaxRecords

HashAt(line) == IF Len(line) = want_seq THEN line ELSE hash_at

\* Mutation of CurrentFile: the active file is read by its name, not by the
\* handle opened before the listing.
CurrentFileByName == files[IF Len(queue) = 1 THEN Len(files) ELSE Head(queue)]

CurrentFile == files[Head(queue)]

ReadLine ==
  /\ phase = "reading" /\ queue # <<>> /\ offset < Len(CurrentFile)
  /\ LET line == CurrentFile[offset + 1]
     IN  IF WithinLimit /\ Links(line)
         THEN /\ count' = count + 1 /\ head' = line /\ hash_at' = HashAt(line)
              /\ offset' = offset + 1
              /\ UNCHANGED <<phase, handle, queue>>
         ELSE Fail
  /\ UNCHANGED <<fileVars, since, quiet>>

\* Mutation of AtEnd: the active file is followed as it grows.
AtEndOfSegment ==
  offset >= Len(CurrentFile) /\ (Len(queue) > 1 \/ Len(log) = MaxLog)

AtEnd == offset >= Len(CurrentFile)

NextFile ==
  /\ phase = "reading" /\ queue # <<>> /\ AtEnd
  /\ queue' = Tail(queue) /\ offset' = 0
  /\ UNCHANGED <<fileVars, phase, handle, chainVars, since, quiet>>

Finish ==
  /\ phase = "reading" /\ queue = <<>>
  /\ phase' = "ok"
  /\ UNCHANGED <<fileVars, handle, queue, offset, chainVars, since, quiet>>

Walk == OpenActive \/ ListSegments \/ ReadLine \/ NextFile \/ Finish

Next == Environment \/ Walk

\* The verifier runs until it returns; the writer owes it nothing.
Spec == Init /\ [][Next]_vars /\ WF_vars(Walk)
-----------------------------------------------------------------------------
(* Properties.                                                             *)

TypeOK ==
  /\ \A f \in DOMAIN files :
       \A l \in DOMAIN files[f] : files[f][l] \in Histories \cup {Damaged}
  /\ segments \in {Len(files), Len(files) - 1}
  /\ Len(log) <= MaxLog /\ tampered \in 0 .. MaxTampering
  /\ phase \in {"idle", "list", "reading", "ok", "failed"}
  /\ handle \in 0 .. Len(files)
  /\ \A q \in DOMAIN queue : queue[q] \in DOMAIN files
  /\ count \in 0 .. MaxRecords
  /\ head \in Histories \cup {<<>>}
  /\ hash_at \in Histories \cup {None}

\* README: "No record was removed from the middle or reordered".  Whatever
\* was done to the lines before or during the walk, the head it returns
\* commits to exactly as many records as it counted, so a caller who knows the
\* head knows the whole ledger; and hash_at is the record of that history.
HeadCommits ==
  phase = "ok" =>
    /\ Len(head) = count
    /\ hash_at = IF want_seq \in 1 .. count THEN SubSeq(head, 1, want_seq)
                                            ELSE None

\* A ledger that nobody touches while it is walked, complete and untampered,
\* verifies; a walk does not fail for want of luck.
QuietWalkPasses ==
  phase = "failed" /\ quiet /\ tampered = 0 =>
    \/ ~ActiveExists
    \/ Last(files) # <<>> /\ Torn
    \/ Len(log) > MaxRecords

\* The walk is an atomic read of the writer's log: the head it returns was the
\* head of the ledger at a moment of the walk, however the writer appended and
\* rotated meanwhile.  (Of an untampered ledger: HeadCommits says the rest.)
Read == INSTANCE LedgerRead WITH
  Failed <- Damaged,
  result <- IF tampered > 0 \/ phase = "failed" THEN Damaged
            ELSE IF phase = "ok" THEN head ELSE None

ReadsAtomically == Read!Spec

\* How many steps the walk has left at most.
StepsLeft ==
  IF phase = "idle" THEN MaxRecords + MaxFiles + 3
  ELSE IF phase = "list" THEN MaxRecords + MaxFiles + 2
  ELSE IF phase = "reading" THEN MaxRecords - count + Len(queue) + 1
  ELSE 0

\* Every step of the walk leaves it fewer, and nothing a writer does leaves it
\* more: a ledger that grows and rotates while it is read cannot prolong the
\* call.  The files are fixed by the listing, and MAX_LEDGER_RECORDS limits the
\* records read from all of them together.
WalkProgresses ==
  [][/\ StepsLeft' >= 0 /\ StepsLeft' <= StepsLeft
     /\ Walk => StepsLeft' < StepsLeft]_vars

\* The walk ends even if the writer keeps appending: it reads each file it
\* listed to its end once, and never more than MaxRecords records.
WalkEnds == <>(phase \in {"ok", "failed"})
=============================================================================
