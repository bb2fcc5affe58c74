# A verification of ambit-verify

`ambit-verify` is a stateless verifier: it reads evidence that other programs
wrote (hash-chained ledgers, signed heads, execution bundles, delegation
chains) and says whether it holds.  Nothing in it runs concurrently, but what
it reads is the work of many actors, in any order they like, and some of it
changes while it is read.  So most modules here describe a pair: an
environment that writes any evidence the verifier could be handed, and the
verifier that reads it record by record or file by file.  A property says what
a verdict implies about the evidence, or which verdict honest evidence gets.

Paths below are relative to `src/ambit_verify/` of the repository.

## The system

| Part | Files | State it keeps | Operations | What makes it correct |
| --- | --- | --- | --- | --- |
| Evidence-prefix replay | `execution_evidence.py` (`_replay_prefix`), `consumption.py`, `counterparty_recovery.py` | about twenty tables: lifecycle state of each operation, intents, fences, pending and recovered bodies, authentications, foreign identities fenced and cancelled, reservations, account totals, consumed identifiers | one branch per record: decision, consequence intent, consumption events (retry and reconciliation authentication, `dispatch_fenced`, `counterparty_pending`, resume, recovered, cancelled), settlement | no identifier used twice, no account above its ceiling, capacity that left comes back on a receipt only, cancellation and dispatch exclude each other, a settlement is the recovered terminal, a commitment traces to its own intent and dispatch |
| Ledger walk | `verify.py` | the handle of the active file, the list of segments, count, head, `hash_at` | open, list, read a line, next file | the head commits to every record counted; a ledger that grows is read as it was at one moment; the walk ends |
| Head, witness and checkpoint checks | `cli.py`, `head_attestation_checks.py`, `witness.py`, `checkpoint.py` | one walk's result, attestations, best witnessed head, checkpoint | the four checks of a command, and two functions called alone | what passes was attested, witnessed, or extends the checkpoint; honest ledgers are not accused |
| Paired bundles | `paired_bundles.py` | two bundles | verify both, join them on one dispatch | a valid pair is one A operation and one B operation joined by A's dispatch |
| Execution-bundle pipeline | `execution_evidence.py` (`verify_execution_bundle`) | one bundle and the caller's trust inputs | nine named checks, the replay among them | a valid bundle passes all nine, on the same records |
| Resource protocol | `resource_protocol.py` | none | canonical claims, signatures of dispatch, outcome, reconciliation | wire form |
| Delegation chain, attenuation | `tokens.py`, `attenuation.py` | the hop reached, parents verified | walk from leaf to root | no axis of authority widens over the chain |
| Token encodings | `tokens_slips.py`, `tokens_ed25519.py`, `tokens_p256.py`, `claim_shapes.py`, `models.py`, `hashing.py` | none | parse, canonicalise, verify a signature | wire form |
| Foreign clearance | `foreign_revocation.py`, `revocation_fence.py`, `status_evidence.py`, `revocation_types.py` | none in the verifier; A's store, fence and epochs behind it | verify the dependency, the statuses, the fence and the terminal's time | a cleared deletion missed no revocation the statuses count, and A's chain was clear at one moment between fence and gate |
| Admission, execution authority | `admission.py` | none over a call; stores of statuses and rows behind it | verify an admission, an origin, a path, an execution; twelve checks | the chain was clear at one moment near the decision, every account has a row, a foreign dispatch rests on B's own consent |
| Ratification | `authority_entry.py`, `ratification.py`, `ratification_bundle.py` | none; the ratifier's revocation store behind it | rebuild the grant from the entry, walk the ratifier's chain, read its statuses, check the grant; eight checks | a ratifier cannot grant beyond its reach, nor ratify with a ratified grant |
| Receipt links | `receipt_links.py` | decisions, intents, outcomes by seq | passes by kind of record, which collect issues | every consequence traces to one decision that permitted it; an honest gateway is not accused |
| Actor proofs, credentials | `actor_proof.py`, `credential_registration.py`, `credential_evidence.py`, `evidence_schema.py` | none | freshness, registration, retained artifacts | a credential vouches only after its enrolment |
| Behavioural snapshots | `behavioural.py` | none | one signed document and its source history | the history is complete up to the head |

Parts interact by calls alone.  `verify_execution_bundle` calls the replay, the
walk's record check and the authority checks on one list of records;
`verify_paired_execution_bundles` calls it twice; the `ambit-verify` command
walks a ledger once and hands the result to the head, witness and checkpoint
checks, which read more files of their own.  The hard behaviours are therefore
these: evidence in an order nobody wrote a test for; accounting over many
records; files that change between two reads; statuses read one after another
from a store that moves; and the same records searched twice by different rules.  `PROJECT.json` lists the hazards at
their lines.

## The modules

### PrefixReplay: the core

`PrefixReplay` translates `_replay_prefix` (execution_evidence.py 752-1514).
Each action reads one record and either updates the tables as the code does or
is not enabled; `Fail` reads a record that raises, after which nothing more
happens (`verdict = "failed"`).  A state that is still `"reading"` is what the
code has computed when a bundle ends there, so an invariant is a statement
about every accepted bundle.

| Action | Record |
| --- | --- |
| `Refuse`, `AuthorizeNative`, `AuthorizeForeign` | a decision with its consumption block: identifiers, accounts, a foreign dispatch |
| `LegacyDecision`, `ConsequenceIntent` | a decision without consumption evidence, and intents |
| `Authentication`, `CounterpartyCancelled` | retry, reconciliation, issuance and resume authentications; a cancellation |
| `DispatchFenced`, `CounterpartyPending`, `CounterpartyResumeFenced`, `CounterpartyRecovered` | the operation leaves, parks, returns, and its terminal is learnt |
| `ReleaseWithoutReceipt`, `ReleaseOnReceipt`, `Commit` | settlements |

Abstractions, and why they lose nothing the properties tell apart:

- A decision declares identifiers that must equal those of its verified
  evidence, so the declared ones are not enumerated apart.  The interval of an
  actor proof is its issue time plus and minus the freshness bound, and its
  declared expiry is its issue time plus that bound.
- Hash joins (decision, intent, operation, admission) determine each other, so
  one name stands for the chain.  Sequence comparisons hold because records are
  read in order.
- The rule on legacy decisions scans all records first in the code; read online
  it refuses the same prefixes.
- A fence without a verified token may carry claims of another operation; the
  code verifies the signature only when that operation is recovered or
  selected, and the model keeps that (`forged`, `absent`).
- Signatures and wire shapes are external.

`OperationBudget` is the abstract specification of the accounting: reservations
held by operations, a total that must fit, nothing else.  `PrefixBudget` maps
the replay's three account tables to it.

`MCPrefixReplay` gives the constants their values, and `MCPairedReplay` those of
`PairedReplay` (below).

### LedgerRead, LedgerWalk

`LedgerWalk` is `_walk_ledger`, line by line, beside a writer (external) that
appends in two visible halves and rotates the active file in two steps, and
somebody who replaces, removes or swaps one line.  A record is identified with
its history, because its hash commits to it: `Links` is then the code's three
comparisons.  `LedgerRead` is the abstract reader: the result is the log as it
was at one moment of the call, or a failure.

A rotation between opening and listing, or a half-visible append, makes the walk
of an honest ledger fail.  That is what the code does (it fails closed), and
`QuietWalkPasses` says these are the only reasons.

`StepsLeft` bounds what a walk has left to do, from the limit on records and the
files its listing fixed.  `WalkProgresses` says that each step of the walk lowers
it and nothing the writer does raises it, which is why `WalkEnds` holds.

### LedgerChecks

The command `_verify` of `cli.py`, `verify_chain` and `verify_witnessed_head`,
one file per step, over files that live on.  By what `LedgerWalk` shows, a
ledger is its history and one step reads it.  The writer attests, the witness
records any attested head (also out of order), the holder retains a checkpoint.
An attacker may roll back or fork the ledger, replay old attestations, truncate
the witness ledger or damage a file.  `verify_checkpoint` called alone is the
command with only that check asked for.

The command reads the sidecar and the witness ledger after it walked the
ledger, so it can report "truncated" or "rollback" of an honest ledger that grew
meanwhile; README.md:393 promises one snapshot of the ledger, not of the other
files.  `AccusationsTrue` states exactly this: such a verdict implies that the
ledger was appended to since the walk.  `verify_witnessed_head` reads in the
other order and never does it.

### PairedBundles, PairedReplay

`PairedBundles` is two ledgers, reduced to their `dispatch_fenced` records and
which operations committed, and the join.  `verify_execution_bundle` is
abstracted to what it establishes of the operation the caller selects: a signed
dispatch, a committed receipt and, on B's side, a dependency that is A's signed
artifact (`DependencyHolds`).  Of the operations not selected nothing is
verified, so their fences may name any dispatch, signed or not.

`PairedReplay` says where those ledgers come from.  It adds to `PrefixReplay`
the order of the fences, as a history with the dependency each names, and sees
the replay's tables as A's ledger of a pair (`ASide`) and as B's (`BSide`).
`ImplementsSides` is the refinement: what the replay accepts is a behaviour of
`PairedBundles` on either side.

### Attenuation, DelegationChain

`Attenuation` is the rule of `attenuation.py`, one predicate per axis, with what
`parse_delegation_claims` establishes of every slip (`WellFormed`) and the
account bounds `consumption.py` derives from a chain.  `Allows` is not code: it
says what a slip permits, axis by axis, and is what the rule is measured
against.

`DelegationChain` is `replay_delegation_chain` and `_walk_delegation_chain`
(`validate_delegation_chain` is the call that names version "2").  A token is
chosen when it is read.  Without an evaluation time the code reads the wall
clock once per hop, so `Tick` may come between two hops; a clock that is set
back during a call is not modelled.  The caller's `parent_status_check` is
external and may refuse any parent.  Which axis a refusal names and which depth
it reports are left out.

| Action | Code (tokens.py) |
| --- | --- |
| `RefuseVersion` | 291-301 |
| `RefuseCount`, `AcceptRoot`, `Start` | the limits and the count of tokens, 155-182 |
| `RefuseBeyondRoot`, `RefuseToken`, `RefuseAncestry` | a refusal that adds no parent, 183-197 |
| `RefuseWidening`, `RefuseStatus`, `RefuseDelegate` | a refusal after the parent was added, 198-217 |
| `Hop`, `Finish` | 198-218, 219-235 |

Two choices of the model are worth knowing.  Lists are sets, so an aggregate
bound whose `applies_to` is restated in another order, which the code refuses,
is a chain the model accepts: the properties are then shown of more chains.
And a path is covered by normalised prefix, as the rule compares it.  Git refs
are covered by another rule (`git_ref_is_covered`), under which a leaf may
cover what its ancestor does not; the code therefore checks every claim of the
chain, and `ChainNarrows` does not speak of them.

### Ratification

`Ratification` composes `DelegationChain` and `RevocationStore`.  A bundle shows
an authority entry, the grant that the entry asks for (the candidate), a
ratification slip, the ratifier's chain with statuses of it, and perhaps the
grant as it was issued.  The verifier rebuilds the candidate from the entry
(`Candidate`), walks the ratifier's chain with the actions of `DelegationChain`
at the moment the slip states, compares candidate and leaf (`WithinReach`, under
both rules the slip may name), and reads the statuses.  Eight checks are
recorded; one behind a failed check on which it rests is not run.

| Action | Code |
| --- | --- |
| `Walk` | `replay_delegation_chain`, called by `_check_ratifier_chain` |
| `MoveStore` | external: the ratifier's store revokes, or is restored |
| `Accept`, `Refuse` | `verify_ratification_bundle`, with statuses that hold or without |

- The module also has walks of no bundle (`bundle = None`), so every behaviour of
  `DelegationChain` is one of it, and what holds of chains holds here.
- The store moves only once the chain holds and only up to the ratification:
  what it does earlier or later is in no status that is accepted, or makes no
  difference to one.
- `ratified_at` is the ratifier's own word.  Statuses bound it from below and
  above; nothing else does.
- An entry whose `effective_at` lies before its `nbf` parses
  (`authority_entry.py`), but no bundle of it verifies: the entry check compares
  the slip's `effective_at` with the entry's, the contract compares it with the
  later of the two.  The model keeps both.

### RevocationStore, ForeignClearance

`RevocationStore` is external: what `revocation_types.py` says of the store
behind signed statuses.  It revokes, counts its changes in an epoch, and may be
restored to a backup, after which it counts on from there.  A status is what the
store answered at some moment of its history; whoever retains evidence chooses
from all of them.  `EpochRegression` is the code's comparison of neighbours
(`status_evidence.py`).

What a counter cannot tell is named `Recounted`: a restored store made another
change under a number it had used.  The properties that need the counter say so.

`ForeignClearance` is `foreign_revocation.py` with the fence of
`revocation_fence.py`.  A authorizes a dispatch under its own delegation chain,
B dispatches its operation on it, asks A for a fence, reads the statuses of A's
chain, passes its gate and records a terminal, while A's store moves.

| Action | Who, code |
| --- | --- |
| `MoveStore` | A's store |
| `AuthorizeForeign`, `AuthorizeNative` | A's and B's dispatch |
| `Grant` | A's fence, refused while a delegation of the chain is revoked |
| `PassOrdinary`, `PassUnexecuted` | the verifier: nothing to clear, nothing executed |
| `ReportRevoked`, `Clear`, `Refuse` | the verifier, of what B retained |

A setting says what the installed points, the admission and B's dispatch are,
among them points that share a leaf with the dispatch and not its chain.  All
moments are read from one clock; skew between A, B and the store is not
modelled.

### AuthorityReceipt, ExecutionAuthority

`verify_execution_authority` of `admission.py`.  `AuthorityReceipt` has, without
variables, the checks that read the receipt alone: admission and its
generations, the path up to an admitted origin, request, holder and retained
credentials (`credential_evidence.py`), the foreign dispatch.
`ExecutionAuthority` has the stages and what is read of the stores: statuses and
account rows, signed at moments before or after the decision.

| Action | Code |
| --- | --- |
| `MoveStore` | external |
| `Accept` | twelve checks pass, with statuses and rows the stores signed |
| `Refuse` | some check fails; early failures end the verification, late ones do not |

- A receipt may rest on two chains with a store each, B's own and that of a
  foreign dispatch.  The model follows the store of one, the receipt's `side`;
  what is read of the other may hold or not.
- Revocation statuses must be fresh at the decision (CHANGELOG.md:27-29 closed a
  window of twice the bound).  Account rows need be fresh only at the moment the
  receipt states, which may lie a bound away, so a row may be twice the bound
  old.  `EveryBoundAnswered` states what holds.
- A row names the duration of a window, not the period within it.
- A credential's enrolment is compared with the time of the decision
  (`actor_proof.py:221-226`).

### ReceiptLinks

`verify_receipt_records`, pass by pass, as the set of issues of a ledger, with
the row each decision gets in the report.  A gateway (external) decides, intends
and finishes with many operations open at a time; `Fault` appends any one other
record, also one with a number already used.  `verify_receipt_links` is the same
function on records the walk has numbered (`Numbered`).

## The runs

| Run | Question | Bounds |
| --- | --- | --- |
| `prefix_lifecycle` | every order of resume, recovery and settlement of one operation, and single use over time | 4 authentications, 2 bodies, 2 times, proofs that share a nonce and an approval, tokens absent, forged or genuine, one reservation, a legacy decision |
| `prefix_pair` | two operations on one foreign identity or native ones: cancellation against fence, receipts of the other; and the refinement to either side of `PairedBundles` | 2 operations, one of them native, 1 identity with 2 dispatches, claims with one dependency |
| `prefix_accounts` | totals and ceilings, and the refinement to `OperationBudget` | 2 operations, 3 reservations, amounts 0 to 2, ceilings 2 and 3, 2 keys |
| `ledger_walk` | the walk beside a writer and one act of tampering: what it returns, and that it gets done | log of 3, record limit 2, 3 files, 1 line tampered with |
| `ledger_checks` | what each check catches, and what honest ledgers get | ledger and witness ledger of 2; 4 moves, an attack counts for 3, so 1 attack and 1 change or 4 changes during a check |
| `pairs_linked` | what a valid pair implies | 2 operations on each side |
| `ratified_chains` | every ancestry under every rule version, and every ratification of an entry with it | up to 3 tokens: 23 delegations that differ on each axis, at three depths, and 6 misfit headers; 15 entries, both reach rules; clock 0 to 2; 1 revocation, 1 restore, stores that count and that do not |
| `foreign_clearance` | revocation and restore against fence, statuses, gate and terminal | chain of 2, clock 0 to 3, 2 revocations, 1 restore, 1 fence, 14 settings, ages 1 and 2, windows of 3 |
| `execution_authority` | the same against a decision with statuses before and after it; which parts of a receipt may differ | chain of 2, 25 receipts, signed age 2, clock 0 to 3, 2 revocations, 1 restore |
| `receipt_links` | what a ledger without issues means, and what an honest or a broken ledger gets | 5 records, 1 of them of somebody else (which counts twice), 2 requests, 6 policies |
| `checks_order` | finding: the order of failures | |
| `pairs_named` | finding: the dispatch a pair names | |

Two operations are enough to interfere; three reservations are enough for a
total to rise, fall and rise again; a log one longer than the limit, three files
and two bodies are enough for every rotation and every fork; three slips are
enough for a comparison of neighbours that does not compose.  A chain of two is
enough for two statuses of different moments, two revocations and a restore for
a store that counts one number twice, and three ticks for a status that is too
old; one fault in five records meets two operations or a complete one.  The replay's state
space is finite with no bound on the length of the prefix, since each evidence
item can be used finitely often.  Deadlock is not checked: a prefix ends, a walk
returns, a check has a verdict, a ledger reaches its bound.

Fairness: `LedgerWalk` alone has it, weak fairness of the walk's own steps.  The
verifier is one thread that runs until it returns; the writer owes it nothing.
`WalkEnds` therefore holds while the writer may stop anywhere or go on up to
its bound.  The other modules state safety properties only.

### Findings

- `checks_order`: `cli.py:270` looks for the head attestation before it looks at
  the result of the walk; README.md:391 says the chain comes first.  A broken
  ledger without a sidecar is reported as "head attestation missing".
- `pairs_named`: `paired_bundles.py:81` takes the first `dispatch_fenced` record
  of each ledger, `verify_execution_bundle` the operation the caller selected.
  README.md:285 says that the result names the verified dispatch.  With two
  dispatches in A's ledger it can name the other one, whose signature was not
  verified.

## The proofs

The theorems hold for every value of the constants that satisfies the named
assumptions.  For `PrefixReplay` these are `ReplayAssumption`: typing, and that
`None` is none of their elements.  Those of the other modules are of that kind
as well, but for what is said below.  One assumption speaks of size:
`OperationsFinite` in `PrefixBudget`, which only the refinement uses, and which
MAX_LEDGER_RECORDS (verify.py:46) justifies.  The type invariants of
`PrefixReplay`, `LedgerWalk`, `LedgerChecks`, `DelegationChain`,
`ForeignClearance`, `ExecutionAuthority` and `ReceiptLinks` are proved
(`TypeCorrect`) and no run repeats them.

1. `PrefixReplayProofs`.
   - `TypeCorrect`: one lemma per helper that writes a table, one per group of
     actions, `NextTyped`, then the temporal step.
   - `SingleUseHolds`.  `SingleUse` is not inductive: it must be known that
     `consumed` holds the latest expiry of each identifier.  `IdentifiersInv`
     says so.  The overwriting at execution_evidence.py:900 keeps it because a
     use is accepted only after the stored expiry, so the new one is later.
   - `CancellationExcludesHolds`, `CommittedWasDispatchedHolds`,
     `RecoveryDecidesHolds`, all from `LifecycleInv`: for each operation, what
     its state says of its fence, its foreign identity, its recovered terminal
     and its settlement (`OperationInv`), and that fenced and cancelled
     identities are disjoint.
   - `ReservationsFollowOwnerHolds` is inductive together with `LifecycleInv`;
     `FencedCapacityHolds` and `LifecycleOrderHolds` follow from the step lemmas.
   - `WithinCeilingHolds` needs `CeilingsKnown`: a key that was ever reserved
     keeps its ceiling, also when its total returns to zero.
   - `ResumesAuthenticatedHolds` needs `ResumesInv`: the number of resumes is
     the number of authentications consumed.
   - `AccountsBalancedHolds`, from `AccountsInv`: an operation holds at most one
     reservation of a key (`OnePerKey`), so that settling it changes one summand,
     and the reservations that debit a key are finitely many.  Nothing assumes
     that: each step adds at most one.  The model sums with the library's
     `MapThenSumSet`.  Sums are an induction on a finite set, which the provers
     cannot instantiate; the lemmas from `LeastSet` to `SumChange` replace it by
     the smallest counterexample among the subsets (a finite set's subsets are
     well founded under inclusion).
   - `BudgetsImplemented`: every behaviour of `PrefixReplay` is one of
     `OperationBudget`.  It needs that a total is also the sum, over all
     operations, of what each holds (`TotalsAreLoads`); a sum over an infinite
     set of operations would not be defined, hence `OperationsFinite`.
   - `SidesImplemented`: every behaviour of `PrefixReplay`, with the order of its
     fences, is one of `PairedBundles` on A's side and on B's, for any
     `Dependencies` that name dispatches of A (`DependenciesAssumption`).
     `FencedInv` says that the history names each fenced operation and no other.
     By `FenceSteps`, which needs `LifecycleInv`, a record fences one operation
     that was not fenced, commits one that was, or does neither; the first
     appends one record to both views (`FencesAppend`), because no record in the
     history belongs to the operation just fenced.
   - `ValidPairHolds`, of `PairedBundles` for any operations and any ledgers.
     `PairInv`: what is committed was fenced, and the ledgers a verdict was
     reached on are those there are (`PairJudged`).  The selected operation is
     looked up by its name and the dispatch by its position; that the two agree
     on ledgers with one fence is `OnlyFence`, and `PairAssumption` keeps a
     dispatch apart from none.

2. `RatificationProofs`.  First `DelegationChain`, for every set of slips and
   requests and every length of chain, from `WithinAssumption` (the order of paths
   is transitive) and `ChainAssumption` (slips are well formed; numbers are
   numbers).
   - `NarrowsTransitive`: the rule composes.  `NarrowsAllows`: a narrower slip
     allows no more.  Both are facts of the rule alone.
   - `ChainNarrowsHolds`, `DepthWithinEveryGrantHolds` and
     `AccountsInheritedHolds` follow from `ChainInv`, that the leaf narrows every
     parent read so far, which the walk itself never compares.
   - `DelegatedAtOneMomentHolds`: `ChainInv` also keeps one moment, that of the
     first hop, at which every parent so far held the right to delegate.  A
     later hop checks its parent at a later moment; that it held at the first
     one follows from the nesting of windows.  Under the legacy rule it is
     false, and a mutant shows it.

   Then `Ratification`.  `RatSpec` implies `Spec` of `DelegationChain`
   (`BundlesWalk`), so all of the above holds of a ratifier's chain.
   - `GrantWithinRatifierHolds` needs that a candidate is a delegation like any
     other (`CandidateFormed`) and that reach composes with the chain.  The reach
     rule by itself does not: it compares a shared ceiling with the ratifier's own
     bound only if the ratifier states none.  `ReachAbove` shows that it composes
     over a chain, because a ratifier so compared has no lineage, and then nobody
     above it has one (`NoLineageAbove`).
   - `RatifierNotRatifiedHolds` from the same: the leaf starts a lineage, so it
     has none.
   - `RatifierClearHolds`: the invariant of the store, by INSTANCE of
     `RevocationStoreProofs`, and `FirstIsClear`.
3. `RevocationStoreProofs`.  `StoreInv`: without a recount every store of the
   history held exactly the revocations its epoch counts, and it is inductive
   although a restore takes the store back, because it speaks of every moment of
   the history at once.  `EpochsGrow`: a list without a regression between
   neighbours that state an epoch has none at all.  It would be an induction on
   the list; it is proved from the smallest counterexample (`Smallest`).
   `FirstIsClear`: of such a list without a revoked status, all its delegations
   were clear at the moment of the first.  The following two and
   `RatificationProofs` rest on it or on `StoreInv`.
4. `ForeignClearanceProofs`: `NoRevocationUnseenHolds`, `ClearAtOneMomentHolds`,
   `CommittedIsClearedHolds`, from `IInv`: types, `StoreInv`, and that a verdict
   was reached on evidence the store and A had signed by then.
5. `ExecutionAuthorityProofs`: `AuthorityAtOneMomentHolds`, `RevocationSeenHolds`
   (while there is no restore, a set of revocations only grows: `OnlyGrown`),
   `EveryBoundAnsweredHolds` and `ForeignOnConsentHolds`.
6. `ReceiptLinksProofs`.
   - `ValidMeansLinked`: of any ledger of records whatever, no issue implies
     `Linked`.  `ValidIsLinkedHolds` is an instance.
   - `BrokenStaysBrokenHolds`: every issue but the two that are `Pending` stays
     when a numbered record is appended (`BadStays`).  Without the walk's numbers
     it fails: a record put later may complete a reference.
   - `HonestPassesHolds`: that an honest gateway's records are numbered, that each
     names what came before, and that it acted on what it may act on (`Honest`).
7. `LedgerWalkProofs`, from `WalkAssumption` (bounds are numbers) and
   `ValuesApart` (no record is damaged, no count is missing).  The invariant
   `IInv` is types, `Commits` and `Untampered`.
   - `HeadCommitsToRecords` from `Commits`: whoever tampers, the head commits to
     as many records as were counted, and `hash_at` is the one the caller wanted.
   - `QuietWalkHasReason` and `WalkIsAtomic` from `Untampered`: the files are the
     log cut into consecutive pieces (`Layout`), the file opened as active holds
     all that was appended by then (`Opened`), and the walk stands at the record
     of the log it has counted to (`Reading`).  The hard case is a rotation
     between opening and listing: the file is then listed as a segment and also
     read last, and its records do not follow again, so the walk fails unless the
     file is empty.  `WalkIsAtomic` is the refinement of `LedgerRead`.
   - `WalkIsBounded`, the safety half of `WalkEnds`, from `IInv` and
     `FilesLimited`: a walk lists no more files than the writer may have made,
     none is added to its list, and its count stays within the record limit.
8. `LedgerChecksProofs`, from `ChecksAssumption` and `ValuesApart` (a missing or
   damaged file is no head).
   - `OnlyAttestedPasses`, `WitnessedHeadsKept` and `CheckpointedHistoryKept` hold
     under any attack the model has.  Their `IInv` says which comparisons the
     check has behind it at each step (`OnRoute`, `Known`), and that a witness
     ledger damaged before the check began is never read as sound
     (`WitnessLost`).
   - `HonestNeverAccused` and `UpToDateLedgerPasses` need `JInv`: without an
     attack every attested head is one the ledger still extends, and what was read
     was so (`Honest`); while nothing moves, what was read is what is there
     (`Quiet`).

The strengthenings were model-checked before they were proved.

Only model-checked: `WalkEnds`, because liveness under fairness is beyond the
prover.  `WalkIsBounded` leaves of it that a walk which has not returned can
always take a step.

## Not modelled

Wire form: JSON grammar, canonical bytes, base64, hashes and signatures are
taken as genuine or not.  Clocks: all signed moments of a module are read from
one clock.  The credential command of `cli.py` and the ceremonies by which
credentials are enrolled (`credential_registration.py`); of credentials there is
what `verify_receipt_credentials` requires of them (`CredentialsHold` in
`AuthorityReceipt`).  Request freshness and verbs of a reconciliation.  Byte and
line limits of the walk, symbolic links, directory limits.  Which names and
texts a refusal has.  Behavioural snapshots are a check of one document whose
history check is the walk over a list; head-attestation signatures are genuine
or `Forged` in `LedgerChecks`.  Both are `not_modelled` in `PROJECT.json`.

## Plan

Left:

1. The nine-check pipeline of `verify_execution_bundle`, which runs the replay,
   the record check and the authority checks on one list of records, composed
   with `PairedBundles` in place of its abstraction.
2. The history behind a behavioural snapshot.
