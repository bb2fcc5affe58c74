--------------------------- MODULE RevocationStore --------------------------
(***************************************************************************)
(* The store that answers whether a delegation is revoked, as the verifier *)
(* sees it through signed statuses (revocation_types.py), and the reading  *)
(* of retained statuses (status_evidence.py).                              *)
(*                                                                         *)
(* The store itself is not part of the verifier.  It is modelled from what *)
(* revocation_types.py says of it: `revocation_epoch` "is the number of    *)
(* changes the answering store has made to its revocation set", and a      *)
(* backup may be restored over a set that has moved on, after which the    *)
(* store answers with fresh moments over a set it held earlier.            *)
(*                                                                         *)
(* A status is a message of the store: what it says was true of the store  *)
(* when it was signed, and nobody else can sign one.  Anybody may ask at   *)
(* any moment, so the statuses there are to retain are the answers at all  *)
(* moments of the store's history.  None stands for all evidence that is   *)
(* missing, malformed or does not verify.                                  *)
(***************************************************************************)
EXTENDS Integers, FiniteSets, Sequences

CONSTANTS
  Jtis,         \* identifiers of delegations
  None,
  MaxTime,      \* bound: the last moment
  MaxEpoch,     \* bound: changes of one store
  MaxRestores,  \* bound: backups restored
  Counting,     \* whether the store keeps a counter: TRUE, FALSE or both
  Nonces        \* whether a reader sends a challenge

ASSUME StoreAssumption ==
  /\ MaxTime \in Nat /\ MaxEpoch \in Nat /\ MaxRestores \in Nat
  /\ Counting \subseteq BOOLEAN /\ Nonces \subseteq BOOLEAN
  /\ None \notin Int

Times == 0 .. MaxTime
Epochs == 0 .. MaxEpoch

Stores == [epoch : Epochs, revoked : SUBSET Jtis]

\* The claims of a signed status the checks read.  A status without a
\* request nonce is of version 1.
Statuses ==
  [jti : Jtis, is_revoked : BOOLEAN, checked_at : Times,
   revocation_epoch : Epochs \cup {None}, request_nonce : BOOLEAN]

VARIABLES
  now,         \* the clock all signed moments are read from
  store,       \* the store that answers
  history,     \* history: the store at every moment, any of which was backed up
  committed,   \* history: revocations made, restored over or not
  restores     \* history: backups restored

storeVars == <<now, store, history, committed, restores>>

StoreTypeOK ==
  /\ now \in Times
  /\ store \in Stores
  /\ history \subseteq [at : Times, store : Stores]
  /\ committed \subseteq [jti : Jtis, epoch : Epochs]
  /\ restores \in Nat

StoreInit ==
  /\ now = 0
  /\ store = [epoch |-> 0, revoked |-> {}]
  /\ history = {[at |-> 0, store |-> store]}
  /\ committed = {}
  /\ restores = 0

\* What the store holds from now on.
Hold(s) ==
  /\ store' = s
  /\ history' = history \cup {[at |-> now, store |-> s]}

Tick ==
  /\ now < MaxTime
  /\ now' = now + 1
  /\ history' = history \cup {[at |-> now + 1, store |-> store]}
  /\ UNCHANGED <<store, committed, restores>>

Revoke(j) ==
  /\ j \notin store.revoked
  /\ store.epoch < MaxEpoch
  /\ Hold([epoch |-> store.epoch + 1, revoked |-> store.revoked \cup {j}])
  /\ committed' = committed \cup {[jti |-> j, epoch |-> store.epoch + 1]}
  /\ UNCHANGED <<now, restores>>

\* A backup of an earlier moment is restored.
Restore ==
  /\ restores < MaxRestores
  /\ \E h \in history : h.store # store /\ Hold(h.store)
  /\ restores' = restores + 1
  /\ UNCHANGED <<now, committed>>

StoreNext ==
  \/ Tick
  \/ \E j \in Jtis : Revoke(j)
  \/ Restore
-----------------------------------------------------------------------------
(* Reading retained statuses.                                              *)

\* What the store answers for one delegation at a moment of its history, with
\* its epoch if it keeps a counter and a nonce if the reader sent one.
Answer(h, j, counted, nonce) ==
  [jti |-> j, is_revoked |-> j \in h.store.revoked, checked_at |-> h.at,
   revocation_epoch |-> IF counted THEN h.store.epoch ELSE None,
   request_nonce |-> nonce]

Answers ==
  {Answer(h, j, c, n) : h \in history, j \in Jtis, c \in Counting, n \in Nonces}

\* Whoever retains the evidence may put any status in any place.
StatusLists(n) == [1 .. n -> Answers \cup {None}]

\* The statuses of a list that are there and state an epoch.
Counted(list) ==
  {i \in DOMAIN list : list[i] # None /\ list[i].revocation_epoch # None}

\* `epoch_regression`: a status states an epoch below that of the last one
\* before it that states any.
EpochRegression(list) ==
  \E i, k \in Counted(list) :
    /\ i < k
    /\ \A m \in Counted(list) : m <= i \/ m >= k
    /\ list[k].revocation_epoch < list[i].revocation_epoch
-----------------------------------------------------------------------------
(* What a counter can and cannot tell.                                     *)

\* A restored store counts again from where its backup stood.  When it makes
\* another change under a number already used, its epochs no longer tell
\* which set they count.
Recounted ==
  \E c, d \in committed : c.epoch = d.epoch /\ c.jti # d.jti

\* The revocations made up to an epoch.
RevokedBy(epoch) == {c.jti : c \in {d \in committed : d.epoch <= epoch}}

\* Without a recount, every store of the history held the revocations its
\* epoch counts.
StoreInv ==
  /\ [at |-> now, store |-> store] \in history
  /\ \A h \in history :
       /\ h.at <= now
       /\ \A e \in 1 .. h.store.epoch : \E c \in committed : c.epoch = e
       /\ ~Recounted => h.store.revoked = RevokedBy(h.store.epoch)
=============================================================================
