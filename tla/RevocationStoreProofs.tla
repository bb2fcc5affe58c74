------------------------ MODULE RevocationStoreProofs -----------------------
(* What a revocation store promises whoever reads it, proved for stores of   *)
(* any size: while no epoch is counted twice, an epoch says which            *)
(* delegations are revoked.  The modules that read a store cite these.       *)
EXTENDS RevocationStore, WellFoundedInduction, TLAPS

\* What the modules that compose the store keep about it.
StoreOK == StoreTypeOK /\ StoreInv

\* A fresh store keeps its types and has counted nothing.
LEMMA StoreStarts == StoreInit => StoreOK
  BY StoreAssumption
  DEF StoreInit, StoreOK, StoreTypeOK, StoreInv, Stores, Times, Epochs, RevokedBy

\* While the store is left alone what is true of it stays true.
LEMMA StoreStays == StoreOK /\ UNCHANGED storeVars => StoreOK'
  BY DEF storeVars, StoreOK, StoreTypeOK, StoreInv, RevokedBy, Recounted

\* A step of the store keeps its types.
LEMMA StoreTyped == StoreTypeOK /\ StoreInv /\ StoreNext => StoreTypeOK'
<1> SUFFICES ASSUME StoreTypeOK, StoreInv, StoreNext PROVE StoreTypeOK'
  OBVIOUS
<1> USE StoreAssumption DEF StoreTypeOK, Times, Epochs
<1>1. CASE Tick
  BY <1>1 DEF Tick
<1>2. ASSUME NEW j \in Jtis, Revoke(j) PROVE StoreTypeOK'
  BY <1>2 DEF Revoke, Hold, Stores
<1>3. CASE Restore
  <2>1. PICK h \in history : Hold(h.store)
    BY <1>3 DEF Restore
  <2>2. h.store \in Stores
    OBVIOUS
  <2> QED
    BY <1>3, <2>1, <2>2 DEF Restore, Hold
<1> QED
  BY <1>1, <1>2, <1>3 DEF StoreNext

\* What a store of the history must show, read against the revocations made.
Counts(h, made) ==
  /\ \A e \in 1 .. h.store.epoch : \E c \in made : c.epoch = e
  /\ (\A c, d \in made : c.epoch = d.epoch => c.jti = d.jti)
       => h.store.revoked = {c.jti : c \in {d \in made : d.epoch <= h.store.epoch}}

\* The invariant is that every store of the history counts.
LEMMA InvCounts ==
  StoreInv <=> /\ [at |-> now, store |-> store] \in history
               /\ \A h \in history : h.at <= now /\ Counts(h, committed)
  BY DEF StoreInv, Counts, Recounted, RevokedBy

\* A revocation leaves what the earlier stores of the history counted: it is
\* counted by a later epoch, or by one already used, and then it is the same
\* revocation or the epochs no longer tell.
LEMMA EarlierStoresCount ==
  ASSUME NEW made \in SUBSET [jti : Jtis, epoch : Epochs],
         NEW h \in [at : Times, store : Stores],
         NEW new \in [jti : Jtis, epoch : Epochs], new.epoch # 0,
         Counts(h, made)
  PROVE  Counts(h, made \cup {new})
<1> DEFINE more == made \cup {new}
           By(set) == {c.jti : c \in {d \in set : d.epoch <= h.store.epoch}}
<1>1. \A e \in 1 .. h.store.epoch : \E c \in more : c.epoch = e
  BY DEF Counts
<1>2. ASSUME \A c, d \in more : c.epoch = d.epoch => c.jti = d.jti
      PROVE  h.store.revoked = By(more)
  <2>1. h.store.revoked = By(made)
    BY <1>2 DEF Counts
  <2>2. CASE new.epoch <= h.store.epoch /\ new.epoch >= 1
    <3>1. PICK c \in made : c.epoch = new.epoch
      BY <2>2 DEF Counts, Epochs, Stores
    <3>2. c.jti = new.jti
      BY <1>2, <3>1
    <3> QED
      BY <2>1, <2>2, <3>1, <3>2
  <2>3. CASE new.epoch > h.store.epoch
    BY <2>1, <2>3 DEF Epochs, Stores
  <2> QED
    BY <2>2, <2>3 DEF Epochs, Stores
<1> QED
  BY <1>1, <1>2 DEF Counts

\* The store that a revocation leaves counts it.
LEMMA RevokedStoreCounts ==
  ASSUME NEW made \in SUBSET [jti : Jtis, epoch : Epochs],
         NEW h \in [at : Times, store : Stores], Counts(h, made),
         NEW next \in [at : Times, store : Stores], NEW j \in Jtis,
         next.store = [epoch |-> h.store.epoch + 1,
                       revoked |-> h.store.revoked \cup {j}]
  PROVE  Counts(next, made \cup {[jti |-> j, epoch |-> h.store.epoch + 1]})
<1> DEFINE new == [jti |-> j, epoch |-> h.store.epoch + 1]
           more == made \cup {new}
           By(set, e) == {c.jti : c \in {d \in set : d.epoch <= e}}
<1>1. h.store.epoch \in Nat
  BY DEF Stores, Epochs
<1>0. new \in more /\ new.epoch = h.store.epoch + 1 /\ new.jti = j
  OBVIOUS
<1>2. \A e \in 1 .. h.store.epoch + 1 : \E c \in more : c.epoch = e
  <2> SUFFICES ASSUME NEW e \in 1 .. h.store.epoch + 1
               PROVE  \E c \in more : c.epoch = e
    OBVIOUS
  <2>1. CASE e = h.store.epoch + 1
    BY <1>0, <2>1
  <2>2. CASE e \in 1 .. h.store.epoch
    BY <2>2 DEF Counts
  <2> QED
    BY <1>1, <2>1, <2>2
<1>3. ASSUME \A c, d \in more : c.epoch = d.epoch => c.jti = d.jti
      PROVE  h.store.revoked \cup {j} = By(more, h.store.epoch + 1)
  <2>1. h.store.revoked = By(made, h.store.epoch)
    BY <1>3 DEF Counts
  <2>2. By(more, h.store.epoch + 1) \subseteq h.store.revoked \cup {j}
    <3> SUFFICES ASSUME NEW c \in more, c.epoch <= h.store.epoch + 1
                 PROVE  c.jti \in h.store.revoked \cup {j}
      OBVIOUS
    <3>1. CASE c.epoch = h.store.epoch + 1
      BY <1>3, <3>1
    <3>2. CASE c.epoch <= h.store.epoch
      BY <1>1, <2>1, <3>2
    <3>3. c.epoch \in Nat
      BY <1>1 DEF Epochs
    <3> QED
      BY <1>1, <3>1, <3>2, <3>3
  <2>3. h.store.revoked \cup {j} \subseteq By(more, h.store.epoch + 1)
    <3>1. j \in By(more, h.store.epoch + 1)
      <4>1. new.epoch <= h.store.epoch + 1
        BY <1>1, <1>0
      <4> HIDE DEF new
      <4>2. new.jti \in By(more, h.store.epoch + 1)
        BY <1>0, <4>1
      <4> QED
        BY <1>0, <4>2
    <3>2. By(made, h.store.epoch) \subseteq By(more, h.store.epoch + 1)
      BY <1>1 DEF Epochs
    <3> QED
      BY <2>1, <3>1, <3>2
  <2> QED
    BY <2>2, <2>3
<1> QED
  BY <1>2, <1>3 DEF Counts

\* Every step of the store keeps the counting: a revocation by the two lemmas
\* above, and a backup because it was a store of the history.
LEMMA StoreCounted == StoreTypeOK /\ StoreInv /\ StoreNext => StoreInv'
<1> SUFFICES ASSUME StoreTypeOK, StoreInv, StoreNext PROVE StoreInv'
  OBVIOUS
<1> DEFINE Held == /\ [at |-> now, store |-> store] \in history
                   /\ \A h \in history : h.at <= now /\ Counts(h, committed)
<1>1. Held
  BY InvCounts
<1>2. Held' => StoreInv'
  BY DEF StoreInv, Counts, Recounted, RevokedBy
<1>3. CASE Tick
  BY <1>1, <1>2, <1>3 DEF Tick, Counts, StoreTypeOK, Times
<1>4. ASSUME NEW j \in Jtis, Revoke(j) PROVE StoreInv'
  <2> DEFINE new == [jti |-> j, epoch |-> store.epoch + 1]
             this == [at |-> now, store |-> store]
             next == [at |-> now, store |-> store']
  <2>1. /\ new \in [jti : Jtis, epoch : Epochs] /\ new.epoch # 0
        /\ store' = [epoch |-> store.epoch + 1, revoked |-> store.revoked \cup {j}]
        /\ committed' = committed \cup {new}
        /\ history' = history \cup {next} /\ now' = now
    BY <1>4, StoreAssumption DEF Revoke, Hold, StoreTypeOK, Stores, Epochs
  <2>2. next \in [at : Times, store : Stores]
    BY <1>4, <2>1, StoreTyped DEF StoreTypeOK
  <2>3. Counts(next, committed')
    <3>1. this \in [at : Times, store : Stores] /\ Counts(this, committed)
      BY <1>1 DEF StoreTypeOK
    <3>2. next.store = [epoch |-> this.store.epoch + 1,
                        revoked |-> this.store.revoked \cup {j}]
      BY <2>1
    <3>3. committed \in SUBSET [jti : Jtis, epoch : Epochs]
      BY DEF StoreTypeOK
    <3> HIDE DEF this, next
    <3>4. Counts(next, committed \cup {[jti |-> j, epoch |-> this.store.epoch + 1]})
      BY <2>2, <3>1, <3>2, <3>3, RevokedStoreCounts
    <3> QED
      BY <2>1, <3>4 DEF this
  <2>4. \A h \in history : Counts(h, committed')
    BY <1>1, <2>1, EarlierStoresCount DEF StoreTypeOK
  <2>5. \A h \in history' : h.at <= now'
    BY <1>1, <2>1 DEF StoreTypeOK, Times
  <2>6. [at |-> now', store |-> store'] \in history'
    BY <2>1
  <2>7. \A h \in history' : Counts(h, committed')
    BY <2>1, <2>3, <2>4
  <2> QED
    BY <1>2, <2>5, <2>6, <2>7
<1>5. CASE Restore
  <2>1. PICK h \in history : Hold(h.store)
    BY <1>5 DEF Restore
  <2>2. Counts([at |-> now, store |-> h.store], committed)
    BY <1>1 DEF Counts
  <2> QED
    BY <1>1, <1>2, <1>5, <2>1, <2>2 DEF Restore, Hold, StoreTypeOK, Times
<1> QED
  BY <1>3, <1>4, <1>5 DEF StoreNext

\* A step of the store keeps what the composing modules rely on.
LEMMA StoreMoves == StoreOK /\ StoreNext => StoreOK'
  BY StoreTyped, StoreCounted DEF StoreOK

\* Every answer is a status.
LEMMA AnswersAreStatuses == StoreTypeOK => Answers \subseteq Statuses
<1> SUFFICES ASSUME StoreTypeOK, NEW h \in history, NEW j \in Jtis,
                    NEW c \in Counting, NEW n \in Nonces
             PROVE  Answer(h, j, c, n) \in Statuses
  BY DEF Answers
<1>1. h.at \in Times /\ h.store.epoch \in Epochs /\ n \in BOOLEAN
  BY StoreAssumption DEF StoreTypeOK, Stores
<1>2. (j \in h.store.revoked) \in BOOLEAN
  OBVIOUS
<1> QED
  BY <1>1, <1>2 DEF Answer, Statuses

\* What a retained answer of a counting store says: where no epoch is counted
\* twice, a delegation it does not call revoked was not revoked by its epoch.
LEMMA AnswerTells ==
  ASSUME StoreOK, ~Recounted, NEW s \in Answers, s.revocation_epoch # None
  PROVE  \E h \in history :
           /\ h.at = s.checked_at
           /\ h.store.epoch = s.revocation_epoch
           /\ h.store.revoked = RevokedBy(s.revocation_epoch)
           /\ s.is_revoked = (s.jti \in h.store.revoked)
<1>1. PICK h \in history, j \in Jtis, c \in Counting, n \in Nonces : s = Answer(h, j, c, n)
  BY DEF Answers
<1>2. s.revocation_epoch = h.store.epoch
  BY <1>1 DEF Answer
<1> QED
  BY <1>1, <1>2 DEF Answer, StoreOK, StoreInv
-----------------------------------------------------------------------------
(* Reading a chain's statuses one after another.                           *)

\* A set of numbers has a smallest one.
LEMMA Smallest ==
  ASSUME NEW T \in SUBSET Nat, T # {}
  PROVE  \E x \in T : \A y \in T : x <= y
<1> DEFINE Less == {p \in Nat \X Nat : p[1] < p[2]}
<1>1. IsWellFoundedOn(Less, Nat)
  BY NatLessThanWellFounded DEF OpToRel
<1> HIDE DEF Less
<1>2. PICK x \in T : \A y \in T : <<y, x>> \notin Less
  BY <1>1, WFMin
<1>3. ASSUME NEW y \in T, y < x PROVE FALSE
  <2>1. <<y, x>> \in Nat \X Nat /\ <<y, x>>[1] = y /\ <<y, x>>[2] = x
    OBVIOUS
  <2>2. <<y, x>> \in Less
    BY <1>3, <2>1 DEF Less
  <2> QED
    BY <1>2, <2>2
<1> QED
  BY <1>3

\* Where no status regresses from the one before, none is below the first.
LEMMA EpochsGrow ==
  ASSUME NEW n \in Nat, NEW list \in [1 .. n -> Statuses],
         \A i \in 1 .. n : list[i] # None /\ list[i].revocation_epoch # None,
         ~EpochRegression(list)
  PROVE  \A i \in 1 .. n : list[1].revocation_epoch <= list[i].revocation_epoch
<1> DEFINE E(i) == list[i].revocation_epoch
           Below == {i \in 1 .. n : E(i) < E(1)}
<1>1. \A i \in 1 .. n : E(i) \in Nat
  BY DEF Statuses, Epochs
<1>2. Counted(list) = 1 .. n
  BY DEF Counted
<1>3. ASSUME Below # {} PROVE FALSE
  <2>0. Below \in SUBSET Nat
    OBVIOUS
  <2>1. PICK k \in Below : \A i \in Below : k <= i
    <3> HIDE DEF Below
    <3> QED
      BY <1>3, <2>0, Smallest
  <2>2. k \in 1 .. n /\ E(k) < E(1) /\ k # 1
    BY <1>1, <2>1
  <2>3. k - 1 \in 1 .. n /\ k - 1 \notin Below
    BY <2>1, <2>2
  <2>4. E(k) < E(k - 1)
    BY <1>1, <2>2, <2>3
  <2>5. \A m \in Counted(list) : m <= k - 1 \/ m >= k
    BY <1>2, <2>2
  <2>6. /\ k - 1 \in Counted(list) /\ k \in Counted(list) /\ k - 1 < k
        /\ list[k].revocation_epoch < list[k - 1].revocation_epoch
    BY <1>2, <2>2, <2>3, <2>4
  <2> QED
    BY ONLY <2>5, <2>6, ~EpochRegression(list) DEF EpochRegression
<1> QED
  BY <1>1, <1>3

\* Answers that were read one after another and count on were all given by
\* stores that had made the changes of the first: it held no revocation of any
\* delegation they call clear.
THEOREM FirstIsClear ==
  ASSUME StoreOK, ~Recounted, NEW n \in Nat, n > 0, NEW list \in [1 .. n -> Answers],
         Counted(list) = 1 .. n, ~EpochRegression(list),
         \A i \in 1 .. n : ~list[i].is_revoked
  PROVE  \E h \in history :
           /\ h.at = list[1].checked_at
           /\ h.store.epoch = list[1].revocation_epoch
           /\ \A i \in 1 .. n : list[i].jti \notin h.store.revoked
<1> DEFINE E(i) == list[i].revocation_epoch
<1>1. /\ list \in [1 .. n -> Statuses]
      /\ \A i \in 1 .. n : list[i] # None /\ E(i) # None /\ E(i) \in Nat
  <2>1. list \in [1 .. n -> Statuses]
    BY AnswersAreStatuses DEF StoreOK
  <2>2. \A i \in 1 .. n : list[i] # None /\ E(i) # None
    BY DEF Counted
  <2> QED
    BY <2>1, <2>2 DEF Statuses, Epochs
<1>2. PICK h \in history :
        /\ h.at = list[1].checked_at
        /\ h.store.epoch = E(1)
        /\ h.store.revoked = RevokedBy(E(1))
  BY <1>1, AnswerTells
<1>3. ASSUME NEW i \in 1 .. n PROVE list[i].jti \notin h.store.revoked
  <2>1. PICK g \in history :
          /\ g.store.revoked = RevokedBy(E(i))
          /\ list[i].is_revoked = (list[i].jti \in g.store.revoked)
    BY <1>1, AnswerTells
  <2>2. E(1) <= E(i) /\ E(1) \in Nat /\ E(i) \in Nat
    BY <1>1, EpochsGrow
  <2>3. \A c \in committed : c.epoch \in Nat
    BY DEF StoreOK, StoreTypeOK, Epochs
  <2> HIDE DEF E
  <2>4. RevokedBy(E(1)) \subseteq RevokedBy(E(i))
    BY <2>2, <2>3 DEF RevokedBy
  <2>5. list[i].jti \notin RevokedBy(E(i))
    BY <2>1
  <2> QED
    BY <1>2, <2>4, <2>5
<1> QED
  BY <1>2, <1>3
=============================================================================
