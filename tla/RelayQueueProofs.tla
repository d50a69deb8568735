-------------------------- MODULE RelayQueueProofs --------------------------
(***************************************************************************)
(* Proofs about RelayQueue, for every value of its constants.              *)
(***************************************************************************)
EXTENDS RelayQueue, FiniteSetTheorems, SequenceTheorems, TLAPS

-----------------------------------------------------------------------------
(***************************************************************************)
(* Lemmas about the helpers of the operations.                             *)
(***************************************************************************)

\* Dropping mappings keeps the index a map from keys to ids.
LEMMA ForgetType ==
  ASSUME NEW index \in [Keys -> Nat \cup {NoId}], NEW S
  PROVE  Forget(index, S) \in [Keys -> Nat \cup {NoId}]
BY DEF Forget, NoId

\* The arrangements of a finite set are sequences of its elements, each of
\* which has one position, told by its id.
LEMMA ArrangementShape ==
  ASSUME NEW S, IsFiniteSet(S), S \subseteq Entry, NEW q \in Arrangements(S)
  PROVE  /\ q \in Seq(S)
         /\ Elements(q) = S
         /\ \A i, j \in 1..Len(q) : q[i].id = q[j].id => i = j
<1>1. Cardinality(S) \in Nat
  BY FS_CardinalityType
<1>2. q \in [1..Cardinality(S) -> S] /\ Elements(q) = S /\ Ascending(q)
  BY DEF Arrangements
<1>3. q \in Seq(S)
  BY <1>1, <1>2, SeqDef
<1>4. Len(q) = Cardinality(S) /\ DOMAIN q = 1..Len(q)
  BY <1>1, <1>2, <1>3, LenProperties
<1>5. ASSUME NEW i \in 1..Len(q), NEW j \in 1..Len(q), q[i].id = q[j].id
      PROVE  i = j
  <2>1. q[i] \in Entry /\ q[j] \in Entry
    BY <1>2, <1>4
  <2>2. q[i].id \in Nat /\ q[j].id \in Nat
    BY <2>1 DEF Entry
  <2>3. ~(i < j) /\ ~(j < i)
    BY <1>2, <1>4, <1>5, <2>2 DEF Ascending
  <2>4. QED
    BY <1>4, <2>3
<1>6. QED
  BY <1>2, <1>3, <1>5

\* Finitely many leases hold finitely many entries.
LEMMA LeasedEntriesFinite ==
  ASSUME NEW S, IsFiniteSet(S)
  PROVE  IsFiniteSet({l.entry : l \in S})
<1> DEFINE f == [l \in S |-> l.entry]
           T == {l.entry : l \in S}
<1>1. f \in Surjection(S, T)
  BY DEF Surjection
<1>2. QED
  BY <1>1, FS_Surjection

\* Finitely many leases stay finitely many without some of them.
LEMMA RestFinite ==
  ASSUME NEW S, IsFiniteSet(S), NEW T
  PROVE  IsFiniteSet(S \ T)
<1>1. S \ T \in SUBSET S
  OBVIOUS
<1>2. QED
  BY <1>1, FS_Subset

\* A batch of positions makes finitely many leases.
LEMMA BatchFinite ==
  ASSUME NEW n \in Nat, NEW B \in SUBSET (1..n), NEW q, NEW d
  PROVE  IsFiniteSet({[deadline |-> d, entry |-> q[i]] : i \in B})
<1> DEFINE f == [i \in B |-> [deadline |-> d, entry |-> q[i]]]
           T == {[deadline |-> d, entry |-> q[i]] : i \in B}
<1>1. IsFiniteSet(B)
  <2>1. IsFiniteSet(1..n)
    BY FS_Interval
  <2>2. QED
    BY <2>1, FS_Subset
<1>2. f \in Surjection(B, T)
  BY DEF Surjection
<1>3. QED
  BY <1>1, <1>2, FS_Surjection

\* A stamp is a time the clock has shown.
LEMMA StampType ==
  ASSUME TypeOK, NEW t \in Stamps
  PROVE  t \in Nat /\ t <= now
BY DEF TypeOK, Stamps

-----------------------------------------------------------------------------
(***************************************************************************)
(* The inductive invariant behind HeldOnce: the leases are finitely many,  *)
(* so that the order in which take_at requeues them exists, and only ids   *)
(* that were given out are settled, so that the next one is fresh.         *)
(***************************************************************************)
FinitelyLeased == IsFiniteSet(leased)
SettledOld == \A i \in settled : i < next_id
PlaceInv == TypeOK /\ FinitelyLeased /\ SettledOld /\ HeldOnce

(***************************************************************************)
(* What a poll does, as facts the proofs below can use: take_at lines up   *)
(* the reclaimed entries before the waiting ones (the first f of the line  *)
(* q), no id being twice in the line, and splits the line after n entries. *)
(***************************************************************************)
LineUp(t, q, f) ==
  /\ q \in Seq(Entry)
  /\ f \in 0..Len(q)
  /\ Len(q) = f + Len(pending)
  /\ \A i \in 1..f : q[i] \in Reclaimed(t)
  /\ \A e \in Reclaimed(t) : \E i \in 1..f : q[i] = e
  /\ \A i \in 1..Len(pending) : q[f + i] = pending[i]
  /\ \A i, j \in 1..Len(q) : q[i].id = q[j].id => i = j

Handed(t, q, n) == Batch(q, n, ReclaimedIndex(t), t)

Split(t, q, n) ==
  /\ n \in 0..Len(q)
  /\ pending' = SubSeq(q, n + 1, Len(q))
  /\ leased' = (leased \ Expired(t)) \cup
       {[deadline |-> t + Lease, entry |-> q[i]] : i \in Handed(t, q, n)}
  /\ count_index' = Forget(ReclaimedIndex(t), {q[i] : i \in {j \in 1..n : Outlived(t, q[j])}})
  /\ served' \in {q[i].id : i \in Handed(t, q, n)} \cup {served}
  /\ served <= served'
  /\ \A i \in Handed(t, q, n) : q[i].id <= served'
  /\ UNCHANGED <<now, next_id, newest, settled>>

\* The reclaimed entries are finitely many.
LEMMA ReclaimedFinite ==
  ASSUME PlaceInv, NEW t
  PROVE  Reclaimed(t) \subseteq Entry /\ IsFiniteSet(Reclaimed(t))
<1>1. Expired(t) \subseteq leased /\ IsFiniteSet(Expired(t))
  BY FS_Subset DEF Expired, PlaceInv, FinitelyLeased
<1>2. IsFiniteSet(Returned(t))
  BY <1>1, LeasedEntriesFinite DEF Returned
<1>3. Reclaimed(t) \subseteq Returned(t)
  BY DEF Reclaimed
<1>4. Returned(t) \subseteq Entry
  BY <1>1 DEF Returned, PlaceInv, TypeOK, Lessee
<1>5. QED
  BY <1>2, <1>3, <1>4, FS_Subset

\* An entry whose lease has expired is held, and its id is neither that of a
\* waiting entry nor that of an entry whose lease goes on.
LEMMA ReclaimedApart ==
  ASSUME PlaceInv, NEW t, NEW e \in Returned(t)
  PROVE  /\ e \in Held
         /\ \A i \in DOMAIN pending : pending[i].id # e.id
         /\ \A l \in leased \ Expired(t) : l.entry.id # e.id
<1>1. PICK m \in Expired(t) : e = m.entry
  BY DEF Returned
<1>2. m \in leased
  BY DEF Expired
<1>3. \A l \in leased \ Expired(t) : l.entry.id # e.id
  BY <1>1, <1>2 DEF PlaceInv, HeldOnce, DistinctLeases
<1>4. QED
  BY <1>1, <1>2, <1>3 DEF PlaceInv, HeldOnce, Apart, Held, LeasedEntries

\* Requeueing makes such a line.
LEMMA RequeueLinesUp ==
  ASSUME PlaceInv, NEW t, NEW front \in Arrangements(Reclaimed(t))
  PROVE  LineUp(t, Requeued(front), Len(front))
<1> DEFINE q == Requeued(front)
           f == Len(front)
<1>1. /\ front \in Seq(Reclaimed(t))
      /\ Elements(front) = Reclaimed(t)
      /\ \A i, j \in 1..f : front[i].id = front[j].id => i = j
  BY ReclaimedFinite, ArrangementShape
<1>2. /\ front \in Seq(Entry)
      /\ pending \in Seq(Entry)
      /\ f \in Nat /\ DOMAIN front = 1..f
      /\ Len(pending) \in Nat /\ DOMAIN pending = 1..Len(pending)
  BY <1>1, ReclaimedFinite, SeqMonotonic, LenProperties DEF PlaceInv, TypeOK
<1>3. /\ q \in Seq(Entry)
      /\ Len(q) = f + Len(pending)
      /\ \A i \in 1..Len(q) : q[i] = IF i <= f THEN front[i] ELSE pending[i - f]
  BY <1>2, ConcatProperties DEF Requeued
<1>4. \A i \in 1..f : q[i] = front[i] /\ q[i] \in Reclaimed(t)
  BY <1>1, <1>2, <1>3 DEF Elements
<1>5. ASSUME NEW i \in 1..Len(pending)
      PROVE  q[f + i] = pending[i]
  <2>1. f + i \in 1..Len(q) /\ ~(f + i <= f) /\ f + i - f = i
    BY <1>2, <1>3
  <2>2. QED
    BY <1>3, <2>1
<1>6. ASSUME NEW e \in Reclaimed(t)
      PROVE  \E i \in 1..f : q[i] = e
  BY <1>1, <1>2, <1>4 DEF Elements
<1>7. ASSUME NEW i \in 1..f, NEW j \in 1..Len(pending)
      PROVE  q[i].id # q[f + j].id
  <2> HIDE DEF q, f
  <2>1. q[i] \in Returned(t)
    BY <1>4 DEF Reclaimed
  <2>2. \A p \in DOMAIN pending : pending[p].id # q[i].id
    BY <2>1, ReclaimedApart
  <2>3. q[f + j] = pending[j] /\ j \in DOMAIN pending
    BY <1>2, <1>5
  <2>4. QED
    BY <2>2, <2>3
<1>8. ASSUME NEW i \in 1..Len(q), NEW j \in 1..Len(q), q[i].id = q[j].id
      PROVE  i = j
  <2> HIDE DEF q, f
  <2>1. CASE i <= f /\ j <= f
    BY <1>1, <1>2, <1>4, <1>8, <2>1 DEF f
  <2>2. ASSUME NEW k \in 1..Len(q), k > f
        PROVE  \E p \in 1..Len(pending) : k = f + p
    <3>1. k - f \in 1..Len(pending) /\ k = f + (k - f)
      BY <1>2, <1>3, <2>2
    <3>2. QED
      BY <3>1
  <2>3. CASE i <= f /\ j > f
    BY <1>2, <1>7, <1>8, <2>2, <2>3
  <2>4. CASE i > f /\ j <= f
    BY <1>2, <1>7, <1>8, <2>2, <2>4
  <2>5. CASE i > f /\ j > f
    <3>1. PICK p \in 1..Len(pending), r \in 1..Len(pending) : i = f + p /\ j = f + r
      BY <2>2, <2>5
    <3>2. pending[p].id = pending[r].id
      BY <1>5, <1>8, <3>1
    <3>3. p = r
      BY <1>2, <3>2 DEF PlaceInv, HeldOnce, DistinctPositions
    <3>4. QED
      BY <3>1, <3>3
  <2>6. QED
    BY <1>2, <1>3, <2>1, <2>3, <2>4, <2>5
<1>9. QED
  BY <1>2, <1>3, <1>4, <1>5, <1>6, <1>8 DEF LineUp

\* Every poll lines up and splits.
LEMMA TakeSplits ==
  ASSUME PlaceInv, NEW max \in Batches, Take(max)
  PROVE  \E t \in Stamps : \E q, f, n : LineUp(t, q, f) /\ Split(t, q, n)
<1>0. PICK t \in Stamps :
        \E front \in Arrangements(Reclaimed(t)) : HandOut(max, t, Requeued(front))
  BY DEF Take
<1>1. PICK front \in Arrangements(Reclaimed(t)) : HandOut(max, t, Requeued(front))
  BY <1>0
<1> DEFINE q == Requeued(front)
<1>2. LineUp(t, q, Len(front))
  BY RequeueLinesUp
<1> HIDE DEF q
<1>3. PICK n \in 0..Len(q) :
        LET batch == {q[i] : i \in Handed(t, q, n)}
            aged  == {e \in {q[i] : i \in 1..n} : Outlived(t, e)}
        IN  /\ pending' = SubSeq(q, n + 1, Len(q))
            /\ leased' = (leased \ Expired(t)) \cup
                 {[deadline |-> Deadline(t), entry |-> e] : e \in batch}
            /\ count_index' = Forget(ReclaimedIndex(t), aged)
            /\ served' \in IdsOf(batch) \cup {served}
            /\ \A i \in IdsOf(batch) \cup {served} : i <= served'
            /\ UNCHANGED <<now, next_id, newest, settled>>
  BY <1>1 DEF HandOut, Handed, q
<1> DEFINE H == Handed(t, q, n)
<1>4. {[deadline |-> Deadline(t), entry |-> e] : e \in {q[i] : i \in H}}
        = {[deadline |-> t + Lease, entry |-> q[i]] : i \in H}
  BY DEF Deadline
<1>5. {e \in {q[i] : i \in 1..n} : Outlived(t, e)}
        = {q[i] : i \in {j \in 1..n : Outlived(t, q[j])}}
  OBVIOUS
<1>6. IdsOf({q[i] : i \in H}) = {q[i].id : i \in H}
  BY DEF IdsOf
<1>7. Split(t, q, n)
  BY <1>3, <1>4, <1>5, <1>6 DEF Split
<1>8. QED
  BY <1>2, <1>7

\* The end of a sequence from position n + 1 on.
LEMMA Suffix ==
  ASSUME NEW S, NEW q \in Seq(S), NEW n \in 0..Len(q)
  PROVE  /\ SubSeq(q, n + 1, Len(q)) \in Seq(S)
         /\ Len(SubSeq(q, n + 1, Len(q))) = Len(q) - n
         /\ DOMAIN SubSeq(q, n + 1, Len(q)) = 1..(Len(q) - n)
         /\ \A i \in 1..(Len(q) - n) : SubSeq(q, n + 1, Len(q))[i] = q[n + i]
<1> DEFINE s == SubSeq(q, n + 1, Len(q))
<1>1. Len(q) \in Nat /\ n \in Nat /\ n <= Len(q) /\ \A i \in 1..Len(q) : q[i] \in S
  BY LenProperties, ElementOfSeq
<1>2. /\ s \in Seq(S)
      /\ Len(s) = IF n + 1 <= Len(q) THEN Len(q) - (n + 1) + 1 ELSE 0
      /\ \A i \in 1..(Len(q) - (n + 1) + 1) : s[i] = q[n + 1 + i - 1]
  <2>1. n + 1 \in Int /\ Len(q) \in Int /\ \A i \in (n + 1)..Len(q) : q[i] \in S
    BY <1>1
  <2>2. QED
    BY ONLY <2>1, SubSeqProperties
<1>3. Len(s) = Len(q) - n
  BY <1>1, <1>2
<1>4. DOMAIN s = 1..(Len(q) - n)
  BY <1>2, <1>3, LenProperties
<1>5. ASSUME NEW i \in 1..(Len(q) - n)
      PROVE  s[i] = q[n + i]
  <2>1. s[i] = q[n + 1 + i - 1]
    BY <1>1, <1>2
  <2>2. n + 1 + i - 1 = n + i
    BY <1>1
  <2>3. QED
    BY <2>1, <2>2
<1>6. QED
  BY <1>2, <1>3, <1>4, <1>5

\* The entries of a line are held, apart from those whose lease goes on.
LEMMA LineHeld ==
  ASSUME PlaceInv, NEW t, NEW q, NEW f, LineUp(t, q, f), NEW i \in 1..Len(q)
  PROVE  /\ q[i] \in Held
         /\ \A l \in leased \ Expired(t) : l.entry.id # q[i].id
<1>1. /\ Len(q) \in Nat /\ f \in Nat /\ Len(pending) \in Nat
      /\ DOMAIN pending = 1..Len(pending)
  BY LenProperties DEF LineUp, PlaceInv, TypeOK
<1>2. CASE i <= f
  <2>1. q[i] \in Returned(t)
    BY <1>1, <1>2 DEF LineUp, Reclaimed
  <2>2. QED
    BY <2>1, ReclaimedApart
<1>3. CASE i > f
  <2>1. i - f \in 1..Len(pending) /\ i = f + (i - f)
    BY <1>1, <1>3 DEF LineUp
  <2>1a. \A p \in 1..Len(pending) : q[f + p] = pending[p]
    BY DEF LineUp
  <2>2. PICK p \in DOMAIN pending : q[i] = pending[p]
    <3> DEFINE r == i - f
    <3>1. r \in 1..Len(pending) /\ i = f + r
      BY <2>1
    <3> HIDE DEF r
    <3>2. q[i] = pending[r]
      BY <2>1a, <3>1
    <3>3. QED
      BY <1>1, <3>1, <3>2
  <2>3. QED
    BY <2>2 DEF PlaceInv, HeldOnce, Apart, Held, Elements
<1>4. QED
  BY <1>1, <1>2, <1>3

-----------------------------------------------------------------------------
(***************************************************************************)
(* Every operation keeps entries in one place.                             *)
(***************************************************************************)

\* A line split in two leaves no id twice: what is leased and what waits are
\* different positions, and the leases that are not reclaimed are not in it.
LEMMA TakeKeepsPlaces ==
  ASSUME PlaceInv, NEW max \in Batches, Take(max)
  PROVE  /\ pending' \in Seq(Entry)
         /\ leased' \subseteq Lessee
         /\ Held' \subseteq Held
         /\ FinitelyLeased'
         /\ DistinctPositions' /\ DistinctLeases' /\ Apart'
<1>0. PICK t \in Stamps : \E q, f, n : LineUp(t, q, f) /\ Split(t, q, n)
  BY TakeSplits
<1>1. PICK q, f, n : LineUp(t, q, f) /\ Split(t, q, n)
  BY <1>0
<1> DEFINE B == Handed(t, q, n)
<1>2. /\ q \in Seq(Entry) /\ n \in 0..Len(q) /\ t \in Nat
      /\ \A i, j \in 1..Len(q) : q[i].id = q[j].id => i = j
      /\ B \subseteq 1..n
      /\ pending' = SubSeq(q, n + 1, Len(q))
      /\ leased' = (leased \ Expired(t)) \cup
           {[deadline |-> t + Lease, entry |-> q[i]] : i \in B}
  BY <1>1, StampType DEF LineUp, Split, Handed, Batch, PlaceInv
<1>2a. \A i \in 1..Len(q) :
         q[i] \in Held /\ \A l \in leased \ Expired(t) : l.entry.id # q[i].id
  BY <1>1, LineHeld
<1> HIDE DEF B
<1>3. Len(q) \in Nat /\ n \in Nat /\ n <= Len(q) /\ B \subseteq 1..Len(q)
  BY <1>2, LenProperties
<1>4. /\ pending' \in Seq(Entry)
      /\ DOMAIN pending' = 1..(Len(q) - n)
      /\ \A i \in 1..(Len(q) - n) : pending'[i] = q[n + i]
  BY <1>2, Suffix
<1>5. \A i \in DOMAIN pending' : n + i \in (n + 1)..Len(q) /\ pending'[i] = q[n + i]
  BY <1>3, <1>4
<1>6. \A l \in leased' :
        \/ l \in leased \ Expired(t)
        \/ \E i \in B : l = [deadline |-> t + Lease, entry |-> q[i]]
  BY <1>2
<1>7. leased' \subseteq Lessee
  <2>1. ASSUME NEW i \in B
        PROVE  [deadline |-> t + Lease, entry |-> q[i]] \in Lessee
    <3>1. q[i] \in Entry
      BY <1>2, <1>3, ElementOfSeq
    <3>2. t + Lease \in Nat
      BY <1>2, LimitsAssumption
    <3>3. QED
      BY <3>1, <3>2 DEF Lessee
  <2>2. QED
    BY <1>6, <2>1 DEF PlaceInv, TypeOK
<1>8. Held' \subseteq Held
  <2>1. ASSUME NEW i \in DOMAIN pending'
        PROVE  pending'[i] \in Held
    BY <1>2, <1>2a, <1>3, <1>5
  <2>2. ASSUME NEW l \in leased'
        PROVE  l.entry \in Held
    BY <1>2, <1>2a, <1>3, <1>6 DEF Held, LeasedEntries
  <2>3. QED
    BY <2>1, <2>2 DEF Held, LeasedEntries, Elements
<1>9. FinitelyLeased'
  <2>1. IsFiniteSet(leased \ Expired(t))
    <3>1. IsFiniteSet(leased)
      BY DEF PlaceInv, FinitelyLeased
    <3>2. QED
      BY ONLY <3>1, RestFinite
  <2>2. IsFiniteSet({[deadline |-> t + Lease, entry |-> q[i]] : i \in B})
    <3>1. n \in Nat /\ B \in SUBSET (1..n)
      BY <1>2, <1>3
    <3>2. QED
      BY ONLY <3>1, BatchFinite, ZenonT(60)
  <2>3. QED
    BY <1>2, <2>1, <2>2, FS_Union DEF FinitelyLeased
<1>10. DistinctPositions'
  <2>1. ASSUME NEW i \in DOMAIN pending', NEW j \in DOMAIN pending',
               pending'[i].id = pending'[j].id
        PROVE  i = j
    <3>1. n + i \in 1..Len(q) /\ n + j \in 1..Len(q) /\ q[n + i].id = q[n + j].id
      BY <1>3, <1>4, <2>1
    <3>2. n + i = n + j
      BY <1>2, <3>1
    <3>3. QED
      BY <1>3, <1>4, <3>2
  <2>2. QED
    BY <2>1 DEF DistinctPositions
<1>11. DistinctLeases'
  <2>1. ASSUME NEW l \in leased', NEW m \in leased', l.entry.id = m.entry.id
        PROVE  l = m
    <3>1. CASE l \in leased \ Expired(t) /\ m \in leased \ Expired(t)
      BY <2>1, <3>1 DEF PlaceInv, HeldOnce, DistinctLeases
    <3>2. ASSUME NEW i \in B, NEW k \in leased \ Expired(t)
          PROVE  k.entry.id # [deadline |-> t + Lease, entry |-> q[i]].entry.id
      BY <1>2, <1>2a, <1>3
    <3>3. ASSUME NEW i \in B, NEW j \in B,
                 l = [deadline |-> t + Lease, entry |-> q[i]],
                 m = [deadline |-> t + Lease, entry |-> q[j]]
          PROVE  l = m
      <4>1. i \in 1..Len(q) /\ j \in 1..Len(q) /\ q[i].id = q[j].id
        BY <1>3, <2>1, <3>3
      <4>2. i = j
        BY <1>2, <4>1
      <4>3. QED
        BY <3>3, <4>2
    <3>4. QED
      BY <1>6, <2>1, <3>1, <3>2, <3>3
  <2>2. QED
    BY <2>1 DEF DistinctLeases
<1>12. Apart'
  <2>1. ASSUME NEW i \in DOMAIN pending', NEW l \in leased'
        PROVE  pending'[i].id # l.entry.id
    <3>1. n + i \in 1..Len(q) /\ n + i > n /\ pending'[i] = q[n + i]
      BY <1>3, <1>4
    <3>2. CASE l \in leased \ Expired(t)
      BY <1>2a, <3>1, <3>2
    <3>3. CASE \E j \in B : l = [deadline |-> t + Lease, entry |-> q[j]]
      <4>1. PICK j \in B : l = [deadline |-> t + Lease, entry |-> q[j]]
        BY <3>3
      <4>2. j \in 1..Len(q) /\ j # n + i
        BY <1>2, <1>3, <3>1
      <4>3. QED
        BY <1>2, <3>1, <4>1, <4>2
    <3>4. QED
      BY <1>6, <3>2, <3>3
  <2>2. QED
    BY <2>1 DEF Apart
<1>13. QED
  BY <1>4, <1>7, <1>8, <1>9, <1>10, <1>11, <1>12

\* The count_index and served of a poll have their types.
LEMMA TakeKeepsTypes ==
  ASSUME PlaceInv, NEW max \in Batches, Take(max)
  PROVE  /\ count_index' \in [Keys -> Nat \cup {NoId}]
         /\ served' \in Nat \cup {NoId}
         /\ UNCHANGED <<now, next_id, newest, settled>>
<1>1. PICK t \in Stamps : \E q, f, n : LineUp(t, q, f) /\ Split(t, q, n)
  BY TakeSplits
<1>2. PICK q, f, n : LineUp(t, q, f) /\ Split(t, q, n)
  BY <1>1
<1>3. count_index' \in [Keys -> Nat \cup {NoId}]
  <2>1. ReclaimedIndex(t) \in [Keys -> Nat \cup {NoId}]
    BY ForgetType DEF ReclaimedIndex, PlaceInv, TypeOK
  <2>2. QED
    BY <1>2, <2>1, ForgetType DEF Split
<1>4. served' \in Nat \cup {NoId}
  <2>1. ASSUME NEW i \in Handed(t, q, n)
        PROVE  q[i].id \in Nat
    <3>1. q \in Seq(Entry) /\ i \in 1..Len(q)
      BY <1>2, LenProperties DEF Handed, Batch, LineUp, Split
    <3>2. q[i] \in Entry
      BY <3>1, ElementOfSeq
    <3>3. QED
      BY <3>2 DEF Entry
  <2>2. QED
    BY <1>2, <2>1 DEF Split, PlaceInv, TypeOK
<1>5. QED
  BY <1>2, <1>3, <1>4 DEF Split

\* The eviction loop pops no more than there is.
LEMMA EvictionsType ==
  ASSUME TypeOK
  PROVE  Evictions \in 0..Len(pending)
<1>1. Len(pending) \in Nat /\ MaxEntries \in Nat
  BY LenProperties, LimitsAssumption DEF TypeOK
<1>2. QED
  BY <1>1 DEF Evictions

\* The line after an arrival: what the eviction leaves, then the new entry.
LEMMA EnqueueShape ==
  ASSUME TypeOK, NEW key \in Keys \cup {NoKey}, Enqueue(key)
  PROVE  \E t \in Stamps, n \in 0..Len(pending), e \in Entry :
           /\ n = Evictions
           /\ e = [id |-> next_id, enqueued |-> t, key |-> key]
           /\ pending' \in Seq(Entry)
           /\ DOMAIN pending' = 1..(Len(pending) - n + 1)
           /\ Len(pending') = Len(pending) - n + 1
           /\ \A i \in 1..(Len(pending) - n) : pending'[i] = pending[n + i]
           /\ pending'[Len(pending) - n + 1] = e
<1>1. PICK t \in Stamps :
        pending' = Append(SubSeq(pending, Evictions + 1, Len(pending)),
                          [id |-> next_id, enqueued |-> t, key |-> key])
  BY DEF Enqueue
<1> DEFINE n == Evictions
           e == [id |-> next_id, enqueued |-> t, key |-> key]
           s == SubSeq(pending, n + 1, Len(pending))
<1>2. e \in Entry
  BY StampType DEF Entry, TypeOK
<1>3. /\ n \in 0..Len(pending)
      /\ pending \in Seq(Entry) /\ Len(pending) \in Nat
  BY EvictionsType, LenProperties DEF TypeOK
<1> HIDE DEF n
<1>4. /\ s \in Seq(Entry)
      /\ Len(s) = Len(pending) - n
      /\ \A i \in 1..(Len(pending) - n) : s[i] = pending[n + i]
  BY <1>3, Suffix
<1>5. pending' = Append(s, e)
  BY <1>1 DEF n
<1> HIDE DEF s, e
<1>6. /\ pending' \in Seq(Entry)
      /\ Len(pending') = Len(s) + 1
      /\ \A i \in 1..Len(s) : pending'[i] = s[i]
      /\ pending'[Len(s) + 1] = e
  <2>1. e \in Entry /\ s \in Seq(Entry) /\ pending' = Append(s, e)
    BY <1>2, <1>4, <1>5
  <2>2. QED
    BY ONLY <2>1, AppendProperties
<1>7. DOMAIN pending' = 1..(Len(pending) - n + 1)
  BY <1>4, <1>6, LenProperties
<1>8. n = Evictions /\ e = [id |-> next_id, enqueued |-> t, key |-> key]
  BY DEF n, e
<1>9. /\ Len(pending') = Len(pending) - n + 1
      /\ \A i \in 1..(Len(pending) - n) : pending'[i] = pending[n + i]
      /\ pending'[Len(pending) - n + 1] = e
  BY <1>4, <1>6
<1>10. QED
  BY <1>2, <1>3, <1>6, <1>7, <1>8, <1>9

\* What an arrival leaves held: the entries that were not evicted, and itself.
LEMMA EnqueueHolds ==
  ASSUME TypeOK, NEW key \in Keys \cup {NoKey}, Enqueue(key)
  PROVE  \A e \in Held' :
           \/ e.id = next_id /\ e.key = key
           \/ \E i \in DOMAIN pending : i > Evictions /\ e = pending[i]
           \/ e \in LeasedEntries
<1>1. PICK t \in Stamps, n \in 0..Len(pending), new \in Entry :
        /\ n = Evictions
        /\ new = [id |-> next_id, enqueued |-> t, key |-> key]
        /\ pending' \in Seq(Entry)
        /\ DOMAIN pending' = 1..(Len(pending) - n + 1)
        /\ Len(pending') = Len(pending) - n + 1
        /\ \A i \in 1..(Len(pending) - n) : pending'[i] = pending[n + i]
        /\ pending'[Len(pending) - n + 1] = new
  BY EnqueueShape
<1>2. Len(pending) \in Nat /\ DOMAIN pending = 1..Len(pending)
  BY LenProperties DEF TypeOK
<1>3. leased' = leased
  BY DEF Enqueue
<1>4. ASSUME NEW i \in DOMAIN pending'
      PROVE  \/ pending'[i] = new
             \/ \E j \in DOMAIN pending : j > n /\ pending'[i] = pending[j]
  <2>1. CASE i = Len(pending) - n + 1
    BY <1>1, <2>1
  <2>2. CASE i # Len(pending) - n + 1
    <3>1. i \in 1..(Len(pending) - n) /\ n + i \in DOMAIN pending /\ n + i > n
      BY <1>1, <1>2, <2>2
    <3>2. QED
      BY <1>1, <3>1
  <2>3. QED
    BY <2>1, <2>2
<1>5. QED
  BY <1>1, <1>3, <1>4 DEF Held, LeasedEntries, Elements

\* The entry that arrives has a new id, so no id is there twice.
LEMMA EnqueueKeepsPlaces ==
  ASSUME PlaceInv, NEW key \in Keys \cup {NoKey}, Enqueue(key)
  PROVE  PlaceInv'
<1> USE DEF PlaceInv
<1>1. PICK t \in Stamps, n \in 0..Len(pending), new \in Entry :
        /\ n = Evictions
        /\ new = [id |-> next_id, enqueued |-> t, key |-> key]
        /\ pending' \in Seq(Entry)
        /\ DOMAIN pending' = 1..(Len(pending) - n + 1)
        /\ Len(pending') = Len(pending) - n + 1
        /\ \A i \in 1..(Len(pending) - n) : pending'[i] = pending[n + i]
        /\ pending'[Len(pending) - n + 1] = new
  BY EnqueueShape
<1>2. Len(pending) \in Nat /\ DOMAIN pending = 1..Len(pending) /\ next_id \in Nat
  BY LenProperties DEF TypeOK
<1>3. /\ next_id' = next_id + 1
      /\ leased' = leased
      /\ UNCHANGED <<now, served, settled>>
  BY DEF Enqueue
<1>4. TypeOK'
  <2>1. newest' \in [Keys -> Nat \cup {NoId}]
    BY <1>2 DEF Enqueue, TypeOK
  <2>2. count_index' \in [Keys -> Nat \cup {NoId}]
    <3>1. [k \in Keys |-> IF k = key THEN next_id ELSE count_index[k]]
            \in [Keys -> Nat \cup {NoId}]
      BY <1>2 DEF TypeOK
    <3>2. count_index' = Forget([k \in Keys |-> IF k = key THEN next_id ELSE count_index[k]],
                                {pending[i] : i \in 1..Evictions})
      BY DEF Enqueue
    <3>3. QED
      BY ONLY <3>1, <3>2, ForgetType
  <2>3. QED
    BY <1>1, <1>2, <1>3, <2>1, <2>2 DEF TypeOK
<1>5. \A i \in DOMAIN pending : pending[i].id < next_id
  BY DEF HeldOnce, OnlyOpenIds, Held, Elements
<1>6. \A l \in leased : l.entry.id < next_id
  BY DEF HeldOnce, OnlyOpenIds, Held, LeasedEntries
<1>7. \A i \in DOMAIN pending' :
        IF i = Len(pending) - n + 1 THEN pending'[i].id = next_id
        ELSE n + i \in DOMAIN pending /\ pending'[i] = pending[n + i]
  <2>1. pending'[Len(pending) - n + 1].id = next_id
    BY <1>1
  <2>2. ASSUME NEW i \in DOMAIN pending', i # Len(pending) - n + 1
        PROVE  n + i \in DOMAIN pending /\ pending'[i] = pending[n + i]
    <3>1. i \in 1..(Len(pending) - n) /\ n + i \in DOMAIN pending
      BY <1>1, <1>2, <2>2
    <3>2. QED
      BY <1>1, <3>1
  <2>3. QED
    BY <2>1, <2>2
<1>8. DistinctPositions'
  <2>1. ASSUME NEW i \in DOMAIN pending', NEW j \in DOMAIN pending',
               pending'[i].id = pending'[j].id
        PROVE  i = j
    <3>1. CASE i = Len(pending) - n + 1 \/ j = Len(pending) - n + 1
      BY <1>2, <1>5, <1>7, <2>1, <3>1
    <3>2. CASE i # Len(pending) - n + 1 /\ j # Len(pending) - n + 1
      <4>1. n + i = n + j
        BY <1>7, <2>1, <3>2 DEF HeldOnce, DistinctPositions
      <4>2. i \in Int /\ j \in Int /\ n \in Int
        BY <1>1
      <4>3. QED
        BY <4>1, <4>2
    <3>3. QED
      BY <3>1, <3>2
  <2>2. QED
    BY <2>1 DEF DistinctPositions
<1>9. DistinctLeases'
  BY <1>3 DEF HeldOnce, DistinctLeases
<1>10. Apart'
  BY <1>2, <1>3, <1>6, <1>7 DEF HeldOnce, Apart
<1>11. OnlyOpenIds'
  <2>1. \A e \in Held' : e \in Held \/ e.id = next_id
    BY EnqueueHolds DEF Held, Elements
  <2>2. next_id \notin settled
    BY <1>2 DEF SettledOld
  <2>3. \A e \in Held : e.id \in Nat /\ e.id < next_id /\ e.id \notin settled
    <3>1. Held \subseteq Entry
      BY <1>2, ElementOfSeq DEF Held, Elements, LeasedEntries, TypeOK, Lessee
    <3>2. QED
      BY <3>1 DEF HeldOnce, OnlyOpenIds, Entry
  <2>4. QED
    BY <1>2, <1>3, <2>1, <2>2, <2>3 DEF OnlyOpenIds
<1>12. SettledOld'
  BY <1>2, <1>3 DEF SettledOld, TypeOK
<1>13. QED
  BY <1>3, <1>4, <1>8, <1>9, <1>10, <1>11, <1>12 DEF HeldOnce, FinitelyLeased

\* An acknowledgement only takes leases away, and settles nothing that is held
\* elsewhere.
LEMMA AckKeepsPlaces ==
  ASSUME PlaceInv, NEW ids \in SUBSET (0..next_id - 1), Ack(ids)
  PROVE  PlaceInv'
<1> USE DEF PlaceInv
<1> DEFINE acked == {l \in leased : l.entry.id \in ids}
<1>1. /\ leased' = leased \ acked
      /\ count_index' = Forget(count_index, {l.entry : l \in acked})
      /\ settled' = settled \cup {l.entry.id : l \in acked}
      /\ UNCHANGED <<now, next_id, pending, newest, served>>
  BY DEF Ack
<1>2. \A l \in acked : l \in leased /\ l.entry.id \in Nat /\ l.entry.id < next_id
  BY DEF TypeOK, Lessee, Entry, HeldOnce, OnlyOpenIds, Held, LeasedEntries
<1> HIDE DEF acked
<1>3. TypeOK'
  BY <1>1, <1>2, ForgetType DEF TypeOK
<1>4. FinitelyLeased'
  BY <1>1, FS_Subset DEF FinitelyLeased
<1>5. SettledOld'
  BY <1>1, <1>2 DEF SettledOld
<1>6. DistinctPositions' /\ DistinctLeases' /\ Apart'
  BY <1>1 DEF HeldOnce, DistinctPositions, DistinctLeases, Apart
<1>7. OnlyOpenIds'
  <2>1. ASSUME NEW e \in Held'
        PROVE  e \in Held /\ \A l \in acked : l.entry.id # e.id
    <3>1. CASE e \in Elements(pending)
      BY <1>2, <3>1 DEF HeldOnce, Apart, Held, Elements
    <3>2. CASE \E l \in leased' : e = l.entry
      BY <1>1, <1>2, <3>2 DEF HeldOnce, DistinctLeases, Held, LeasedEntries
    <3>3. QED
      BY <1>1, <3>1, <3>2 DEF Held, LeasedEntries, Elements
  <2>2. QED
    BY <1>1, <2>1 DEF HeldOnce, OnlyOpenIds
<1>8. QED
  BY <1>3, <1>4, <1>5, <1>6, <1>7 DEF HeldOnce

\* A step that changes nothing but the clock keeps every place.
LEMMA TickKeepsPlaces ==
  ASSUME PlaceInv, Tick
  PROVE  PlaceInv'
<1>1. now' \in Nat /\ UNCHANGED <<queueVars, history>>
  BY DEF Tick, PlaceInv, TypeOK
<1>2. QED
  BY <1>1 DEF PlaceInv, TypeOK, FinitelyLeased, SettledOld, HeldOnce, OnlyOpenIds,
     DistinctPositions, DistinctLeases, Apart, Held, LeasedEntries, Elements,
     queueVars, history

\* The invariant of the places is inductive.
LEMMA PlacesInductive ==
  /\ Init => PlaceInv
  /\ PlaceInv /\ [Next]_vars => PlaceInv'
<1>1. ASSUME Init
      PROVE  PlaceInv
  <2>1. TypeOK
    <3>1. pending \in Seq(Entry)
      BY <1>1, EmptySeq DEF Init
    <3>2. QED
      BY <1>1, <3>1 DEF Init, TypeOK, NoId
  <2>2. FinitelyLeased
    BY <1>1, FS_EmptySet DEF Init, FinitelyLeased
  <2>3. DOMAIN pending = {} /\ leased = {} /\ settled = {}
    BY <1>1 DEF Init
  <2>4. QED
    BY <2>1, <2>2, <2>3 DEF PlaceInv, SettledOld, HeldOnce, OnlyOpenIds,
       DistinctPositions, DistinctLeases, Apart, Held, LeasedEntries, Elements
<1>2. ASSUME PlaceInv, [Next]_vars
      PROVE  PlaceInv'
  <2>1. CASE \E key \in Keys \cup {NoKey} : Enqueue(key)
    BY <1>2, <2>1, EnqueueKeepsPlaces
  <2>2. ASSUME NEW max \in Batches, Take(max)
        PROVE  PlaceInv'
    <3>1. TypeOK'
      BY <1>2, <2>2, TakeKeepsPlaces, TakeKeepsTypes DEF PlaceInv, TypeOK
    <3>2. OnlyOpenIds' /\ SettledOld'
      BY <1>2, <2>2, TakeKeepsPlaces, TakeKeepsTypes
      DEF PlaceInv, HeldOnce, OnlyOpenIds, SettledOld
    <3>3. QED
      BY <1>2, <2>2, <3>1, <3>2, TakeKeepsPlaces DEF PlaceInv, HeldOnce
  <2>3. CASE \E ids \in SUBSET (0..next_id - 1) : Ack(ids)
    BY <1>2, <2>3, AckKeepsPlaces
  <2>4. CASE Tick
    BY <1>2, <2>4, TickKeepsPlaces
  <2>5. CASE UNCHANGED vars
    BY <1>2, <2>5 DEF PlaceInv, TypeOK, FinitelyLeased, SettledOld, HeldOnce,
       OnlyOpenIds, DistinctPositions, DistinctLeases, Apart, Held, LeasedEntries,
       Elements, vars
  <2>6. QED
    BY <1>2, <2>1, <2>2, <2>3, <2>4, <2>5 DEF Next
<1>3. QED
  BY <1>1, <1>2

\* So it holds in every reachable state.
LEMMA PlacesInvariant == Spec => []PlaceInv
BY PlacesInductive, PTL DEF Spec

(* The variables of the buffer keep their types, whatever the sizes,       *)
(* times and bounds are (struct Inner of the queue).                       *)
THEOREM TypeCorrect == Spec => []TypeOK
<1>1. PlaceInv => TypeOK
  BY DEF PlaceInv
<1>2. QED
  BY <1>1, PlacesInvariant, PTL

(* An entry is never in two places, and one that was acknowledged is in    *)
(* none and never comes back (enqueue_at, take_at and ack).                *)
THEOREM EntriesHeldOnce == Spec => []HeldOnce
<1>1. PlaceInv => HeldOnce
  BY DEF PlaceInv
<1>2. QED
  BY <1>1, PlacesInvariant, PTL

-----------------------------------------------------------------------------
(***************************************************************************)
(* Order: who was handed out before comes first.                           *)
(***************************************************************************)

\* A poll keeps the order: what it requeues was handed out before.
LEMMA TakeKeepsOrder ==
  ASSUME PlaceInv, FreshInOrder, NEW max \in Batches, Take(max)
  PROVE  FreshInOrder'
<1>1. PICK t \in Stamps : \E q, f, n : LineUp(t, q, f) /\ Split(t, q, n)
  BY TakeSplits
<1>2. PICK q, f, n : LineUp(t, q, f) /\ Split(t, q, n)
  BY <1>1
<1>3. /\ q \in Seq(Entry) /\ Len(q) \in Nat /\ n \in 0..Len(q) /\ f \in 0..Len(q)
      /\ Len(pending) \in Nat /\ DOMAIN pending = 1..Len(pending)
      /\ Len(q) = f + Len(pending)
  BY <1>2, LenProperties DEF LineUp, Split, PlaceInv, TypeOK
<1>4. /\ DOMAIN pending' = 1..(Len(q) - n)
      /\ \A i \in 1..(Len(q) - n) : pending'[i] = q[n + i]
  BY <1>2, <1>3, Suffix DEF Split
<1>5. served \in Int /\ served' \in Int /\ served <= served'
  BY <1>2, TakeKeepsTypes DEF Split, PlaceInv, TypeOK, NoId
<1>6. \A i \in 1..Len(q) : q[i].id \in Nat
  <2>1. \A i \in 1..Len(q) : q[i] \in Entry
    BY <1>3, ElementOfSeq
  <2>2. QED
    BY <2>1 DEF Entry
<1>7. \A i \in 1..f : q[i].id <= served
  <2>1. ASSUME NEW i \in 1..f
        PROVE  q[i] \in Reclaimed(t)
    BY <1>2 DEF LineUp
  <2>2. QED
    BY <2>1 DEF Reclaimed, Returned, Expired, FreshInOrder
<1>8. ASSUME NEW i \in 1..Len(q), NEW j \in 1..Len(q), i < j, q[i].id > served
      PROVE  q[i].id < q[j].id
  <2>1. i > f
    BY <1>3, <1>5, <1>6, <1>7, <1>8
  <2> DEFINE a == i - f
             b == j - f
  <2>2. a \in DOMAIN pending /\ b \in DOMAIN pending /\ i = f + a /\ j = f + b /\ a < b
    BY <1>3, <1>8, <2>1
  <2> HIDE DEF a, b
  <2>3. \A p \in 1..Len(pending) : q[f + p] = pending[p]
    BY <1>2 DEF LineUp
  <2>4. q[i] = pending[a] /\ q[j] = pending[b]
    BY <1>3, <2>2, <2>3
  <2>5. QED
    BY <1>8, <2>2, <2>4 DEF FreshInOrder
<1>9. ASSUME NEW i \in DOMAIN pending', NEW j \in DOMAIN pending',
             i < j, pending'[i].id > served'
      PROVE  pending'[i].id < pending'[j].id
  <2>1. n + i \in 1..Len(q) /\ n + j \in 1..Len(q) /\ n + i < n + j
    BY <1>3, <1>4, <1>9
  <2>2. pending'[i] = q[n + i] /\ pending'[j] = q[n + j]
    BY <1>4
  <2>3. q[n + i].id > served
    BY <1>5, <1>6, <1>9, <2>1, <2>2
  <2>4. QED
    BY <1>8, <2>1, <2>2, <2>3
<1>10. ASSUME NEW l \in leased'
       PROVE  l.entry.id <= served'
  <2>1. CASE l \in leased
    <3>1. l.entry.id <= served /\ l.entry.id \in Nat
      BY <2>1 DEF FreshInOrder, PlaceInv, TypeOK, Lessee, Entry
    <3>2. QED
      BY <1>5, <3>1
  <2>2. CASE \E i \in Handed(t, q, n) : l = [deadline |-> t + Lease, entry |-> q[i]]
    BY <1>2, <2>2 DEF Split
  <2>3. QED
    BY <1>2, <2>1, <2>2 DEF Split
<1>11. QED
  BY <1>9, <1>10 DEF FreshInOrder

\* An arrival has the largest id and goes to the back.
LEMMA EnqueueKeepsOrder ==
  ASSUME PlaceInv, FreshInOrder, NEW key \in Keys \cup {NoKey}, Enqueue(key)
  PROVE  FreshInOrder'
<1>1. PICK t \in Stamps, n \in 0..Len(pending), new \in Entry :
        /\ n = Evictions
        /\ new = [id |-> next_id, enqueued |-> t, key |-> key]
        /\ pending' \in Seq(Entry)
        /\ DOMAIN pending' = 1..(Len(pending) - n + 1)
        /\ Len(pending') = Len(pending) - n + 1
        /\ \A i \in 1..(Len(pending) - n) : pending'[i] = pending[n + i]
        /\ pending'[Len(pending) - n + 1] = new
  BY EnqueueShape DEF PlaceInv
<1>2. Len(pending) \in Nat /\ DOMAIN pending = 1..Len(pending)
  BY LenProperties DEF PlaceInv, TypeOK
<1>3. leased' = leased /\ served' = served
  BY DEF Enqueue
<1>4. \A i \in DOMAIN pending : pending[i].id < next_id
  BY DEF PlaceInv, HeldOnce, OnlyOpenIds, Held, Elements
<1>5. ASSUME NEW i \in DOMAIN pending', NEW j \in DOMAIN pending',
             i < j, pending'[i].id > served'
      PROVE  pending'[i].id < pending'[j].id
  <2>1. i \in 1..(Len(pending) - n) /\ n + i \in DOMAIN pending
    BY <1>1, <1>2, <1>5
  <2>2. pending'[i] = pending[n + i]
    BY <1>1, <2>1
  <2>3. CASE j = Len(pending) - n + 1
    BY <1>1, <1>4, <2>1, <2>2, <2>3
  <2>4. CASE j # Len(pending) - n + 1
    <3>0. n \in Int /\ i \in Int /\ j \in 1..(Len(pending) - n + 1)
      BY <1>1, <2>1
    <3>1. j \in 1..(Len(pending) - n) /\ n + j \in DOMAIN pending /\ n + i < n + j
      BY <1>2, <1>5, <2>1, <2>4, <3>0
    <3>2. pending'[j] = pending[n + j]
      BY <1>1, <3>1
    <3>3. QED
      BY <1>3, <1>5, <2>1, <2>2, <3>1, <3>2 DEF FreshInOrder
  <2>5. QED
    BY <2>3, <2>4
<1>6. QED
  BY <1>3, <1>5 DEF FreshInOrder

(* Entries that were never handed out wait behind the ones that were, in   *)
(* the order they arrived (the requeueing loop of take_at).                *)
THEOREM FreshStayInOrder == Spec => []FreshInOrder
<1>1. Init => FreshInOrder
  <2>1. ASSUME Init
        PROVE  DOMAIN pending = {} /\ leased = {}
    BY <2>1 DEF Init
  <2>2. QED
    BY <2>1 DEF FreshInOrder
<1>2. ASSUME PlaceInv, FreshInOrder, [Next]_vars
      PROVE  FreshInOrder'
  <2>1. CASE \E key \in Keys \cup {NoKey} : Enqueue(key)
    BY <1>2, <2>1, EnqueueKeepsOrder
  <2>2. CASE \E max \in Batches : Take(max)
    BY <1>2, <2>2, TakeKeepsOrder
  <2>3. CASE \E ids \in SUBSET (0..next_id - 1) : Ack(ids)
    <3>1. leased' \subseteq leased /\ pending' = pending /\ served' = served
      BY <2>3 DEF Ack
    <3>2. QED
      BY <1>2, <3>1 DEF FreshInOrder
  <2>4. CASE Tick \/ UNCHANGED vars
    <3>1. UNCHANGED <<pending, leased, served>>
      BY <2>4 DEF Tick, vars, queueVars, history
    <3>2. QED
      BY <1>2, <3>1 DEF FreshInOrder
  <2>5. QED
    BY <1>2, <2>1, <2>2, <2>3, <2>4 DEF Next
<1>3. QED
  BY <1>1, <1>2, PlacesInvariant, PTL DEF Spec

-----------------------------------------------------------------------------
(***************************************************************************)
(* What a step never does.                                                 *)
(***************************************************************************)

\* The formulas of the action properties, for the proofs below.
ExclusiveStep ==
  /\ \A l \in leased' \ leased : l.deadline >= now + Lease - Skew
  /\ \A l \in leased \ leased' :
       l.deadline <= now \/ l.entry.id \in settled' \ settled

\* A poll ends leases that have expired, and makes leases of the full time.
LEMMA TakeRespectsLeases ==
  ASSUME PlaceInv, NEW max \in Batches, Take(max)
  PROVE  ExclusiveStep
<1>1. PICK t \in Stamps : \E q, f, n : LineUp(t, q, f) /\ Split(t, q, n)
  BY TakeSplits
<1>2. PICK q, f, n : Split(t, q, n)
  BY <1>1
<1>3. t \in Nat /\ now \in Nat /\ t <= now /\ now - t <= Skew /\ Skew \in Nat /\ Lease \in Nat
  BY StampType, LimitsAssumption DEF Stamps, PlaceInv, TypeOK
<1>4. \A l \in leased' \ leased : l.deadline = t + Lease
  BY <1>2 DEF Split
<1>5. \A l \in leased \ leased' : l.deadline \in Nat /\ l.deadline <= t
  BY <1>2 DEF Split, Expired, PlaceInv, TypeOK, Lessee
<1>6. QED
  BY <1>3, <1>4, <1>5 DEF ExclusiveStep

(* Until its deadline a leased entry is its poller's alone: only an        *)
(* acknowledgement ends the lease earlier, and every new lease lasts its   *)
(* full time but for the wait for the mutex (take_at, ack, enqueue_at).    *)
THEOREM LeasesAreExclusive == Spec => LeaseExclusive
<1>1. ASSUME PlaceInv, [Next]_vars
      PROVE  [ExclusiveStep]_vars
  <2>1. CASE \E key \in Keys \cup {NoKey} : Enqueue(key)
    <3>1. leased' = leased
      BY <2>1 DEF Enqueue
    <3>2. QED
      BY <3>1 DEF ExclusiveStep
  <2>2. CASE \E max \in Batches : Take(max)
    BY <1>1, <2>2, TakeRespectsLeases
  <2>3. ASSUME NEW ids \in SUBSET (0..next_id - 1), Ack(ids)
        PROVE  ExclusiveStep
    <3>1. /\ leased' = leased \ {l \in leased : l.entry.id \in ids}
          /\ settled' = settled \cup {l.entry.id : l \in {m \in leased : m.entry.id \in ids}}
      BY <2>3 DEF Ack
    <3>2. \A l \in leased : l.entry.id \notin settled
      BY <1>1 DEF PlaceInv, HeldOnce, OnlyOpenIds, Held, LeasedEntries
    <3>3. QED
      BY <3>1, <3>2 DEF ExclusiveStep
  <2>4. CASE Tick
    <3>1. leased' = leased
      BY <2>4 DEF Tick, queueVars
    <3>2. QED
      BY <3>1 DEF ExclusiveStep
  <2>5. QED
    BY <1>1, <2>1, <2>2, <2>3, <2>4 DEF Next
<1>2. QED
  BY <1>1, PlacesInvariant, PTL DEF Spec, LeaseExclusive, ExclusiveStep

(* Every arrival brings the buffer back within its capacity, however far   *)
(* requeued entries had overfilled it (the eviction loop of enqueue_at).   *)
THEOREM ArrivalsRestoreCapacity == Spec => ArrivalRestoresCapacity
<1> DEFINE A == next_id' # next_id => Len(pending') <= MaxEntries \/ Len(pending') = 1
<1>1. ASSUME PlaceInv, [Next]_vars
      PROVE  [A]_vars
  <2>1. CASE \E key \in Keys \cup {NoKey} : Enqueue(key)
    <3>1. Len(pending') = Len(pending) - Evictions + 1
      BY <1>1, <2>1, EnqueueShape DEF PlaceInv
    <3>2. Len(pending) \in Nat /\ MaxEntries \in Nat
      BY <1>1, LenProperties, LimitsAssumption DEF PlaceInv, TypeOK
    <3>3. QED
      BY <3>1, <3>2 DEF Evictions
  <2>2. CASE \E max \in Batches : Take(max)
    BY <1>1, <2>2, TakeKeepsTypes
  <2>3. CASE (\E ids \in SUBSET (0..next_id - 1) : Ack(ids)) \/ Tick
    BY <2>3 DEF Ack, Tick, queueVars
  <2>4. QED
    BY <1>1, <2>1, <2>2, <2>3 DEF Next
<1>2. QED
  BY <1>1, PlacesInvariant, PTL DEF Spec, ArrivalRestoresCapacity

-----------------------------------------------------------------------------
(***************************************************************************)
(* Badges.  Beside BadgeIndexExact the invariant says what the ids of      *)
(* badges tell: no held badge of a key is newer than its newest, and only  *)
(* a badge of the key can be the newest one.                               *)
(***************************************************************************)
BadgeSound ==
  \A k \in Keys :
    /\ newest[k] < next_id
    /\ \A e \in Held : e.key = k => e.id <= newest[k]
    /\ \A e \in Held : e.id = newest[k] => e.key = k
BadgeInv == PlaceInv /\ BadgeSound /\ BadgeIndexExact

\* What is held are entries, and their ids tell them apart.
LEMMA HeldApart ==
  ASSUME PlaceInv
  PROVE  /\ Held \subseteq Entry
         /\ \A d, e \in Held : d.id = e.id => d = e
<1>1. Held \subseteq Entry
  <2>1. \A i \in DOMAIN pending : pending[i] \in Entry
    BY LenProperties, ElementOfSeq DEF PlaceInv, TypeOK
  <2>2. QED
    BY <2>1 DEF Held, Elements, LeasedEntries, PlaceInv, TypeOK, Lessee
<1>2. ASSUME NEW d \in Held, NEW e \in Held, d.id = e.id
      PROVE  d = e
  <2>1. CASE d \in Elements(pending) /\ e \in Elements(pending)
    BY <1>2, <2>1 DEF Elements, PlaceInv, HeldOnce, DistinctPositions
  <2>2. CASE d \in LeasedEntries /\ e \in LeasedEntries
    BY <1>2, <2>2 DEF LeasedEntries, PlaceInv, HeldOnce, DistinctLeases
  <2>3. ~(d \in Elements(pending) /\ e \in LeasedEntries)
    BY <1>2 DEF Elements, LeasedEntries, PlaceInv, HeldOnce, Apart
  <2>4. ~(d \in LeasedEntries /\ e \in Elements(pending))
    BY <1>2 DEF Elements, LeasedEntries, PlaceInv, HeldOnce, Apart
  <2>5. QED
    BY <2>1, <2>2, <2>3, <2>4 DEF Held
<1>3. QED
  BY <1>1, <1>2

\* Forgetting held entries drops the mapping of a held newest badge exactly if
\* that badge is among them.
LEMMA ForgetHeld ==
  ASSUME PlaceInv, NEW index, NEW S \in SUBSET Held, NEW e \in Held, NEW k \in Keys,
         e.key = k, index[k] = e.id
  PROVE  Forget(index, S)[k] = IF e \in S THEN NoId ELSE index[k]
BY HeldApart DEF Forget

\* Forgetting never makes a mapping.
LEMMA ForgetKeepsNone ==
  ASSUME NEW index, NEW S, NEW k \in Keys, index[k] = NoId
  PROVE  Forget(index, S)[k] = NoId
BY DEF Forget

\* Forgetting in two steps is forgetting at once.
LEMMA ForgetTwice ==
  ASSUME NEW index, NEW S, NEW T, S \cup T \subseteq Entry
  PROVE  Forget(Forget(index, S), T) = Forget(index, S \cup T)
<1>1. ASSUME NEW k \in Keys
      PROVE  Forget(Forget(index, S), T)[k] = Forget(index, S \cup T)[k]
  <2>1. CASE \E e \in S : e.key = k /\ e.id = index[k]
    BY <2>1 DEF Forget
  <2>2. CASE ~ \E e \in S : e.key = k /\ e.id = index[k]
    <3>1. Forget(index, S)[k] = index[k]
      BY <2>2 DEF Forget
    <3>2. QED
      BY <2>2, <3>1 DEF Forget
  <2>3. QED
    BY <2>1, <2>2
<1>2. QED
  BY <1>1 DEF Forget

\* A step that lets entries go keeps the index exact if it forgets, among the
\* entries it lets go, every newest badge.
LEMMA DropKeepsBadges ==
  ASSUME BadgeInv, NEW gone \in SUBSET Held,
         UNCHANGED <<newest, next_id>>,
         Held' \subseteq Held, gone \cap Held' = {},
         count_index' = Forget(count_index, gone),
         \A e \in Held \ Held', k \in Keys : e.key = k /\ e.id = newest[k] => e \in gone
  PROVE  BadgeSound' /\ BadgeIndexExact'
<1>1. BadgeSound'
  BY DEF BadgeInv, BadgeSound
<1>2. ASSUME NEW k \in Keys
      PROVE  count_index'[k] = IF newest'[k] \in IdsOf(Held)' THEN newest'[k] ELSE NoId
  <2>1. CASE newest[k] \in IdsOf(Held)
    <3>1. PICK e \in Held : e.id = newest[k]
      BY <2>1 DEF IdsOf
    <3>2. e.key = k /\ count_index[k] = e.id
      BY <2>1, <3>1 DEF BadgeInv, BadgeSound, BadgeIndexExact
    <3>3. count_index'[k] = IF e \in gone THEN NoId ELSE newest[k]
      BY <3>1, <3>2, ForgetHeld DEF BadgeInv
    <3>4. newest[k] \in IdsOf(Held)' <=> e \in Held'
      BY <3>1, HeldApart DEF IdsOf, BadgeInv
    <3>5. e \in gone <=> e \notin Held'
      BY <3>1, <3>2
    <3>6. QED
      BY <3>3, <3>4, <3>5
  <2>2. CASE newest[k] \notin IdsOf(Held)
    <3>1. count_index[k] = NoId
      BY <2>2 DEF BadgeInv, BadgeIndexExact
    <3>2. count_index'[k] = NoId
      BY <3>1, ForgetKeepsNone
    <3>3. newest'[k] \notin IdsOf(Held)'
      BY <2>2 DEF IdsOf
    <3>4. QED
      BY <3>2, <3>3
  <2>3. QED
    BY <2>1, <2>2
<1>3. QED
  BY <1>1, <1>2 DEF BadgeIndexExact

\* What a poll drops: entries unfit when their lease is reclaimed, or when they
\* come to the head of the line.  Entries it forgets for their age are dropped.
AgedReturns(t) == {e \in Returned(t) : Outlived(t, e)}
AgedInLine(t, q, n) == {q[i] : i \in {j \in 1..n : Outlived(t, q[j])}}

LEMMA TakeDrops ==
  ASSUME PlaceInv, NEW t \in Stamps, NEW q, NEW f, NEW n, LineUp(t, q, f), Split(t, q, n)
  PROVE  /\ AgedReturns(t) \cup AgedInLine(t, q, n) \subseteq Held \ Held'
         /\ \A e \in Held \ Held' :
              \/ e \in Returned(t) /\ ~Fit(count_index, t, e)
              \/ \E i \in 1..n : e = q[i] /\ ~Fit(ReclaimedIndex(t), t, e)
<1>1. /\ q \in Seq(Entry) /\ Len(q) \in Nat /\ n \in 0..Len(q) /\ f \in 0..Len(q)
      /\ Len(pending) \in Nat /\ DOMAIN pending = 1..Len(pending)
      /\ Len(q) = f + Len(pending)
      /\ \A i, j \in 1..Len(q) : q[i].id = q[j].id => i = j
      /\ \A i \in 1..f : q[i] \in Reclaimed(t)
      /\ \A p \in 1..Len(pending) : q[f + p] = pending[p]
  BY LenProperties DEF LineUp, Split, PlaceInv, TypeOK
<1>2. /\ DOMAIN pending' = 1..(Len(q) - n)
      /\ \A i \in 1..(Len(q) - n) : pending'[i] = q[n + i]
  BY <1>1, Suffix DEF Split
<1>3. \A i \in 1..Len(q) :
        q[i] \in Held /\ \A l \in leased \ Expired(t) : l.entry.id # q[i].id
  BY LineHeld
<1>4. \A l : l \in leased' <=>
        \/ l \in leased \ Expired(t)
        \/ \E i \in Handed(t, q, n) : l = [deadline |-> t + Lease, entry |-> q[i]]
  BY DEF Split
<1>5. \A i \in 1..n : i \in Handed(t, q, n) <=> Fit(ReclaimedIndex(t), t, q[i])
  BY DEF Handed, Batch
<1>5a. Handed(t, q, n) \subseteq 1..n
  BY DEF Handed, Batch
<1>6. ASSUME NEW e \in AgedReturns(t) \cup AgedInLine(t, q, n)
      PROVE  e \in Held /\ Outlived(t, e)
  <2>1. CASE e \in AgedReturns(t)
    BY <2>1, ReclaimedApart DEF AgedReturns
  <2>2. CASE e \in AgedInLine(t, q, n)
    BY <1>1, <1>3, <2>2 DEF AgedInLine
  <2>3. QED
    BY <2>1, <2>2
<1>7. ASSUME NEW e \in AgedReturns(t) \cup AgedInLine(t, q, n)
      PROVE  e \notin Held'
  <2>1. ASSUME NEW l \in leased \ Expired(t)
        PROVE  l.entry # e
    <3>1. CASE e \in AgedReturns(t)
      BY <3>1, ReclaimedApart DEF AgedReturns
    <3>2. CASE e \in AgedInLine(t, q, n)
      BY <1>1, <1>3, <3>2 DEF AgedInLine
    <3>3. QED
      BY <3>1, <3>2
  <2>2. ASSUME NEW i \in Handed(t, q, n)
        PROVE  q[i] # e
    BY <1>5, <1>5a, <1>6 DEF Fit
  <2>3. ASSUME NEW i \in DOMAIN pending'
        PROVE  pending'[i] # e
    <3>1. n + i \in 1..Len(q) /\ n + i > n /\ pending'[i] = q[n + i]
      BY <1>1, <1>2
    <3>2. CASE e \in AgedInLine(t, q, n)
      BY <1>1, <3>1, <3>2 DEF AgedInLine
    <3>3. CASE e \in AgedReturns(t)
      <4>1. CASE n + i <= f
        BY <1>1, <1>6, <3>1, <4>1 DEF Reclaimed, Fit
      <4>2. CASE n + i > f
        <5> DEFINE p == n + i - f
        <5>1. p \in 1..Len(pending) /\ n + i = f + p
          BY <1>1, <1>2, <3>1, <4>2
        <5> HIDE DEF p
        <5>2. pending'[i] = pending[p]
          BY <1>1, <3>1, <5>1
        <5>3. QED
          BY <1>1, <3>3, <5>1, <5>2, ReclaimedApart DEF AgedReturns
      <4>3. QED
        BY <1>1, <3>1, <4>1, <4>2
    <3>4. QED
      BY <3>2, <3>3
  <2>4. QED
    BY <1>4, <2>1, <2>2, <2>3 DEF Held, LeasedEntries, Elements
<1>8. ASSUME NEW j \in 1..Len(q), q[j] \notin Held'
      PROVE  j \in 1..n /\ ~Fit(ReclaimedIndex(t), t, q[j])
  <2>1. j <= n
    <3>1. SUFFICES ASSUME j > n PROVE FALSE
      BY <1>1
    <3> DEFINE i == j - n
    <3>2. i \in DOMAIN pending' /\ j = n + i
      BY <1>1, <1>2, <3>1
    <3> HIDE DEF i
    <3>3. pending'[i] = q[j]
      BY <1>2, <3>2
    <3>4. QED
      BY <1>8, <3>2, <3>3 DEF Held, Elements
  <2>2. j \in 1..n
    BY <1>1, <2>1
  <2>3. j \notin Handed(t, q, n)
    <3>1. SUFFICES ASSUME j \in Handed(t, q, n) PROVE FALSE
      OBVIOUS
    <3> DEFINE l == [deadline |-> t + Lease, entry |-> q[j]]
    <3>2. l \in leased' /\ l.entry = q[j]
      BY <1>4, <3>1
    <3>3. QED
      BY <1>8, <3>2 DEF Held, LeasedEntries
  <2>4. QED
    BY <1>5, <2>2, <2>3
<1>9. ASSUME NEW e \in Held \ Held'
      PROVE  \/ e \in Returned(t) /\ ~Fit(count_index, t, e)
             \/ \E i \in 1..n : e = q[i] /\ ~Fit(ReclaimedIndex(t), t, e)
  <2>1. CASE e \in Elements(pending)
    <3>1. PICK p \in 1..Len(pending) : e = pending[p]
      BY <1>1, <2>1 DEF Elements
    <3>2. f + p \in 1..Len(q) /\ q[f + p] = e
      BY <1>1, <3>1
    <3>3. QED
      BY <1>8, <3>2
  <2>2. CASE e \in LeasedEntries
    <3>1. PICK l \in leased : e = l.entry
      BY <2>2 DEF LeasedEntries
    <3>2. l \in Expired(t)
      BY <1>4, <3>1 DEF Held, LeasedEntries
    <3>3. e \in Returned(t)
      BY <3>1, <3>2 DEF Returned
    <3>4. CASE Fit(count_index, t, e)
      <4>1. PICK i \in 1..f : q[i] = e
        BY <3>3, <3>4 DEF Reclaimed, LineUp
      <4>2. i \in 1..Len(q)
        BY <1>1
      <4>3. QED
        BY <1>8, <4>1, <4>2
    <3>5. QED
      BY <3>3, <3>4
  <2>3. QED
    BY <2>1, <2>2 DEF Held
<1>10. QED
  BY <1>6, <1>7, <1>9

\* So what a poll drops had outlived its TTL or was no newest badge.
LEMMA TakeLoses ==
  ASSUME BadgeInv, NEW t \in Stamps, NEW q, NEW f, NEW n, LineUp(t, q, f), Split(t, q, n),
         NEW e \in Held \ Held'
  PROVE  \/ e \in AgedReturns(t) \cup AgedInLine(t, q, n)
         \/ e.key \in Keys /\ e.id # newest[e.key]
<1>1. CASE e \in Returned(t) /\ ~Fit(count_index, t, e)
  <2>1. CASE Outlived(t, e)
    BY <1>1, <2>1 DEF AgedReturns
  <2>2. CASE ~IsLive(count_index, e)
    <3>1. e.key \in Keys /\ count_index[e.key] # e.id
      BY <2>2 DEF IsLive
    <3>2. e.id # newest[e.key]
      BY <3>1 DEF BadgeInv, BadgeIndexExact, IdsOf
    <3>3. QED
      BY <3>1, <3>2
  <2>3. QED
    BY <1>1, <2>1, <2>2 DEF Fit
<1>2. ASSUME NEW i \in 1..n, e = q[i], ~Fit(ReclaimedIndex(t), t, e)
      PROVE  \/ e \in AgedReturns(t) \cup AgedInLine(t, q, n)
             \/ e.key \in Keys /\ e.id # newest[e.key]
  <2>1. CASE Outlived(t, e)
    BY <1>2, <2>1 DEF AgedInLine
  <2>2. CASE ~IsLive(ReclaimedIndex(t), e)
    <3>1. e.key \in Keys /\ ReclaimedIndex(t)[e.key] # e.id
      BY <2>2 DEF IsLive
    <3>2. SUFFICES ASSUME e.id = newest[e.key] PROVE e \in AgedReturns(t)
      BY <3>1
    <3>3. count_index[e.key] = e.id
      BY <3>1, <3>2 DEF BadgeInv, BadgeIndexExact, IdsOf
    <3>4. ReclaimedIndex(t) = Forget(count_index, AgedReturns(t))
      BY DEF ReclaimedIndex, AgedReturns
    <3>5. AgedReturns(t) \subseteq Held
      BY TakeDrops DEF BadgeInv
    <3>6. QED
      BY <3>1, <3>3, <3>4, <3>5, ForgetHeld DEF BadgeInv
  <2>3. QED
    BY <1>2, <2>1, <2>2 DEF Fit
<1>3. QED
  BY <1>1, <1>2, TakeDrops DEF BadgeInv

LEMMA TakeKeepsBadges ==
  ASSUME BadgeInv, NEW max \in Batches, Take(max)
  PROVE  BadgeSound' /\ BadgeIndexExact'
<1>1. PICK t \in Stamps : \E q, f, n : LineUp(t, q, f) /\ Split(t, q, n)
  BY TakeSplits DEF BadgeInv
<1>2. PICK q, f, n : LineUp(t, q, f) /\ Split(t, q, n)
  BY <1>1
<1> DEFINE gone == AgedReturns(t) \cup AgedInLine(t, q, n)
<1>3. gone \subseteq Held \ Held' /\ gone \subseteq Entry
  BY <1>2, TakeDrops, HeldApart DEF BadgeInv
<1>4. Held' \subseteq Held
  BY TakeKeepsPlaces DEF BadgeInv
<1>5. count_index' = Forget(count_index, gone)
  <2>1. count_index' = Forget(Forget(count_index, AgedReturns(t)), AgedInLine(t, q, n))
    BY <1>2 DEF Split, ReclaimedIndex, AgedReturns, AgedInLine
  <2>2. QED
    BY <1>3, <2>1, ForgetTwice
<1>6. \A e \in Held \ Held', k \in Keys : e.key = k /\ e.id = newest[k] => e \in gone
  BY <1>2, TakeLoses
<1>7. UNCHANGED <<newest, next_id>>
  BY TakeKeepsTypes DEF BadgeInv
<1> HIDE DEF gone
<1>8. QED
  BY <1>3, <1>4, <1>5, <1>6, <1>7, DropKeepsBadges

\* An acknowledgement forgets exactly the badges it settles.
LEMMA AckKeepsBadges ==
  ASSUME BadgeInv, NEW ids \in SUBSET (0..next_id - 1), Ack(ids)
  PROVE  BadgeSound' /\ BadgeIndexExact'
<1> DEFINE acked == {l \in leased : l.entry.id \in ids}
           gone == {l.entry : l \in acked}
<1>1. /\ leased' = leased \ acked
      /\ count_index' = Forget(count_index, gone)
      /\ UNCHANGED <<next_id, pending, newest>>
  BY DEF Ack
<1>2. gone \subseteq Held /\ Held' \subseteq Held
  BY <1>1 DEF Held, LeasedEntries, Elements
<1>3. ASSUME NEW e \in gone
      PROVE  e \notin Held'
  <2>1. PICK m \in acked : e = m.entry
    OBVIOUS
  <2>2. m \in leased
    OBVIOUS
  <2>3. \A l \in leased' : l.entry # e
    BY <1>1, <2>1, <2>2 DEF BadgeInv, PlaceInv, HeldOnce, DistinctLeases
  <2>4. \A i \in DOMAIN pending' : pending'[i] # e
    BY <1>1, <2>1, <2>2 DEF BadgeInv, PlaceInv, HeldOnce, Apart
  <2>5. QED
    BY <2>3, <2>4 DEF Held, LeasedEntries, Elements
<1>4. ASSUME NEW e \in Held \ Held'
      PROVE  e \in gone
  BY <1>1 DEF Held, LeasedEntries, Elements
<1> HIDE DEF gone, acked
<1>5. QED
  BY <1>1, <1>2, <1>3, <1>4, DropKeepsBadges

\* An arrival lets go of what it evicts, of nothing else, and is held itself.
LEMMA EnqueueDrops ==
  ASSUME PlaceInv, NEW key \in Keys \cup {NoKey}, Enqueue(key)
  PROVE  LET evicted == {pending[i] : i \in 1..Evictions}
         IN  /\ evicted \subseteq Held /\ evicted \cap Held' = {}
             /\ Held \ Held' \subseteq evicted
             /\ \A e \in Held' : e \in Held \/ (e.id = next_id /\ e.key = key)
             /\ \E e \in Held' : e.id = next_id /\ e.key = key
<1> DEFINE evicted == {pending[i] : i \in 1..Evictions}
<1>1. PICK t \in Stamps, n \in 0..Len(pending), new \in Entry :
        /\ n = Evictions
        /\ new = [id |-> next_id, enqueued |-> t, key |-> key]
        /\ pending' \in Seq(Entry)
        /\ DOMAIN pending' = 1..(Len(pending) - n + 1)
        /\ Len(pending') = Len(pending) - n + 1
        /\ \A i \in 1..(Len(pending) - n) : pending'[i] = pending[n + i]
        /\ pending'[Len(pending) - n + 1] = new
  BY EnqueueShape DEF PlaceInv
<1>2. Len(pending) \in Nat /\ DOMAIN pending = 1..Len(pending)
  BY LenProperties DEF PlaceInv, TypeOK
<1>3. leased' = leased
  BY DEF Enqueue
<1>4. evicted \subseteq Held
  BY <1>1, <1>2 DEF Held, Elements
<1>5. \A e \in Held' : e \in Held \/ (e.id = next_id /\ e.key = key)
  <2>1. \A i \in DOMAIN pending : pending[i] \in Held
    BY DEF Held, Elements
  <2>2. LeasedEntries \subseteq Held
    BY DEF Held
  <2>3. TypeOK
    BY DEF PlaceInv
  <2>4. \A e \in Held' :
          \/ e.id = next_id /\ e.key = key
          \/ \E i \in DOMAIN pending : i > Evictions /\ e = pending[i]
          \/ e \in LeasedEntries
    BY <2>3, EnqueueHolds
  <2>5. ASSUME NEW e \in Held', ~(e.id = next_id /\ e.key = key)
        PROVE  e \in Held
    <3>1. CASE \E i \in DOMAIN pending : i > Evictions /\ e = pending[i]
      BY <2>1, <3>1
    <3>2. CASE e \in LeasedEntries
      BY <2>2, <3>2
    <3>3. QED
      BY <2>4, <2>5, <3>1, <3>2
  <2>6. QED
    BY <2>5
<1>6. ASSUME NEW i \in 1..Evictions
      PROVE  pending[i] \notin Held'
  <2>1. i \in DOMAIN pending /\ pending[i] \in Held
    BY <1>1, <1>2, SMTT(30) DEF Held, Elements
  <2>2. pending[i].id # next_id
    <3>1. pending[i].id \in Nat /\ pending[i].id < next_id
      BY <2>1, HeldApart DEF PlaceInv, HeldOnce, OnlyOpenIds, Entry
    <3>2. QED
      BY <3>1
  <2>3. ASSUME NEW j \in DOMAIN pending, j > Evictions
        PROVE  pending[j] # pending[i]
    <3>1. i # j
      BY <1>1, <1>2, <2>1, <2>3
    <3>2. QED
      BY <2>1, <3>1 DEF PlaceInv, HeldOnce, DistinctPositions
  <2>4. pending[i] \notin LeasedEntries
    BY <2>1 DEF LeasedEntries, PlaceInv, HeldOnce, Apart
  <2>5. QED
    BY <2>2, <2>3, <2>4, EnqueueHolds DEF PlaceInv
<1>7. ASSUME NEW e \in Held, e \notin evicted
      PROVE  e \in Held'
  <2>1. CASE e \in LeasedEntries
    BY <1>3, <2>1 DEF Held, LeasedEntries
  <2>2. ASSUME NEW j \in DOMAIN pending, e = pending[j]
        PROVE  e \in Held'
    <3>1. j > n
      BY <1>1, <1>2, <1>7, <2>2
    <3> DEFINE i == j - n
    <3>2. i \in 1..(Len(pending) - n) /\ i \in DOMAIN pending' /\ j = n + i
      BY <1>1, <1>2, <3>1
    <3> HIDE DEF i
    <3>3. pending'[i] = e
      BY <1>1, <2>2, <3>2
    <3>4. QED
      BY <3>2, <3>3 DEF Held, Elements
  <2>3. QED
    BY <2>1, <2>2 DEF Held, Elements
<1>8. \E e \in Held' : e.id = next_id /\ e.key = key
  <2>1. Len(pending) - n + 1 \in DOMAIN pending'
    BY <1>1, <1>2
  <2>2. new \in Held'
    BY <1>1, <2>1 DEF Held, Elements
  <2>3. QED
    BY <1>1, <2>2
<1>9. QED
  BY <1>4, <1>5, <1>6, <1>7, <1>8

\* An arrival is the newest badge of its key, and an evicted newest badge of
\* another key is forgotten.
LEMMA EnqueueKeepsBadges ==
  ASSUME BadgeInv, NEW key \in Keys \cup {NoKey}, Enqueue(key)
  PROVE  BadgeSound' /\ BadgeIndexExact'
<1> DEFINE evicted == {pending[i] : i \in 1..Evictions}
           index   == [k \in Keys |-> IF k = key THEN next_id ELSE count_index[k]]
<1>1. /\ evicted \subseteq Held /\ evicted \cap Held' = {}
      /\ Held \ Held' \subseteq evicted
      /\ \A e \in Held' : e \in Held \/ (e.id = next_id /\ e.key = key)
      /\ \E e \in Held' : e.id = next_id /\ e.key = key
  BY EnqueueDrops DEF BadgeInv
<1>2. /\ next_id \in Nat /\ next_id' = next_id + 1
      /\ \A k \in Keys : newest[k] \in Int /\ newest[k] < next_id
      /\ newest' = [k \in Keys |-> IF k = key THEN next_id ELSE newest[k]]
      /\ count_index' = Forget(index, evicted)
  BY DEF Enqueue, BadgeInv, BadgeSound, PlaceInv, TypeOK, NoId
<1>3. \A e \in Held : e.id \in Nat /\ e.id < next_id
  <2>1. Held \subseteq Entry
    BY HeldApart DEF BadgeInv
  <2>2. QED
    BY <2>1 DEF BadgeInv, PlaceInv, HeldOnce, OnlyOpenIds, Entry
<1> HIDE DEF evicted
<1>4. BadgeSound'
  <2>1. ASSUME NEW k \in Keys
        PROVE  /\ newest'[k] < next_id'
               /\ \A e \in Held' : e.key = k => e.id <= newest'[k]
               /\ \A e \in Held' : e.id = newest'[k] => e.key = k
    <3>1. CASE k = key
      <4>1. newest'[k] = next_id
        BY <1>2, <3>1
      <4>2. QED
        BY <1>1, <1>2, <1>3, <3>1, <4>1
    <3>2. CASE k # key
      <4>1. newest'[k] = newest[k]
        BY <1>2, <3>2
      <4>2. \A e \in Held : (e.key = k => e.id <= newest[k]) /\ (e.id = newest[k] => e.key = k)
        BY DEF BadgeInv, BadgeSound
      <4>3. QED
        BY <1>1, <1>2, <3>2, <4>1, <4>2
    <3>3. QED
      BY <3>1, <3>2
  <2>2. QED
    BY <2>1 DEF BadgeSound
<1>5. ASSUME NEW k \in Keys
      PROVE  count_index'[k] = IF newest'[k] \in IdsOf(Held)' THEN newest'[k] ELSE NoId
  <2>1. CASE k = key
    <3>1. newest'[k] = next_id /\ index[k] = next_id
      BY <1>2, <2>1
    <3>2. newest'[k] \in IdsOf(Held)'
      BY <1>1, <3>1 DEF IdsOf
    <3>3. ~ \E e \in evicted : e.key = k /\ e.id = index[k]
      BY <1>1, <1>3, <3>1
    <3>4. Forget(index, evicted)[k] = index[k]
      BY <3>3 DEF Forget
    <3>5. QED
      BY <1>2, <3>1, <3>2, <3>4
  <2>2. CASE k # key /\ newest[k] \in IdsOf(Held)
    <3>1. newest'[k] = newest[k] /\ index[k] = count_index[k]
      BY <1>2, <2>2
    <3>2. PICK e \in Held : e.id = newest[k]
      BY <2>2 DEF IdsOf
    <3>3. e.key = k /\ count_index[k] = e.id
      BY <2>2, <3>2 DEF BadgeInv, BadgeSound, BadgeIndexExact
    <3>4. index[k] = e.id
      BY <3>1, <3>3
    <3> HIDE DEF index
    <3>5. Forget(index, evicted)[k] = IF e \in evicted THEN NoId ELSE index[k]
      BY <1>1, <3>3, <3>4, ForgetHeld DEF BadgeInv
    <3>6. newest[k] \in IdsOf(Held)' <=> e \in Held'
      <4>1. \A d \in Held' : d.id = e.id => d = e
        BY <1>1, <1>3, HeldApart DEF BadgeInv
      <4>2. QED
        BY <3>2, <4>1 DEF IdsOf
    <3>7. e \in evicted <=> e \notin Held'
      BY <1>1
    <3>8. QED
      BY <1>2, <3>1, <3>2, <3>4, <3>5, <3>6, <3>7
  <2>3. CASE k # key /\ newest[k] \notin IdsOf(Held)
    <3>1. newest'[k] = newest[k] /\ index[k] = count_index[k]
      BY <1>2, <2>3
    <3>2. count_index[k] = NoId
      BY <2>3 DEF BadgeInv, BadgeIndexExact
    <3>3. index[k] = NoId
      BY <3>1, <3>2
    <3> HIDE DEF index
    <3>4. Forget(index, evicted)[k] = NoId
      BY <3>3, ForgetKeepsNone
    <3>5. \A e \in Held' : e.id # newest[k]
      BY <1>1, <1>2, <2>3 DEF IdsOf
    <3>6. newest'[k] \notin IdsOf(Held)'
      BY <3>1, <3>5 DEF IdsOf
    <3>7. QED
      BY <1>2, <3>4, <3>6
  <2>4. QED
    BY <2>1, <2>2, <2>3
<1>6. QED
  BY <1>4, <1>5 DEF BadgeIndexExact

\* The invariant of the badges is inductive.
LEMMA BadgesInductive ==
  /\ Init => BadgeInv
  /\ BadgeInv /\ [Next]_vars => BadgeInv'
<1>1. ASSUME Init
      PROVE  BadgeInv
  <2>1. PlaceInv
    BY <1>1, PlacesInductive
  <2>2. Held = {}
    BY <1>1 DEF Init, Held, Elements, LeasedEntries
  <2>3. BadgeSound
    BY <1>1, <2>2 DEF Init, BadgeSound, NoId
  <2>4. BadgeIndexExact
    BY <1>1, <2>2 DEF Init, BadgeIndexExact, IdsOf
  <2>5. QED
    BY <2>1, <2>3, <2>4 DEF BadgeInv
<1>2. ASSUME BadgeInv, [Next]_vars
      PROVE  BadgeInv'
  <2>1. PlaceInv'
    BY <1>2, PlacesInductive DEF BadgeInv
  <2>2. CASE \E key \in Keys \cup {NoKey} : Enqueue(key)
    BY <1>2, <2>1, <2>2, EnqueueKeepsBadges DEF BadgeInv
  <2>3. CASE \E max \in Batches : Take(max)
    BY <1>2, <2>1, <2>3, TakeKeepsBadges DEF BadgeInv
  <2>4. CASE \E ids \in SUBSET (0..next_id - 1) : Ack(ids)
    BY <1>2, <2>1, <2>4, AckKeepsBadges DEF BadgeInv
  <2>5. CASE Tick \/ UNCHANGED vars
    <3>1. UNCHANGED <<pending, leased, count_index, newest, next_id>>
      BY <2>5 DEF Tick, queueVars, history, vars
    <3>2. QED
      BY <1>2, <2>1, <3>1 DEF BadgeInv, BadgeSound, BadgeIndexExact, Held, Elements,
         LeasedEntries, IdsOf
  <2>6. QED
    BY <1>2, <2>2, <2>3, <2>4, <2>5 DEF Next
<1>3. QED
  BY <1>1, <1>2

LEMMA BadgesInvariant == Spec => []BadgeInv
BY BadgesInductive, PTL DEF Spec

(* The coalescing index names the newest badge of a key exactly as long as *)
(* the buffer holds it: no mapping dangles after an eviction, an expiry or *)
(* an acknowledgement, and none is lost (forget_count_key, is_live).       *)
THEOREM BadgeIndexIsExact == Spec => []BadgeIndexExact
<1>1. BadgeInv => BadgeIndexExact
  BY DEF BadgeInv
<1>2. QED
  BY <1>1, BadgesInvariant, PTL

-----------------------------------------------------------------------------
(***************************************************************************)
(* What polls hand out and what is let go of.                              *)
(***************************************************************************)
CurrentStep ==
  \A l \in leased' \ leased :
    /\ l.entry.key \in Keys => l.entry.id = newest[l.entry.key]
    /\ now - l.entry.enqueued < EntryTTL + Skew

SilentLossStep ==
  \A e \in Held \ Held' :
    \/ e.id \in settled'
    \/ Outlived(now, e)
    \/ Overtaken(e)
    \/ Displaced(e)

\* An age measured later is no smaller.
LEMMA OutlivedForGood ==
  ASSUME TypeOK, NEW t \in Stamps, NEW e \in Entry, Outlived(t, e)
  PROVE  Outlived(now, e)
BY StampType, LimitsAssumption DEF Outlived, Age, Entry, TypeOK

\* What passes the checks of take_at is current.
LEMMA FitIsCurrent ==
  ASSUME BadgeInv, NEW t \in Stamps, NEW e \in Entry, Fit(ReclaimedIndex(t), t, e)
  PROVE  /\ e.key \in Keys => e.id = newest[e.key]
         /\ now - e.enqueued < EntryTTL + Skew
<1>1. e.id \in Nat /\ e.enqueued \in Nat
  BY DEF Entry
<1>2. ASSUME e.key \in Keys
      PROVE  e.id = newest[e.key]
  <2>1. ReclaimedIndex(t)[e.key] = e.id
    BY <1>2 DEF Fit, IsLive
  <2>2. e.id # NoId
    BY <1>1 DEF NoId
  <2>3. count_index[e.key] = e.id
    BY <1>2, <2>1, <2>2 DEF ReclaimedIndex, Forget
  <2>4. QED
    BY <1>2, <2>2, <2>3 DEF BadgeInv, BadgeIndexExact
<1>3. now - e.enqueued < EntryTTL + Skew
  <2>1. ~Outlived(t, e)
    BY DEF Fit
  <2>2. t \in Nat /\ now \in Nat /\ now - t <= Skew /\ Skew \in Nat /\ EntryTTL \in Nat
    BY StampType, LimitsAssumption DEF Stamps, BadgeInv, PlaceInv, TypeOK
  <2>3. QED
    BY <1>1, <2>1, <2>2 DEF Outlived, Age
<1>4. QED
  BY <1>2, <1>3

\* What a poll hands out, and what it drops.
LEMMA TakeIsSound ==
  ASSUME BadgeInv, NEW max \in Batches, Take(max)
  PROVE  CurrentStep /\ SilentLossStep
<1>1. PICK t \in Stamps : \E q, f, n : LineUp(t, q, f) /\ Split(t, q, n)
  BY TakeSplits DEF BadgeInv
<1>2. PICK q, f, n : LineUp(t, q, f) /\ Split(t, q, n)
  BY <1>1
<1>3. TypeOK /\ Held \subseteq Entry
  BY HeldApart DEF BadgeInv, PlaceInv
<1>4. CurrentStep
  <2>1. ASSUME NEW l \in leased' \ leased
        PROVE  \E e \in Entry : l.entry = e /\ Fit(ReclaimedIndex(t), t, e)
    <3>1. PICK i \in Handed(t, q, n) : l = [deadline |-> t + Lease, entry |-> q[i]]
      BY <1>2 DEF Split
    <3>2. q[i] \in Entry
      <4>1. q \in Seq(Entry) /\ i \in 1..Len(q)
        BY <1>2, LenProperties DEF Handed, Batch, LineUp, Split
      <4>2. QED
        BY <4>1, ElementOfSeq
    <3>3. QED
      BY <3>1, <3>2 DEF Handed, Batch
  <2>2. QED
    BY <2>1, FitIsCurrent DEF CurrentStep
<1>5. ASSUME NEW e \in Held \ Held'
      PROVE  Outlived(now, e) \/ Overtaken(e)
  <2>1. CASE e \in AgedReturns(t) \cup AgedInLine(t, q, n)
    <3>1. Outlived(t, e)
      BY <2>1 DEF AgedReturns, AgedInLine
    <3>2. QED
      BY <1>3, <3>1, OutlivedForGood
  <2>2. CASE e.key \in Keys /\ e.id # newest[e.key]
    <3>1. newest' = newest
      BY TakeKeepsTypes DEF BadgeInv
    <3>2. e.id <= newest[e.key] /\ e.id \in Nat /\ newest[e.key] \in Int
      BY <1>3, <2>2 DEF BadgeInv, BadgeSound, Entry, TypeOK, NoId
    <3>3. QED
      BY <2>2, <3>1, <3>2 DEF Overtaken
  <2>3. QED
    BY <1>2, <2>1, <2>2, TakeLoses
<1>6. QED
  BY <1>4, <1>5 DEF SilentLossStep

\* An arrival displaces entries at the front of a full buffer only.
LEMMA EnqueueDisplaces ==
  ASSUME PlaceInv, NEW key \in Keys \cup {NoKey}, Enqueue(key)
  PROVE  SilentLossStep
<1>1. ASSUME NEW i \in 1..Evictions
      PROVE  Displaced(pending[i])
  <2>1. /\ Len(pending) \in Nat /\ DOMAIN pending = 1..Len(pending)
        /\ MaxEntries \in Nat /\ next_id \in Nat
    BY LenProperties, LimitsAssumption DEF PlaceInv, TypeOK
  <2>2. next_id' # next_id
    BY <2>1 DEF Enqueue
  <2>3. CASE MaxEntries = 0
    <3>1. i \in DOMAIN pending /\ Len(pending) >= MaxEntries /\ Len(pending) - i >= MaxEntries - 1
      BY <2>1, <2>3 DEF Evictions
    <3>2. QED
      BY <2>2, <3>1 DEF Displaced
  <2>4. CASE MaxEntries # 0
    <3>1. i \in DOMAIN pending /\ Len(pending) >= MaxEntries /\ Len(pending) - i >= MaxEntries - 1
      BY <2>1, <2>4 DEF Evictions
    <3>2. QED
      BY <2>2, <3>1 DEF Displaced
  <2>5. QED
    BY <2>3, <2>4
<1>2. \A e \in Held \ Held' : \E i \in 1..Evictions : e = pending[i]
  BY EnqueueDrops
<1>3. QED
  BY <1>1, <1>2 DEF SilentLossStep

\* An acknowledgement lets go of what it settles.
LEMMA AckSettles ==
  ASSUME NEW ids, Ack(ids)
  PROVE  SilentLossStep
<1> DEFINE acked == {l \in leased : l.entry.id \in ids}
<1>1. /\ leased' = leased \ acked
      /\ settled' = settled \cup {l.entry.id : l \in acked}
      /\ pending' = pending
  BY DEF Ack
<1>2. \A e \in Held \ Held' : \E l \in acked : e = l.entry
  BY <1>1 DEF Held, LeasedEntries, Elements
<1>3. QED
  BY <1>1, <1>2 DEF SilentLossStep

\* Both hold of every step.
LEMMA StepsAreSound ==
  ASSUME BadgeInv, [Next]_vars
  PROVE  [CurrentStep]_vars /\ [SilentLossStep]_vars
<1>1. ASSUME leased' = leased
      PROVE  CurrentStep
  BY <1>1 DEF CurrentStep
<1>2. CASE \E key \in Keys \cup {NoKey} : Enqueue(key)
  <2>1. leased' = leased
    BY <1>2 DEF Enqueue
  <2>2. QED
    BY <1>1, <1>2, <2>1, EnqueueDisplaces DEF BadgeInv
<1>3. CASE \E max \in Batches : Take(max)
  BY <1>3, TakeIsSound
<1>4. CASE \E ids \in SUBSET (0..next_id - 1) : Ack(ids)
  <2>1. CurrentStep
    BY <1>4 DEF Ack, CurrentStep
  <2>2. QED
    BY <1>4, <2>1, AckSettles
<1>5. CASE Tick
  <2>1. leased' = leased /\ pending' = pending
    BY <1>5 DEF Tick, queueVars
  <2>2. QED
    BY <1>1, <2>1 DEF SilentLossStep, Held, LeasedEntries, Elements
<1>6. QED
  BY <1>2, <1>3, <1>4, <1>5 DEF Next

(* A poll hands out the newest badge of a key or an event, never an        *)
(* overtaken count, and nothing older than its TTL (take_at, is_live).     *)
THEOREM PollsHandOutCurrent == Spec => HandsOutCurrent
BY StepsAreSound, BadgesInvariant, PTL DEF Spec, HandsOutCurrent, CurrentStep

(* Every entry that disappears was acknowledged, outlived its TTL, was     *)
(* overtaken by a newer badge, or was evicted from the front of a full     *)
(* buffer by an arrival (enqueue_at, take_at and ack).                     *)
THEOREM NothingIsLostSilently == Spec => NothingLostSilently
BY StepsAreSound, BadgesInvariant, PTL DEF Spec, NothingLostSilently, SilentLossStep

-----------------------------------------------------------------------------
(***************************************************************************)
(* The buffer implements EntryLifecycle.  Each operation makes the moves   *)
(* that the abstract operation of its name allows: an entry is in one      *)
(* place, which is what makes its status a function of the state.          *)
(***************************************************************************)

Ids == 0..MaxId - 1
Out(i) == \E l \in leased : l.entry.id = i
Waits(i) == \E p \in DOMAIN pending : pending[p].id = i

LEMMA StatusUnfolds ==
  ASSUME NEW i
  PROVE  StatusOf(i) = IF i >= next_id THEN "new"
                       ELSE IF i \in settled THEN "settled"
                       ELSE IF Out(i) THEN "out"
                       ELSE IF Waits(i) THEN "queued"
                       ELSE "dropped"
BY Zenon DEF StatusOf, Out, Waits

\* The status of an id, case by case.
Told ==
  \A i \in Nat :
    /\ StatusOf(i) \in {"new", "queued", "out", "settled", "dropped"}
    /\ StatusOf(i) = "new" <=> i >= next_id
    /\ StatusOf(i) = "settled" <=> i \in settled
    /\ StatusOf(i) = "out" <=> Out(i)
    /\ StatusOf(i) = "queued" <=> Waits(i)

LEMMA StatusTells == PlaceInv => Told
<1> SUFFICES ASSUME PlaceInv, NEW i \in Nat
             PROVE  /\ StatusOf(i) \in {"new", "queued", "out", "settled", "dropped"}
                    /\ StatusOf(i) = "new" <=> i >= next_id
                    /\ StatusOf(i) = "settled" <=> i \in settled
                    /\ StatusOf(i) = "out" <=> Out(i)
                    /\ StatusOf(i) = "queued" <=> Waits(i)
  BY DEF Told
<1>1. next_id \in Nat /\ (i \in settled => i < next_id)
  BY DEF PlaceInv, TypeOK, SettledOld
<1>2. Out(i) => i < next_id /\ i \notin settled /\ ~Waits(i)
  BY DEF PlaceInv, HeldOnce, OnlyOpenIds, Apart, Held, LeasedEntries, Out, Waits
<1>3. Waits(i) => i < next_id /\ i \notin settled
  BY DEF PlaceInv, HeldOnce, OnlyOpenIds, Held, Elements, Waits
<1>4. QED
  BY <1>1, <1>2, <1>3, StatusUnfolds

LEMMA StatusTellsAfter == PlaceInv' => Told'
BY StatusTells, PTL
-----------------------------------------------------------------------------
\* A poll neither settles nor revives: what it leaves held was held.
LEMMA TakeHolds ==
  ASSUME PlaceInv, NEW max \in Batches, Take(max)
  PROVE  /\ \A i \in Nat : Out(i)' \/ Waits(i)' => Out(i) \/ Waits(i)
         /\ UNCHANGED <<next_id, settled>>
<1>1. PICK t \in Stamps : \E q, f, n : LineUp(t, q, f) /\ Split(t, q, n)
  BY TakeSplits
<1>2. PICK q, f, n : LineUp(t, q, f) /\ Split(t, q, n)
  BY <1>1
<1>3. /\ n \in 0..Len(q) /\ Len(q) \in Nat /\ q \in Seq(Entry)
      /\ pending' = SubSeq(q, n + 1, Len(q))
      /\ Handed(t, q, n) \subseteq 1..n
  BY <1>2, LenProperties DEF LineUp, Split, Handed, Batch
<1>4. \A e \in Held : Out(e.id) \/ Waits(e.id)
  BY DEF Held, LeasedEntries, Elements, Out, Waits
<1>5. ASSUME NEW p \in 1..Len(q)
      PROVE  q[p] \in Held
  BY <1>2, LineHeld
<1>6. ASSUME NEW l \in leased'
      PROVE  l.entry \in Held
  BY <1>2, <1>3, <1>5 DEF Split, Held, LeasedEntries
<1>7. ASSUME NEW p \in DOMAIN pending'
      PROVE  pending'[p] \in Held
  <2>1. /\ Len(pending') = Len(q) - n /\ DOMAIN pending' = 1..Len(q) - n
        /\ \A j \in 1..Len(q) - n : pending'[j] = q[n + j]
    BY <1>3, Suffix, LenProperties
  <2>2. n + p \in 1..Len(q)
    BY <1>3, <2>1
  <2>3. QED
    BY <1>5, <2>1, <2>2
<1>8. UNCHANGED <<next_id, settled>>
  BY <1>2 DEF Split
<1>9. QED
  BY <1>4, <1>6, <1>7, <1>8 DEF Out, Waits

LEMMA TakeMoves ==
  ASSUME PlaceInv, PlaceInv', NEW max \in Batches, Take(max), NEW i \in Nat
  PROVE  <<StatusOf(i), StatusOf(i)'>> \in Lifecycle!Polls
<1>1. Told /\ Told'
  BY StatusTells, StatusTellsAfter
<1>2. /\ StatusOf(i)' = "new" <=> StatusOf(i) = "new"
      /\ StatusOf(i)' = "settled" <=> StatusOf(i) = "settled"
  BY <1>1, TakeHolds DEF Told
<1>3. StatusOf(i)' \in {"out", "queued"} => StatusOf(i) \in {"out", "queued"}
  BY <1>1, TakeHolds DEF Told
<1>4. QED
  BY <1>1, <1>2, <1>3 DEF Told, Lifecycle!Polls, Lifecycle!Stays, Lifecycle!Statuses

-----------------------------------------------------------------------------
\* An arrival puts one entry into the line and takes others from its front.
LEMMA EnqueueMoves ==
  ASSUME PlaceInv, PlaceInv', NEW key \in Keys \cup {NoKey}, Enqueue(key),
         NEW id, id = next_id
  PROVE  /\ id \in Ids
         /\ StatusOf(id) = "new" /\ StatusOf(id)' = "queued"
         /\ \A j \in Nat \ {id} : <<StatusOf(j), StatusOf(j)'>> \in Lifecycle!Evicts
<1>1. Told /\ Told'
  BY StatusTells, StatusTellsAfter
<1>2. /\ id \in Nat /\ id < MaxId /\ next_id = id /\ next_id' = id + 1
      /\ UNCHANGED <<leased, settled>>
  BY DEF Enqueue, PlaceInv, TypeOK
<1>3. PICK t \in Stamps, n \in 0..Len(pending), e \in Entry :
        /\ n = Evictions
        /\ e = [id |-> next_id, enqueued |-> t, key |-> key]
        /\ pending' \in Seq(Entry)
        /\ DOMAIN pending' = 1..(Len(pending) - n + 1)
        /\ Len(pending') = Len(pending) - n + 1
        /\ \A i \in 1..(Len(pending) - n) : pending'[i] = pending[n + i]
        /\ pending'[Len(pending) - n + 1] = e
  BY EnqueueShape DEF PlaceInv
<1>4. Len(pending) \in Nat /\ DOMAIN pending = 1..Len(pending)
  BY LenProperties DEF PlaceInv, TypeOK
<1>5. Waits(id)'
  <2>1. Len(pending) - n + 1 \in DOMAIN pending'
    BY <1>3, <1>4
  <2>2. pending'[Len(pending) - n + 1].id = id
    BY <1>2, <1>3
  <2>3. QED
    BY <1>2, <1>3, <1>4, <2>1, <2>2 DEF Waits
<1>6. ASSUME NEW j \in Nat \ {id}, Waits(j)'
      PROVE  Waits(j)
  <2>1. PICK p \in DOMAIN pending' : pending'[p].id = j
    BY <1>6 DEF Waits
  <2>2. p \in 1..(Len(pending) - n)
    BY <1>3, <1>4, <2>1
  <2>3. n + p \in DOMAIN pending /\ pending[n + p].id = j
    BY <1>3, <1>4, <2>1, <2>2
  <2>4. QED
    BY <2>3 DEF Waits
<1>7. StatusOf(id) = "new" /\ StatusOf(id)' = "queued"
  BY <1>1, <1>2, <1>5 DEF Told
<1>8. ASSUME NEW j \in Nat \ {id}
      PROVE  <<StatusOf(j), StatusOf(j)'>> \in Lifecycle!Evicts
  <2>1. StatusOf(j)' = "new" <=> StatusOf(j) = "new"
    BY <1>1, <1>2 DEF Told
  <2>2. StatusOf(j)' = "settled" <=> StatusOf(j) = "settled"
    BY <1>1, <1>2 DEF Told
  <2>3. StatusOf(j)' = "out" <=> StatusOf(j) = "out"
    BY <1>1, <1>2 DEF Told, Out
  <2>4. StatusOf(j)' = "queued" => StatusOf(j) = "queued"
    BY <1>1, <1>6 DEF Told
  <2>5. QED
    BY <1>1, <2>1, <2>2, <2>3, <2>4
       DEF Told, Lifecycle!Evicts, Lifecycle!Stays, Lifecycle!Statuses
<1>9. QED
  BY <1>2, <1>7, <1>8, BoundsAssumption DEF Ids

\* An acknowledgement settles what is out, and nothing else happens.
LEMMA AckMoves ==
  ASSUME PlaceInv, PlaceInv', NEW ids, Ack(ids), NEW i \in Nat
  PROVE  <<StatusOf(i), StatusOf(i)'>> \in Lifecycle!Settles
<1> DEFINE acked == {l \in leased : l.entry.id \in ids}
<1>1. Told /\ Told'
  BY StatusTells, StatusTellsAfter
<1>2. /\ leased' = leased \ acked
      /\ settled' = settled \cup {l.entry.id : l \in acked}
      /\ UNCHANGED <<next_id, pending>>
  BY DEF Ack
<1>3. Waits(i)' <=> Waits(i)
  BY <1>2 DEF Waits
<1>4. Out(i)' => Out(i)
  BY <1>2 DEF Out
<1>5. Out(i) => Out(i)' \/ i \in settled'
  BY <1>2 DEF Out
<1>6. i \in settled' => i \in settled \/ Out(i)
  BY <1>2 DEF Out
<1>7. i \in settled => i \in settled'
  BY <1>2
<1>8. QED
  BY <1>1, <1>2, <1>3, <1>4, <1>5, <1>6, <1>7
     DEF Told, Lifecycle!Settles, Lifecycle!Stays, Lifecycle!Statuses

-----------------------------------------------------------------------------
LEMMA InitRefines == Init => Lifecycle!Init
<1> SUFFICES ASSUME Init PROVE Lifecycle!Init
  OBVIOUS
<1>1. PlaceInv
  BY PlacesInductive
<1>2. \A i \in Ids : i \in Nat /\ StatusOf(i) = "new"
  BY <1>1, StatusTells, BoundsAssumption DEF Told, Init, Ids
<1>3. QED
  BY <1>2 DEF Lifecycle!Init, Ids

\* A step of the buffer is a step of the lifecycle, or changes no status.
LEMMA StepRefines ==
  PlaceInv /\ PlaceInv' /\ [Next]_vars => [Lifecycle!Next]_([i \in 0..MaxId - 1 |-> StatusOf(i)])
<1> SUFFICES ASSUME PlaceInv, PlaceInv', [Next]_vars
             PROVE  [Lifecycle!Next]_([i \in 0..MaxId - 1 |-> StatusOf(i)])
  OBVIOUS
<1>1. \A i \in Ids : i \in Nat
  BY BoundsAssumption DEF Ids
<1>2. CASE \E key \in Keys \cup {NoKey} : Enqueue(key)
  <2>1. PICK key \in Keys \cup {NoKey} : Enqueue(key)
    BY <1>2
  <2>2. Lifecycle!Accept
    <3>1. \A j \in Ids : j < next_id => StatusOf(j) # "new"
      BY <1>1, StatusTells DEF Told, PlaceInv, TypeOK
    <3>2. PICK id : id = next_id
      OBVIOUS
    <3>3. /\ id \in Ids
          /\ StatusOf(id) = "new" /\ StatusOf(id)' = "queued"
          /\ \A j \in Nat \ {id} : <<StatusOf(j), StatusOf(j)'>> \in Lifecycle!Evicts
      BY <2>1, <3>2, EnqueueMoves
    <3>4. QED
      BY <1>1, <3>1, <3>2, <3>3 DEF Lifecycle!Accept, Lifecycle!Move, Ids
  <2>3. QED
    BY <2>2 DEF Lifecycle!Next
<1>3. CASE \E max \in Batches : Take(max)
  <2>1. Lifecycle!HandOut
    BY <1>1, <1>3, TakeMoves DEF Lifecycle!HandOut, Lifecycle!Move, Ids
  <2>2. QED
    BY <2>1 DEF Lifecycle!Next
<1>4. CASE \E ids \in SUBSET (0..next_id - 1) : Ack(ids)
  <2>1. Lifecycle!Settle
    BY <1>1, <1>4, AckMoves DEF Lifecycle!Settle, Lifecycle!Move, Ids
  <2>2. QED
    BY <2>1 DEF Lifecycle!Next
<1>5. CASE Tick \/ UNCHANGED vars
  <2>1. UNCHANGED <<next_id, pending, leased, settled>>
    BY <1>5 DEF Tick, queueVars, history, vars
  <2>2. \A i \in Ids : StatusOf(i)' = StatusOf(i)
    BY <2>1 DEF StatusOf
  <2>3. QED
    BY <2>2 DEF Ids
<1>6. QED
  BY <1>2, <1>3, <1>4, <1>5 DEF Next

(* The buffer keeps the promise of the queue side about every entry: ids   *)
(* are given out in order, only a handed-out entry is settled, arrivals    *)
(* drop waiting entries only, and what has ended has ended (enqueue_at,    *)
(* take_at, ack).                                                          *)
THEOREM KeepsThePromise == Spec => LifecycleSpec
BY InitRefines, StepRefines, PlacesInvariant, PTL DEF Spec, LifecycleSpec, Lifecycle!Spec
=============================================================================
