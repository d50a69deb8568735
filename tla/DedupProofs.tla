---------------------------- MODULE DedupProofs ----------------------------
(***************************************************************************)
(* Proofs about DedupCache, for any keys, window and capacity, and any     *)
(* lateness of the stamps.  The invariant relates `order` to `seen`: the   *)
(* entries of a key lie at least a window apart, and the last of them      *)
(* speaks for the key.  So whatever a loop pops from the front, it cannot  *)
(* leave an entry of a key behind that it has made `seen` forget.          *)
(***************************************************************************)
EXTENDS DedupCache, FiniteSetTheorems, SequenceTheorems, TLAPS

\* Entries of the same key, and the one that speaks for it.
Spaced(q) ==
  \A i, j \in 1..Len(q) : i < j /\ q[i].key = q[j].key => q[i].at + TTL <= q[j].at
SpokenFor(s, q) ==
  \A k \in Keys : s[k] # Never => \E i \in 1..Len(q) : q[i] = [at |-> s[k], key |-> k]
NoneAhead(s, q) ==
  \A i \in 1..Len(q) : s[q[i].key] # Never /\ q[i].at <= s[q[i].key]
\* Insertion order is the order of the stamps but for their lateness.
NearlySorted(q) ==
  /\ \A i \in 1..Len(q) : q[i].at <= now
  /\ \A i, j \in 1..Len(q) : i < j => q[i].at - Skew <= q[j].at
AtMostTwo(q) ==
  Skew <= TTL =>
    \A h, i, j \in 1..Len(q) : ~(h < i /\ i < j /\ q[h].key = q[i].key /\ q[i].key = q[j].key)

Good(s, q) ==
  /\ s \in [Keys -> Nat \cup {Never}]
  /\ q \in Seq(Recording)
  /\ Spaced(q)
  /\ SpokenFor(s, q)
  /\ NoneAhead(s, q)
  /\ NearlySorted(q)
  /\ AtMostTwo(q)

Inv ==
  /\ now \in Nat
  /\ Good(seen, order)
  /\ Cardinality(Recorded(seen)) <= MaxEntries
  /\ TTL = 0 => order = <<>>

-----------------------------------------------------------------------------
(***************************************************************************)
(* What the loops do to such a pair.                                       *)
(***************************************************************************)
\* Three windows of a key do not fit into the lateness of one stamp.
LEMMA NoThird ==
  ASSUME NEW first \in Nat, NEW a \in Nat, NEW b \in Nat, NEW t \in Nat,
         a + TTL <= b, b + TTL <= t, t < first + TTL, first - Skew <= a, Skew <= TTL
  PROVE  FALSE
<1> TTL \in Nat /\ Skew \in Nat
  BY LimitsAssumption
<1>1. b < first
  OBVIOUS
<1>2. first <= a + TTL
  OBVIOUS
<1> QED
  BY <1>1, <1>2

LEMMA EntryType ==
  ASSUME NEW q \in Seq(Recording), NEW i \in 1..Len(q)
  PROVE  q[i] \in Recording /\ q[i].at \in Nat /\ q[i].key \in Keys
<1>1. q[i] \in Recording
  BY ElementOfSeq
<1> QED
  BY <1>1 DEF Recording

LEMMA RestOf ==
  ASSUME NEW q \in Seq(Recording), NEW n \in 0..Len(q)
  PROVE  /\ SubSeq(q, n + 1, Len(q)) \in Seq(Recording)
         /\ Len(SubSeq(q, n + 1, Len(q))) = Len(q) - n
         /\ \A i \in 1..Len(q) - n : SubSeq(q, n + 1, Len(q))[i] = q[n + i]
<1>1. Len(q) \in Nat
  BY LenProperties
<1>2. \A i \in n + 1..Len(q) : q[i] \in Recording
  BY <1>1, ElementOfSeq
<1>3. /\ SubSeq(q, n + 1, Len(q)) \in Seq(Recording)
      /\ Len(SubSeq(q, n + 1, Len(q))) = IF n + 1 <= Len(q) THEN Len(q) - (n + 1) + 1 ELSE 0
      /\ \A i \in 1..Len(q) - (n + 1) + 1 : SubSeq(q, n + 1, Len(q))[i] = q[n + 1 + i - 1]
  BY <1>1, <1>2, SubSeqProperties
<1>4. Len(q) - (n + 1) + 1 = Len(q) - n
  BY <1>1
<1>5. Len(SubSeq(q, n + 1, Len(q))) = Len(q) - n
  BY <1>1, <1>3
<1>6. ASSUME NEW i \in 1..Len(q) - n
      PROVE  SubSeq(q, n + 1, Len(q))[i] = q[n + i]
  <2>1. SubSeq(q, n + 1, Len(q))[i] = q[n + 1 + i - 1]
    BY <1>3, <1>4
  <2>2. n + 1 + i - 1 = n + i
    BY <1>1
  <2> QED
    BY <2>1, <2>2
<1> QED
  BY <1>3, <1>5, <1>6

\* A key keeps its window unless an entry that speaks for it is popped.
LEMMA PoppedType ==
  ASSUME NEW s \in [Keys -> Nat \cup {Never}], NEW q, NEW n
  PROVE  /\ Popped(s, q, n) \in [Keys -> Nat \cup {Never}]
         /\ \A k \in Keys :
              /\ Popped(s, q, n)[k] \in {s[k], Never}
              /\ Popped(s, q, n)[k] # s[k] =>
                   \E i \in 1..n : q[i] = [at |-> s[k], key |-> k]
BY DEF Popped

LEMMA PopGood ==
  ASSUME TTL # 0, now \in Nat, NEW s, NEW q, Good(s, q), NEW n \in 0..Len(q)
  PROVE  Good(Popped(s, q, n), SubSeq(q, n + 1, Len(q)))
<1> DEFINE r == SubSeq(q, n + 1, Len(q))
           p == Popped(s, q, n)
<1>1. Len(q) \in Nat /\ Len(r) = Len(q) - n /\ r \in Seq(Recording)
  BY RestOf, LenProperties DEF Good
<1>2. \A i \in 1..Len(r) : r[i] = q[n + i] /\ n + i \in 1..Len(q)
  BY <1>1, RestOf DEF Good
<1>3. p \in [Keys -> Nat \cup {Never}]
  BY PoppedType DEF Good
<1> HIDE DEF r, p
<1>4. Spaced(r)
  <2> SUFFICES ASSUME NEW i \in 1..Len(r), NEW j \in 1..Len(r), i < j, r[i].key = r[j].key
               PROVE  r[i].at + TTL <= r[j].at
    BY DEF Spaced
  <2>1. n + i < n + j
    BY <1>1
  <2> QED
    BY <1>2, <2>1 DEF Good, Spaced
<1>5. NearlySorted(r)
  <2>1. \A i \in 1..Len(r) : r[i].at <= now
    BY <1>2 DEF Good, NearlySorted
  <2>2. ASSUME NEW i \in 1..Len(r), NEW j \in 1..Len(r), i < j
        PROVE  r[i].at - Skew <= r[j].at
    <3>1. n + i < n + j
      BY <1>1, <2>2
    <3> QED
      BY <1>2, <3>1 DEF Good, NearlySorted
  <2> QED
    BY <2>1, <2>2 DEF NearlySorted
<1>6. AtMostTwo(r)
  <2> SUFFICES ASSUME Skew <= TTL, NEW h \in 1..Len(r), NEW i \in 1..Len(r), NEW j \in 1..Len(r),
                      h < i, i < j, r[h].key = r[i].key, r[i].key = r[j].key
               PROVE  FALSE
    BY DEF AtMostTwo
  <2>1. n + h < n + i /\ n + i < n + j
    BY <1>1
  <2>2. {n + h, n + i, n + j} \subseteq 1..Len(q)
    BY <1>2
  <2>3. q[n + h].key = q[n + i].key /\ q[n + i].key = q[n + j].key
    BY <1>2
  <2>4. AtMostTwo(q)
    BY DEF Good
  <2> QED
    BY <2>1, <2>2, <2>3, <2>4 DEF AtMostTwo
<1>7. SpokenFor(p, r)
  <2> SUFFICES ASSUME NEW k \in Keys, p[k] # Never
               PROVE  \E i \in 1..Len(r) : r[i] = [at |-> p[k], key |-> k]
    BY DEF SpokenFor
  <2>1. p[k] = s[k] /\ ~\E i \in 1..n : q[i] = [at |-> s[k], key |-> k]
    BY DEF p, Popped
  <2>2. PICK i \in 1..Len(q) : q[i] = [at |-> s[k], key |-> k]
    BY <2>1 DEF Good, SpokenFor
  <2>3. i - n \in 1..Len(r) /\ n + (i - n) = i
    BY <1>1, <2>1, <2>2
  <2> QED
    BY <1>2, <2>1, <2>2, <2>3
<1>8. NoneAhead(p, r)
  <2> SUFFICES ASSUME NEW i \in 1..Len(r)
               PROVE  p[r[i].key] # Never /\ r[i].at <= p[r[i].key]
    BY DEF NoneAhead
  <2> DEFINE k == r[i].key
  <2>1. r[i] = q[n + i] /\ n + i \in 1..Len(q) /\ k \in Keys /\ r[i].at \in Nat
    BY <1>1, <1>2, EntryType
  <2>2. s[k] # Never /\ r[i].at <= s[k]
    BY <2>1 DEF Good, NoneAhead
  <2>3. ASSUME NEW j \in 1..n, q[j] = [at |-> s[k], key |-> k]
        PROVE  FALSE
    <3>1. j \in 1..Len(q) /\ j < n + i /\ q[j].key = k /\ q[j].at = s[k]
      BY <1>1, <2>3
    <3>2. s[k] + TTL <= r[i].at
      BY <2>1, <3>1 DEF Good, Spaced
    <3>3. s[k] \in Nat
      BY <2>1, <2>2 DEF Good
    <3> QED
      BY <2>1, <2>2, <3>2, <3>3, LimitsAssumption
  <2>4. p[k] = s[k]
    BY <2>1, <2>3 DEF p, Popped, Good
  <2> QED
    BY <2>2, <2>4
<1> QED
  BY <1>1, <1>3, <1>4, <1>5, <1>6, <1>7, <1>8 DEF Good, r, p

\* A window that is opened at the end of the order.
LEMMA AppendGood ==
  ASSUME TTL # 0, now \in Nat, NEW s, NEW q, Good(s, q), NEW k \in Keys, NEW t \in Stamps,
         s[k] = Never \/ ~Within(t, s[k]),
         Len(q) > 0 => Within(t, q[1].at)
  PROVE  Good([s EXCEPT ![k] = t], Append(q, [at |-> t, key |-> k]))
<1> DEFINE e == [at |-> t, key |-> k]
           r == Append(q, e)
           u == [s EXCEPT ![k] = t]
<1>1. t \in Nat /\ t <= now /\ now - t <= Skew /\ TTL \in Nat \ {0} /\ Skew \in Nat
  BY LimitsAssumption DEF Stamps
<1>2. e \in Recording /\ e.at = t /\ e.key = k
  BY <1>1 DEF Recording
<1>3. /\ r \in Seq(Recording) /\ Len(q) \in Nat /\ Len(r) = Len(q) + 1
      /\ r[Len(q) + 1] = e
      /\ \A i \in 1..Len(q) : r[i] = q[i]
  BY <1>2 DEF Good
<1>4. u \in [Keys -> Nat \cup {Never}] /\ u[k] = t /\ \A l \in Keys \ {k} : u[l] = s[l]
  BY <1>1 DEF Good
<1>5. \A i \in 1..Len(q) : q[i].at \in Nat /\ q[i].key \in Keys
  BY EntryType DEF Good
<1> HIDE DEF e, r, u
<1>6. ASSUME NEW i \in 1..Len(q), q[i].key = k
      PROVE  s[k] \in Nat /\ q[i].at <= s[k] /\ s[k] + TTL <= t
  <2>1. s[k] # Never /\ q[i].at <= s[k]
    BY <1>6 DEF Good, NoneAhead
  <2>2. s[k] \in Nat /\ ~Within(t, s[k])
    BY <2>1 DEF Good
  <2> QED
    BY <1>1, <2>1, <2>2 DEF Within
<1>7. Spaced(r)
  <2> SUFFICES ASSUME NEW i \in 1..Len(r), NEW j \in 1..Len(r), i < j, r[i].key = r[j].key
               PROVE  r[i].at + TTL <= r[j].at
    BY DEF Spaced
  <2>1. CASE j \in 1..Len(q)
    <3>1. i \in 1..Len(q)
      BY <1>3, <2>1
    <3> QED
      BY <1>3, <2>1, <3>1 DEF Good, Spaced
  <2>2. CASE j = Len(q) + 1
    <3>1. i \in 1..Len(q) /\ r[i] = q[i] /\ q[i].key = k
      BY <1>2, <1>3, <2>2
    <3>2. q[i].at <= s[k] /\ s[k] + TTL <= t /\ s[k] \in Nat /\ q[i].at \in Nat
      BY <1>5, <1>6, <3>1
    <3> QED
      BY <1>1, <1>2, <1>3, <2>2, <3>1, <3>2
  <2> QED
    BY <1>3, <2>1, <2>2
<1>8. NearlySorted(r)
  <2>1. \A i \in 1..Len(q) : q[i].at <= now
    BY DEF Good, NearlySorted
  <2>2. \A i \in 1..Len(r) : r[i].at <= now
    BY <1>1, <1>2, <1>3, <2>1
  <2>3. ASSUME NEW i \in 1..Len(r), NEW j \in 1..Len(r), i < j
        PROVE  r[i].at - Skew <= r[j].at
    <3>1. i \in 1..Len(q)
      BY <1>3, <2>3
    <3>2. CASE j \in 1..Len(q)
      BY <1>3, <2>3, <3>1, <3>2 DEF Good, NearlySorted
    <3>3. CASE j = Len(q) + 1
      BY <1>1, <1>2, <1>3, <1>5, <2>1, <3>1, <3>3
    <3> QED
      BY <1>3, <3>2, <3>3
  <2> QED
    BY <2>2, <2>3 DEF NearlySorted
<1>9. AtMostTwo(r)
  <2> SUFFICES ASSUME Skew <= TTL, NEW h \in 1..Len(r), NEW i \in 1..Len(r), NEW j \in 1..Len(r),
                      h < i, i < j, r[h].key = r[i].key, r[i].key = r[j].key
               PROVE  FALSE
    BY DEF AtMostTwo
  <2>1. h \in 1..Len(q) /\ i \in 1..Len(q) /\ r[h] = q[h] /\ r[i] = q[i]
    BY <1>3
  <2>2. CASE j \in 1..Len(q)
    <3>1. AtMostTwo(q) /\ r[j] = q[j]
      BY <1>3, <2>2 DEF Good
    <3> QED
      BY <2>1, <2>2, <3>1 DEF AtMostTwo
  <2>3. CASE j = Len(q) + 1
    <3>1. q[h].key = k /\ q[i].key = k
      BY <1>2, <1>3, <2>1, <2>3
    <3>2. q[h].at + TTL <= q[i].at /\ q[i].at + TTL <= t
      <4>1. q[h].at + TTL <= q[i].at
        BY <2>1, <3>1 DEF Good, Spaced
      <4>2. q[i].at <= s[k] /\ s[k] + TTL <= t /\ s[k] \in Nat /\ q[i].at \in Nat
        BY <1>5, <1>6, <2>1, <3>1
      <4> QED
        BY <1>1, <4>1, <4>2, SMTT(30)
    <3>3. q[1].at - Skew <= q[h].at /\ q[1].at \in Nat /\ q[h].at \in Nat
      <4>1. 1 \in 1..Len(q) /\ q[1].at \in Nat /\ q[h].at \in Nat
        BY <1>3, <1>5, <2>1
      <4>2. CASE h = 1
        BY <1>1, <4>1, <4>2
      <4>3. CASE 1 < h
        BY <2>1, <4>1, <4>3 DEF Good, NearlySorted
      <4> QED
        BY <2>1, <4>2, <4>3
    <3>4. t < q[1].at + TTL
      <4>1. Within(t, q[1].at)
        BY <1>3, <2>1
      <4> QED
        BY <1>1, <3>3, <4>1, SMTT(30) DEF Within
    <3>5. q[i].at \in Nat
      BY <1>5, <2>1
    <3> QED
      BY <1>1, <3>2, <3>3, <3>4, <3>5, NoThird
  <2> QED
    BY <1>3, <2>2, <2>3
<1>10. SpokenFor(u, r)
  <2> SUFFICES ASSUME NEW l \in Keys, u[l] # Never
               PROVE  \E i \in 1..Len(r) : r[i] = [at |-> u[l], key |-> l]
    BY DEF SpokenFor
  <2>1. CASE l = k
    BY <1>3, <1>4, <2>1 DEF e
  <2>2. CASE l # k
    <3>1. PICK i \in 1..Len(q) : q[i] = [at |-> s[l], key |-> l]
      BY <1>4, <2>2 DEF Good, SpokenFor
    <3> QED
      BY <1>3, <1>4, <2>2, <3>1
  <2> QED
    BY <2>1, <2>2
<1>11. NoneAhead(u, r)
  <2> SUFFICES ASSUME NEW i \in 1..Len(r)
               PROVE  u[r[i].key] # Never /\ r[i].at <= u[r[i].key]
    BY DEF NoneAhead
  <2>1. CASE i = Len(q) + 1
    BY <1>1, <1>2, <1>3, <1>4, <2>1 DEF Never
  <2>2. CASE i \in 1..Len(q) /\ q[i].key = k
    <3>1. q[i].at <= s[k] /\ s[k] + TTL <= t /\ s[k] \in Nat /\ q[i].at \in Nat
      BY <1>5, <1>6, <2>2
    <3> QED
      BY <1>1, <1>3, <1>4, <2>2, <3>1 DEF Never
  <2>3. CASE i \in 1..Len(q) /\ q[i].key # k
    BY <1>3, <1>4, <1>5, <2>3 DEF Good, NoneAhead
  <2> QED
    BY <1>3, <2>1, <2>2, <2>3
<1> QED
  BY <1>3, <1>4, <1>7, <1>8, <1>9, <1>10, <1>11 DEF Good, e, r, u

\* The recorded keys are finite in number, as each has its entry.
LEMMA RecordedFinite ==
  ASSUME NEW s, NEW q, Good(s, q)
  PROVE  /\ IsFiniteSet(Recorded(s))
         /\ Cardinality(Recorded(s)) \in Nat
<1> DEFINE T == {l \in Keys : \E i \in 1..Len(q) : q[i].key = l}
           f == [i \in 1..Len(q) |-> q[i].key]
<1>1. Len(q) \in Nat /\ \A i \in 1..Len(q) : q[i].key \in Keys
  BY LenProperties, EntryType DEF Good
<1>2. f \in Surjection(1..Len(q), T)
  BY <1>1 DEF Surjection
<1>3. IsFiniteSet(1..Len(q))
  BY <1>1, FS_Interval
<1>4. IsFiniteSet(T)
  BY <1>2, <1>3, FS_Surjection
<1>5. Recorded(s) \subseteq T
  <2> SUFFICES ASSUME NEW l \in Recorded(s) PROVE l \in T
    OBVIOUS
  <2>1. l \in Keys /\ s[l] # Never
    BY DEF Recorded, Good
  <2>2. PICK i \in 1..Len(q) : q[i] = [at |-> s[l], key |-> l]
    BY <2>1 DEF Good, SpokenFor
  <2> QED
    BY <2>1, <2>2
<1> QED
  BY <1>4, <1>5, FS_Subset, FS_CardinalityType

LEMMA PoppedFewer ==
  ASSUME NEW s, NEW q, Good(s, q), NEW n
  PROVE  /\ Recorded(Popped(s, q, n)) \subseteq Recorded(s)
         /\ Cardinality(Recorded(Popped(s, q, n))) <= Cardinality(Recorded(s))
<1>1. Recorded(Popped(s, q, n)) \subseteq Recorded(s)
  BY DEF Popped, Recorded, Good
<1> QED
  BY <1>1, RecordedFinite, FS_Subset

\* The eviction loop ends with the capacity kept.
LEMMA CapsKeeps ==
  ASSUME TTL # 0, now \in Nat, NEW s, NEW q, Good(s, q), NEW m \in 0..Len(q), Caps(s, q, m)
  PROVE  Cardinality(Recorded(Popped(s, q, m))) <= MaxEntries
<1> DEFINE p == Popped(s, q, m)
           r == SubSeq(q, m + 1, Len(q))
<1>1. Good(p, r)
  BY PopGood
<1>2. Cardinality(Recorded(p)) \in Nat
  BY <1>1, RecordedFinite
<1>3. ASSUME Cardinality(Recorded(p)) > MaxEntries PROVE FALSE
  <2>1. m = Len(q)
    BY <1>3 DEF Caps
  <2>2. Len(r) = 0
    BY <2>1, RestOf, LenProperties DEF Good
  <2> HIDE DEF p, r
  <2>3. \A l \in Keys : p[l] = Never
    BY <1>1, <2>2 DEF Good, SpokenFor
  <2>4. Recorded(p) = {}
    BY <1>1, <2>3 DEF Recorded, Good
  <2> QED
    BY <1>3, <2>4, FS_EmptySet, LimitsAssumption
<1> QED
  BY <1>2, <1>3, LimitsAssumption

-----------------------------------------------------------------------------
LEMMA InitInv == Init => Inv
<1> SUFFICES ASSUME Init PROVE Inv
  OBVIOUS
<1>1. Len(order) = 0 /\ order \in Seq(Recording) /\ 1..0 = {}
  BY EmptySeq DEF Init
<1>2. seen \in [Keys -> Nat \cup {Never}] /\ \A k \in Keys : seen[k] = Never
  BY DEF Init
<1>3. Good(seen, order)
  BY <1>1, <1>2 DEF Good, Spaced, SpokenFor, NoneAhead, NearlySorted, AtMostTwo
<1>4. Recorded(seen) = {}
  BY <1>2 DEF Recorded
<1> QED
  BY <1>3, <1>4, FS_EmptySet, LimitsAssumption DEF Init, Inv

\* The parts of a recording, for the proofs of the invariant and of the window.
LEMMA RecordParts ==
  ASSUME Inv, NEW k \in Keys, Record(k)
  PROVE  \E t \in Stamps, n \in 0..Len(order) :
           LET alive == Popped(seen, order, n)
               rest  == SubSeq(order, n + 1, Len(order))
               s     == [alive EXCEPT ![k] = t]
               q     == Append(rest, [at |-> t, key |-> k])
           IN  /\ TTL # 0 /\ Prunes(t, n) /\ now' = now
               /\ Good(alive, rest)
               /\ \/ /\ alive[k] # Never /\ Within(t, alive[k])
                     /\ seen' = alive /\ order' = rest
                  \/ /\ alive[k] = Never \/ ~Within(t, alive[k])
                     /\ Good(s, q)
                     /\ \E m \in 0..Len(q) :
                          /\ Caps(s, q, m)
                          /\ seen' = Popped(s, q, m)
                          /\ order' = SubSeq(q, m + 1, Len(q))
<1>1. PICK t \in Stamps, n \in 0..Len(order) :
        LET alive == Popped(seen, order, n)
            rest  == SubSeq(order, n + 1, Len(order))
            s     == [alive EXCEPT ![k] = t]
            q     == Append(rest, [at |-> t, key |-> k])
            open  == alive[k] # Never /\ Within(t, alive[k])
        IN  /\ TTL # 0
            /\ Prunes(t, n)
            /\ \/ /\ open
                  /\ seen' = alive
                  /\ order' = rest
               \/ /\ ~open
                  /\ \E m \in 0..Len(q) :
                       /\ Caps(s, q, m)
                       /\ seen' = Popped(s, q, m)
                       /\ order' = SubSeq(q, m + 1, Len(q))
            /\ UNCHANGED now
  BY DEF Record
<1> DEFINE alive == Popped(seen, order, n)
           rest  == SubSeq(order, n + 1, Len(order))
           s     == [alive EXCEPT ![k] = t]
           q     == Append(rest, [at |-> t, key |-> k])
<1>2. Good(alive, rest)
  BY <1>1, PopGood DEF Inv
<1>3. Len(rest) > 0 => Within(t, rest[1].at)
  <2> SUFFICES ASSUME Len(rest) > 0 PROVE Within(t, rest[1].at)
    OBVIOUS
  <2>1. Len(order) \in Nat /\ Len(rest) = Len(order) - n
    BY RestOf, LenProperties DEF Inv, Good
  <2>2. n < Len(order) /\ 1 \in 1..Len(order) - n
    BY <2>1
  <2>3. rest[1] = order[n + 1]
    BY <2>2, RestOf DEF Inv, Good
  <2> QED
    BY <1>1, <2>2, <2>3 DEF Prunes
<1>4. ASSUME alive[k] = Never \/ ~Within(t, alive[k])
      PROVE  Good(s, q)
  <2> HIDE DEF alive, rest
  <2> QED
    BY <1>1, <1>2, <1>3, <1>4, AppendGood DEF Inv
<1> QED
  BY <1>1, <1>2, <1>4

LEMMA RecordInv ==
  ASSUME Inv, NEW k \in Keys, Record(k)
  PROVE  Inv'
<1>1. PICK t \in Stamps, n \in 0..Len(order) :
           LET alive == Popped(seen, order, n)
               rest  == SubSeq(order, n + 1, Len(order))
               s     == [alive EXCEPT ![k] = t]
               q     == Append(rest, [at |-> t, key |-> k])
           IN  /\ TTL # 0 /\ Prunes(t, n) /\ now' = now
               /\ Good(alive, rest)
               /\ \/ /\ alive[k] # Never /\ Within(t, alive[k])
                     /\ seen' = alive /\ order' = rest
                  \/ /\ alive[k] = Never \/ ~Within(t, alive[k])
                     /\ Good(s, q)
                     /\ \E m \in 0..Len(q) :
                          /\ Caps(s, q, m)
                          /\ seen' = Popped(s, q, m)
                          /\ order' = SubSeq(q, m + 1, Len(q))
  BY RecordParts
<1> DEFINE alive == Popped(seen, order, n)
           rest  == SubSeq(order, n + 1, Len(order))
           s     == [alive EXCEPT ![k] = t]
           q     == Append(rest, [at |-> t, key |-> k])
<1>2. CASE seen' = alive /\ order' = rest
  <2>1. Good(seen', order')
    BY <1>1, <1>2
  <2>2. Cardinality(Recorded(seen')) <= Cardinality(Recorded(seen))
    BY <1>2, PoppedFewer DEF Inv
  <2>3. Cardinality(Recorded(seen')) \in Nat /\ Cardinality(Recorded(seen)) \in Nat
    BY <2>1, RecordedFinite DEF Inv
  <2>4. Good(seen, order)'
    BY <1>1, <2>1 DEF Good, NearlySorted
  <2>5. Cardinality(Recorded(seen))' <= MaxEntries
    BY <2>2, <2>3, LimitsAssumption DEF Inv, Recorded
  <2> QED
    BY <1>1, <2>4, <2>5 DEF Inv
<1>3. ASSUME Good(s, q), NEW m \in 0..Len(q), Caps(s, q, m),
             seen' = Popped(s, q, m), order' = SubSeq(q, m + 1, Len(q))
      PROVE  Inv'
  <2>1. Good(seen', order') /\ Cardinality(Recorded(seen')) <= MaxEntries
    <3> HIDE DEF s, q
    <3> QED
      BY <1>1, <1>3, PopGood, CapsKeeps DEF Inv
  <2>2. Good(seen, order)'
    BY <1>1, <2>1 DEF Good, NearlySorted
  <2> QED
    BY <1>1, <2>1, <2>2 DEF Inv, Recorded
<1> QED
  BY <1>1, <1>2, <1>3

LEMMA StepInv == Inv /\ [Next]_vars => Inv'
<1> SUFFICES ASSUME Inv, [Next]_vars PROVE Inv'
  OBVIOUS
<1>1. ASSUME NEW k \in Keys, Record(k) PROVE Inv'
  BY <1>1, RecordInv
<1>2. ASSUME UNCHANGED <<seen, order>>, now' \in Nat, now <= now' PROVE Inv'
  <2>1. NearlySorted(order)'
    <3>1. \A i \in 1..Len(order) : order[i].at <= now /\ order[i].at \in Nat
      BY EntryType DEF Inv, Good, NearlySorted
    <3>2. \A i \in 1..Len(order) : order[i].at <= now'
      BY <1>2, <3>1 DEF Inv
    <3> QED
      BY <1>2, <3>2 DEF Inv, Good, NearlySorted
  <2> QED
    BY <1>2, <2>1 DEF Inv, Good, Spaced, SpokenFor, NoneAhead, AtMostTwo, Recorded
<1>3. CASE Tick
  BY <1>2, <1>3 DEF Tick, Inv
<1>4. CASE UNCHANGED vars
  BY <1>2, <1>4 DEF vars, Inv
<1> QED
  BY <1>1, <1>3, <1>4 DEF Next

THEOREM Invariance == Spec => []Inv
<1>1. Init => Inv
  BY InitInv
<1>2. Inv /\ [Next]_vars => Inv'
  BY StepInv
<1> QED
  BY <1>1, <1>2, PTL DEF Spec

-----------------------------------------------------------------------------
(* Type correctness: stamps and keys are what they should be.              *)
THEOREM TypeCorrect == Spec => []TypeOK
<1>1. Inv => TypeOK
  BY DEF Inv, Good, TypeOK
<1> QED
  BY <1>1, Invariance, PTL

(* Every recorded key has exactly one entry that speaks for it             *)
(* (record_at).                                                            *)
THEOREM EachSpokenForOnce == Spec => []SpokenForOnce
<1>1. Inv => SpokenForOnce
  <2> SUFFICES ASSUME Inv, NEW k \in Recorded(seen)
               PROVE  Cardinality({i \in DOMAIN order : order[i] = [at |-> seen[k], key |-> k]}) = 1
    BY DEF SpokenForOnce
  <2>1. k \in Keys /\ seen[k] # Never /\ DOMAIN order = 1..Len(order) /\ Len(order) \in Nat
    BY LenProperties DEF Recorded, Inv, Good
  <2>2. PICK i \in 1..Len(order) : order[i] = [at |-> seen[k], key |-> k]
    BY <2>1 DEF Inv, Good, SpokenFor
  <2>3. TTL \in Nat \ {0}
    BY <2>1, <2>2, LimitsAssumption DEF Inv
  <2>4. ASSUME NEW j \in 1..Len(order), order[j] = order[i], j # i
        PROVE  FALSE
    <3>1. order[i].at \in Nat
      BY EntryType DEF Inv, Good
    <3>2. order[i].at + TTL <= order[i].at
      BY <2>1, <2>4 DEF Inv, Good, Spaced
    <3> QED
      BY <2>3, <3>1, <3>2
  <2>5. {j \in DOMAIN order : order[j] = [at |-> seen[k], key |-> k]} = {i}
    BY <2>1, <2>2, <2>4
  <2> QED
    BY <2>5, FS_Singleton
<1> QED
  BY <1>1, Invariance, PTL

(* The cache holds at most max_entries keys, and at most two entries of a  *)
(* key as long as no operation waits for the mutex longer than a window    *)
(* lasts (the two loops of record_at).                                     *)
THEOREM StaysBounded ==
  ASSUME Skew <= TTL
  PROVE  Spec => []Bounded
<1>1. Inv => Bounded
  <2> SUFFICES ASSUME Inv, NEW k \in Keys
               PROVE  Cardinality({i \in DOMAIN order : order[i].key = k}) <= 2
    BY DEF Bounded, Inv
  <2> DEFINE S == {i \in DOMAIN order : order[i].key = k}
  <2>1. DOMAIN order = 1..Len(order) /\ Len(order) \in Nat
    BY LenProperties DEF Inv, Good
  <2>2. AtMostTwo(order)
    BY DEF Inv, Good
  <2>3. CASE S = {}
    BY <2>3, FS_EmptySet
  <2>4. ASSUME NEW a \in S PROVE Cardinality(S) <= 2
    <3>1. IsFiniteSet({a}) /\ Cardinality({a}) = 1
      BY FS_Singleton
    <3>2. CASE S = {a}
      BY <3>1, <3>2
    <3>3. ASSUME NEW b \in S, b # a PROVE Cardinality(S) <= 2
      <4>1. ASSUME NEW c \in S, c # a, c # b PROVE FALSE
        <5>1. a \in 1..Len(order) /\ b \in 1..Len(order) /\ c \in 1..Len(order)
          BY <2>1
        <5>2. order[a].key = k /\ order[b].key = k /\ order[c].key = k
          OBVIOUS
        <5>3. a < b \/ b < a
          BY <3>3, <5>1
        <5>4. a < c \/ c < a
          BY <4>1, <5>1
        <5>5. b < c \/ c < b
          BY <4>1, <5>1
        <5> HIDE DEF S
        <5> QED
          BY <2>2, <5>1, <5>2, <5>3, <5>4, <5>5 DEF AtMostTwo
      <4>2. S = {a} \cup {b}
        BY <3>3, <4>1
      <4>3. Cardinality({a} \cup {b}) = 2
        <5>1. b \notin {a}
          BY <3>3
        <5>2. Cardinality({a} \cup {b}) = Cardinality({a}) + 1
          BY <3>1, <5>1, FS_AddElement
        <5> QED
          BY <3>1, <5>2
      <4> QED
        BY <4>2, <4>3
    <3> QED
      BY <3>2, <3>3
  <2> QED
    BY <2>3, <2>4
<1> QED
  BY <1>1, Invariance, PTL

-----------------------------------------------------------------------------
LEMMA RunOut ==
  ASSUME Inv, NEW t \in Stamps, NEW at \in Nat, ~Within(t, at)
  PROVE  ~Within(now, at)
<1>1. t \in Nat /\ now \in Nat /\ t <= now /\ TTL \in Nat
  BY LimitsAssumption DEF Stamps, Inv
<1> QED
  BY <1>1 DEF Within

\* One step of the eviction loop already shows that the cache was full.
LEMMA EvictsWhenFull ==
  ASSUME TTL # 0, now \in Nat, NEW s, NEW q, Good(s, q), NEW m \in 0..Len(q), Caps(s, q, m), m # 0,
         NEW old \in SUBSET Keys, IsFiniteSet(old), NEW k, Recorded(s) \subseteq old \cup {k}
  PROVE  Cardinality(old) >= MaxEntries
<1>1. Len(q) \in Nat /\ 0 \in 0..m - 1
  BY LenProperties DEF Good
<1>2. Cardinality(Recorded(Popped(s, q, 0))) > MaxEntries
  BY <1>1 DEF Caps
<1>3. Cardinality(Recorded(Popped(s, q, 0))) <= Cardinality(Recorded(s))
  BY PoppedFewer
<1>4. IsFiniteSet(Recorded(s)) /\ Cardinality(Recorded(s)) \in Nat
  BY RecordedFinite
<1>5. /\ IsFiniteSet(old \cup {k})
      /\ Cardinality(old) \in Nat
      /\ Cardinality(old \cup {k}) <= Cardinality(old) + 1
  <2>1. Cardinality(old) \in Nat
    BY FS_CardinalityType
  <2>2. /\ IsFiniteSet(old \cup {k})
        /\ Cardinality(old \cup {k}) = IF k \in old THEN Cardinality(old) ELSE Cardinality(old) + 1
    BY FS_AddElement
  <2> QED
    BY <2>1, <2>2
<1>6. Cardinality(Recorded(s)) <= Cardinality(old \cup {k}) /\ Cardinality(old \cup {k}) \in Nat
  BY <1>5, FS_Subset, FS_CardinalityType
<1>7. Cardinality(Recorded(Popped(s, q, 0))) \in Nat
  BY <1>4, PoppedFewer, FS_Subset, FS_CardinalityType
<1> QED
  BY <1>2, <1>3, <1>4, <1>5, <1>6, <1>7, LimitsAssumption

\* What the eviction loop takes was recorded before what it leaves, but for
\* the lateness of a stamp.
LEMMA OldestGoFirst ==
  ASSUME TTL # 0, now \in Nat, NEW s, NEW q, Good(s, q), NEW m \in 0..Len(q),
         NEW e \in Recorded(s), Popped(s, q, m)[e] # s[e],
         NEW j \in Recorded(Popped(s, q, m))
  PROVE  s[e] - Skew <= Popped(s, q, m)[j]
<1> DEFINE p == Popped(s, q, m)
           r == SubSeq(q, m + 1, Len(q))
<1>1. Good(p, r)
  BY PopGood
<1>2. /\ Len(q) \in Nat /\ Len(r) = Len(q) - m
      /\ \A g \in 1..Len(q) - m : r[g] = q[m + g]
  BY RestOf, LenProperties DEF Good
<1>3. e \in Keys /\ s[e] \in Nat /\ s \in [Keys -> Nat \cup {Never}]
  BY DEF Recorded, Good
<1>4. PICK i \in 1..m : q[i] = [at |-> s[e], key |-> e]
  BY <1>3, PoppedType
<1> HIDE DEF p, r
<1>5. j \in Keys /\ p[j] \in Nat
  BY <1>1 DEF Good, Recorded, p
<1>6. PICK h \in 1..Len(r) : r[h] = [at |-> p[j], key |-> j]
  BY <1>1, <1>5 DEF Good, SpokenFor, Never
<1>7. i \in 1..Len(q) /\ m + h \in 1..Len(q) /\ q[m + h] = r[h] /\ i < m + h
  BY <1>2
<1>8. q[i].at - Skew <= q[m + h].at
  BY <1>7 DEF Good, NearlySorted
<1>9. q[i].at = s[e] /\ q[m + h].at = p[j]
  BY <1>4, <1>6, <1>7
<1> QED
  BY <1>8, <1>9 DEF p

(* A window runs its time; only eviction from a full cache cuts one short, *)
(* and then what is kept was recorded no more than a late stamp earlier    *)
(* (record_at).                                                            *)
THEOREM WindowsRunTheirTime == Spec => WindowAnchored
<1> DEFINE Anchored ==
      \A k \in Recorded(seen) :
        seen'[k] # seen[k] =>
          \/ ~Within(now, seen[k])
          \/ /\ Full
             /\ seen'[k] = Never
             /\ \A j \in Recorded(seen') : seen'[j] >= seen[k] - Skew
<1>1. ASSUME Inv, NEW k0 \in Keys, Record(k0) PROVE Anchored
  <2>1. PICK t \in Stamps, n \in 0..Len(order) :
           LET alive == Popped(seen, order, n)
               rest  == SubSeq(order, n + 1, Len(order))
               s     == [alive EXCEPT ![k0] = t]
               q     == Append(rest, [at |-> t, key |-> k0])
           IN  /\ TTL # 0 /\ Prunes(t, n) /\ now' = now
               /\ Good(alive, rest)
               /\ \/ /\ alive[k0] # Never /\ Within(t, alive[k0])
                     /\ seen' = alive /\ order' = rest
                  \/ /\ alive[k0] = Never \/ ~Within(t, alive[k0])
                     /\ Good(s, q)
                     /\ \E m \in 0..Len(q) :
                          /\ Caps(s, q, m)
                          /\ seen' = Popped(s, q, m)
                          /\ order' = SubSeq(q, m + 1, Len(q))
    BY <1>1, RecordParts
  <2> DEFINE alive == Popped(seen, order, n)
             rest  == SubSeq(order, n + 1, Len(order))
             s     == [alive EXCEPT ![k0] = t]
             q     == Append(rest, [at |-> t, key |-> k0])
  <2> SUFFICES ASSUME NEW k \in Recorded(seen), seen'[k] # seen[k], Within(now, seen[k])
               PROVE  /\ Full
                      /\ seen'[k] = Never
                      /\ \A j \in Recorded(seen') : seen'[j] >= seen[k] - Skew
    OBVIOUS
  <2>2. k \in Keys /\ seen[k] \in Nat /\ Good(seen, order)
    BY <1>1 DEF Inv, Good, Recorded
  <2>3. alive[k] = seen[k]
    <3> SUFFICES ASSUME alive[k] # seen[k] PROVE FALSE
      OBVIOUS
    <3>1. PICK i \in 1..n : order[i] = [at |-> seen[k], key |-> k]
      BY <2>2, PoppedType DEF Good
    <3>2. ~Within(t, seen[k])
      BY <2>1, <3>1 DEF Prunes
    <3> QED
      BY <1>1, <2>2, <3>2, RunOut
  <2>4. Recorded(alive) \subseteq Recorded(seen)
    BY <2>2, PoppedFewer
  <2> HIDE DEF alive, rest
  <2>5. PICK m \in 0..Len(q) :
          /\ alive[k0] = Never \/ ~Within(t, alive[k0])
          /\ Good(s, q)
          /\ Caps(s, q, m)
          /\ seen' = Popped(s, q, m)
          /\ order' = SubSeq(q, m + 1, Len(q))
    BY <2>1, <2>3 DEF alive, rest
  <2>6. k # k0
    <3> SUFFICES ASSUME k = k0 PROVE FALSE
      OBVIOUS
    <3>1. ~Within(t, seen[k])
      BY <2>2, <2>3, <2>5 DEF Never
    <3> QED
      BY <1>1, <2>2, <3>1, RunOut
  <2>7. s[k] = seen[k] /\ Recorded(s) \subseteq Recorded(seen) \cup {k0}
    <3>1. alive \in [Keys -> Nat \cup {Never}]
      BY <2>2, PoppedType DEF alive, Good
    <3>2. s[k] = alive[k]
      BY <2>2, <2>6, <3>1
    <3>3. Recorded(s) \subseteq Recorded(alive) \cup {k0}
      BY <3>1 DEF Recorded
    <3> QED
      BY <2>3, <2>4, <3>2, <3>3
  <2> HIDE DEF s, q
  <2>8. seen'[k] = Never /\ \E i \in 1..m : q[i] = [at |-> seen[k], key |-> k]
    <3>1. s \in [Keys -> Nat \cup {Never}]
      BY <2>5 DEF Good
    <3> QED
      BY <2>2, <2>5, <2>7, <3>1, PoppedType
  <2>9. PICK i \in 1..m : q[i] = [at |-> seen[k], key |-> k]
    BY <2>8
  <2>10. Len(q) \in Nat /\ i \in 1..Len(q) /\ m # 0
    BY <2>5, <2>9, LenProperties DEF Good
  <2>11. Full
    <3>1. IsFiniteSet(Recorded(seen)) /\ Recorded(seen) \in SUBSET Keys
      BY <2>2, RecordedFinite DEF Recorded, Good
    <3>2. Cardinality(Recorded(seen)) >= MaxEntries
      BY <1>1, <2>1, <2>5, <2>7, <2>10, <3>1, EvictsWhenFull DEF Inv
    <3> QED
      BY <3>2 DEF Full
  <2>12. ASSUME NEW j \in Recorded(seen')
         PROVE  seen'[j] >= seen[k] - Skew
    <3>1. k \in Recorded(s)
      BY <2>2, <2>5, <2>7 DEF Recorded, Good, Never
    <3>2. s[k] # seen'[k]
      BY <2>2, <2>7, <2>8
    <3>3. s[k] - Skew <= seen'[j]
      BY <1>1, <2>1, <2>5, <3>1, <3>2, OldestGoFirst DEF Inv
    <3>4. seen'[j] \in Nat
      <4>1. Good(seen', order')
        BY <1>1, <2>1, <2>5, PopGood DEF Inv
      <4> QED
        BY <4>1 DEF Good, Recorded
    <3> QED
      BY <2>2, <2>7, <3>3, <3>4, LimitsAssumption
  <2> QED
    BY <2>8, <2>11, <2>12
<1>2. ASSUME Inv, Next PROVE Anchored
  <2>1. CASE Tick
    BY <2>1 DEF Tick
  <2> QED
    BY <1>1, <1>2, <2>1 DEF Next
<1>3. Inv /\ [Next]_vars => [Anchored]_vars
  BY <1>2
<1> QED
  BY <1>3, Invariance, PTL DEF Spec, WindowAnchored

-----------------------------------------------------------------------------
\* Popping one entry more forgets one key at most.
LEMMA PopsOneByOne ==
  ASSUME NEW s, NEW q, Good(s, q), NEW m \in 1..Len(q)
  PROVE  Recorded(Popped(s, q, m - 1)) \subseteq Recorded(Popped(s, q, m)) \cup {q[m].key}
<1>1. Len(q) \in Nat
  BY LenProperties DEF Good
<1>2. SUFFICES ASSUME NEW k \in Keys, Popped(s, q, m - 1)[k] # Never, k # q[m].key
               PROVE  Popped(s, q, m)[k] # Never
  BY DEF Recorded, Popped
<1>3. s[k] # Never /\ ~\E i \in 1..m - 1 : q[i] = [at |-> s[k], key |-> k]
  BY <1>2 DEF Popped
<1>4. q[m] # [at |-> s[k], key |-> k]
  BY <1>2
<1>5. \A i \in 1..m : i = m \/ i \in 1..m - 1
  BY <1>1
<1>6. ~\E i \in 1..m : q[i] = [at |-> s[k], key |-> k]
  BY <1>3, <1>4, <1>5
<1> QED
  BY <1>3, <1>6 DEF Popped

\* The eviction loop takes as many keys as have to go, and no more.
LEMMA CapsExact ==
  ASSUME TTL # 0, now \in Nat, NEW s, NEW q, Good(s, q), NEW m \in 0..Len(q), Caps(s, q, m)
  PROVE  IF Cardinality(Recorded(s)) <= MaxEntries
           THEN Popped(s, q, m) = s
           ELSE Cardinality(Recorded(Popped(s, q, m))) = MaxEntries
<1>1. Len(q) \in Nat /\ s \in [Keys -> Nat \cup {Never}]
  BY LenProperties DEF Good
<1>2. Popped(s, q, 0) = s
  BY <1>1 DEF Popped
<1>3. /\ Cardinality(Recorded(s)) \in Nat
      /\ IsFiniteSet(Recorded(s))
  BY RecordedFinite
<1>4. CASE m = 0
  <2>1. Cardinality(Recorded(s)) <= MaxEntries
    BY <1>2, <1>4, CapsKeeps
  <2> QED
    BY <1>2, <1>4, <2>1
<1>5. CASE m # 0
  <2>1. m \in 1..Len(q) /\ 0 \in 0..m - 1 /\ m - 1 \in 0..m - 1
    BY <1>1, <1>5
  <2>2. /\ Cardinality(Recorded(s)) > MaxEntries
        /\ Cardinality(Recorded(Popped(s, q, m - 1))) > MaxEntries
    BY <1>2, <2>1 DEF Caps
  <2> DEFINE P == Recorded(Popped(s, q, m))
  <2>3. IsFiniteSet(P) /\ Cardinality(P) \in Nat /\ Cardinality(P) <= MaxEntries
    BY <1>3, PoppedFewer, CapsKeeps, FS_Subset, FS_CardinalityType
  <2>4. Recorded(Popped(s, q, m - 1)) \subseteq P \cup {q[m].key}
    BY <2>1, PopsOneByOne
  <2> HIDE DEF P
  <2>5. /\ IsFiniteSet(P \cup {q[m].key})
        /\ Cardinality(P \cup {q[m].key}) \in Nat
        /\ Cardinality(P \cup {q[m].key}) <= Cardinality(P) + 1
    <3>1. /\ IsFiniteSet(P \cup {q[m].key})
          /\ Cardinality(P \cup {q[m].key})
               = IF q[m].key \in P THEN Cardinality(P) ELSE Cardinality(P) + 1
      BY <2>3, FS_AddElement
    <3> QED
      BY <2>3, <3>1
  <2>6. /\ Cardinality(Recorded(Popped(s, q, m - 1))) <= Cardinality(P \cup {q[m].key})
        /\ Cardinality(Recorded(Popped(s, q, m - 1))) \in Nat
    BY <2>4, <2>5, FS_Subset, FS_CardinalityType
  <2>7. Cardinality(P) = MaxEntries
    BY <2>2, <2>3, <2>5, <2>6, LimitsAssumption
  <2> QED
    BY <1>3, <2>2, <2>7, LimitsAssumption DEF P
<1> QED
  BY <1>4, <1>5

\* Nothing but windows that have run their time is popped by the expiry loop.
LEMMA ExpiryKeeps ==
  ASSUME Inv, TTL # 0, NEW t \in Stamps, NEW n \in 0..Len(order), Prunes(t, n)
  PROVE  /\ Recorded(Popped(seen, order, n)) \in Deliveries!Kept(t)
         /\ \A j \in Recorded(Popped(seen, order, n)) : Popped(seen, order, n)[j] = seen[j]
<1> DEFINE alive == Popped(seen, order, n)
<1>1. seen \in [Keys -> Nat \cup {Never}] /\ TTL \in Nat \ {0} /\ t \in Nat
  BY LimitsAssumption DEF Inv, Good, Stamps
<1>2. alive \in [Keys -> Nat \cup {Never}]
  BY <1>1, PoppedType
<1>3. \A j \in Keys : alive[j] = seen[j] \/ alive[j] = Never
  BY DEF Popped
<1>4. Recorded(alive) = {j \in Keys : alive[j] # Never}
  BY <1>2 DEF Recorded
<1>5. ASSUME NEW j \in Keys, seen[j] # Never, alive[j] = Never
      PROVE  ~Deliveries!Open(t, j)
  <2>1. PICK i \in 1..n : order[i] = [at |-> seen[j], key |-> j]
    BY <1>1, <1>5, PoppedType
  <2>2. ~Within(t, seen[j])
    BY <2>1 DEF Prunes
  <2>3. seen[j] \in Nat
    BY <1>1, <1>5
  <2> QED
    BY <1>1, <2>2, <2>3 DEF Within, Deliveries!Open
<1> HIDE DEF alive
<1>6. Recorded(alive) \in Deliveries!Kept(t)
  BY <1>3, <1>4, <1>5 DEF Deliveries!Kept, Deliveries!Known, Deliveries!Never, Never
<1> QED
  BY <1>3, <1>4, <1>6 DEF alive

\* DeliveryRecord counts as DedupCache does.
LEMMA SameCardinality == \A S : Deliveries!Cardinality(S) = Cardinality(S)
BY DEF Deliveries!Cardinality, Cardinality

(* The cache implements DeliveryRecord for any keys, window, capacity and  *)
(* lateness: what was recorded is recognized until its window ends or      *)
(* older recordings have made room, and no more than have to make room do  *)
(* (record_at).                                                            *)
THEOREM KeepsTheRecord == Spec => DeliverySpec
<1>1. Init => Deliveries!Init
  BY DEF Init, Deliveries!Init, Deliveries!Nothing, Deliveries!Never, Never
<1>2. ASSUME Inv, NEW k \in Keys, Record(k)
      PROVE  Deliveries!Record(k)
  <2>1. PICK t \in Stamps, n \in 0..Len(order) :
           LET alive == Popped(seen, order, n)
               rest  == SubSeq(order, n + 1, Len(order))
               s     == [alive EXCEPT ![k] = t]
               q     == Append(rest, [at |-> t, key |-> k])
           IN  /\ TTL # 0 /\ Prunes(t, n) /\ now' = now
               /\ Good(alive, rest)
               /\ \/ /\ alive[k] # Never /\ Within(t, alive[k])
                     /\ seen' = alive /\ order' = rest
                  \/ /\ alive[k] = Never \/ ~Within(t, alive[k])
                     /\ Good(s, q)
                     /\ \E m \in 0..Len(q) :
                          /\ Caps(s, q, m)
                          /\ seen' = Popped(s, q, m)
                          /\ order' = SubSeq(q, m + 1, Len(q))
    BY <1>2, RecordParts
  <2> DEFINE alive == Popped(seen, order, n)
             rest  == SubSeq(order, n + 1, Len(order))
             s     == [alive EXCEPT ![k] = t]
             q     == Append(rest, [at |-> t, key |-> k])
             kept  == Recorded(alive)
  <2>2. /\ TTL \in Nat \ {0} /\ Skew \in Nat /\ now \in Nat /\ t \in Nat
        /\ t \in Deliveries!Stamps
    BY <1>2, <2>1, LimitsAssumption DEF Stamps, Inv, Deliveries!Stamps
  <2>3. kept \in Deliveries!Kept(t) /\ \A j \in kept : alive[j] = seen[j]
    BY <1>2, <2>1, ExpiryKeeps
  <2>4. alive \in [Keys -> Nat \cup {Never}] /\ seen \in [Keys -> Nat \cup {Never}]
    BY <1>2, PoppedType DEF Inv, Good
  <2>5. kept = {j \in Keys : alive[j] # Never}
    BY <2>4 DEF Recorded
  <2> HIDE DEF alive, rest, kept
  <2>6. CASE /\ alive[k] # Never /\ Within(t, alive[k])
             /\ seen' = alive
    <3>1. k \in kept /\ seen[k] = alive[k] /\ alive[k] \in Nat
      BY <2>3, <2>4, <2>5, <2>6
    <3>2. Deliveries!Open(t, k)
      BY <2>2, <2>6, <3>1 DEF Within, Deliveries!Open, Deliveries!Never, Never
    <3>3. seen' = [j \in Keys |-> IF j \in kept THEN seen[j] ELSE Deliveries!Never]
      BY <2>3, <2>4, <2>5, <2>6 DEF Deliveries!Never, Never
    <3>4. Deliveries!Repeat(k)
      BY <2>2, <2>3, <3>1, <3>2, <3>3 DEF Deliveries!Repeat
    <3> QED
      BY <2>1, <3>4 DEF Deliveries!Record
  <2>7. ASSUME alive[k] = Never \/ ~Within(t, alive[k]), Good(s, q),
               NEW m \in 0..Len(q), Caps(s, q, m), seen' = Popped(s, q, m)
        PROVE  Deliveries!Record(k)
    <3> DEFINE all == kept \cup {k}
               left == Recorded(seen')
               stamp(j) == IF j = k THEN t ELSE seen[j]
    <3>1. ~Deliveries!Open(t, k)
      <4>1. CASE k \in kept
        <5>1. seen[k] = alive[k] /\ alive[k] \in Nat /\ ~Within(t, alive[k])
          BY <2>3, <2>4, <2>5, <2>7, <4>1
        <5> QED
          BY <2>2, <5>1 DEF Within, Deliveries!Open
      <4>2. CASE k \notin kept
        BY <2>3, <4>2 DEF Deliveries!Kept, Deliveries!Known, Deliveries!Open
      <4> QED
        BY <4>1, <4>2
    <3>2. s \in [Keys -> Nat \cup {Never}] /\ all = Recorded(s)
      <4>1. Recorded(s) = {j \in Keys : s[j] # Never}
        BY <2>2, <2>4 DEF Recorded
      <4> QED
        <5>1. /\ s \in [Keys -> Nat \cup {Never}]
              /\ s[k] = t /\ \A j \in Keys \ {k} : s[j] = alive[j]
          BY <2>2, <2>4
        <5> HIDE DEF s
        <5> QED
          BY <2>2, <2>5, <4>1, <5>1 DEF Never
    <3>3. \A j \in all : stamp(j) = s[j]
      BY <2>3, <2>4, <2>5
    <3> HIDE DEF s, q
    <3>4. seen' \in [Keys -> Nat \cup {Never}] /\ \A j \in Keys : seen'[j] \in {s[j], Never}
      BY <2>7, <3>2, PoppedType
    <3>5. left = {j \in Keys : seen'[j] # Never} /\ all = {j \in Keys : s[j] # Never}
      BY <3>2, <3>4 DEF Recorded
    <3>6. left \in SUBSET all
      BY <3>4, <3>5
    <3>7. IF Cardinality(all) <= MaxEntries THEN left = all ELSE Cardinality(left) = MaxEntries
      BY <1>2, <2>1, <2>7, <3>2, CapsExact DEF Inv
    <3>8. \A e \in all \ left, j \in left : stamp(e) - Skew <= stamp(j)
      <4> SUFFICES ASSUME NEW e \in all \ left, NEW j \in left
                   PROVE  stamp(e) - Skew <= stamp(j)
        OBVIOUS
      <4>1. e \in Recorded(s) /\ seen'[e] # s[e]
        BY <3>2, <3>5
      <4>2. s[e] - Skew <= seen'[j]
        BY <1>2, <2>1, <2>7, <4>1, OldestGoFirst DEF Inv
      <4>3. seen'[j] = s[j]
        BY <3>4, <3>5
      <4>4. stamp(e) = s[e] /\ stamp(j) = s[j]
        BY <3>3, <3>6
      <4> QED
        BY <4>2, <4>3, <4>4
    <3>9. seen' = [j \in Keys |-> IF j \in left THEN stamp(j) ELSE Deliveries!Never]
      BY <3>3, <3>4, <3>5, <3>6 DEF Deliveries!Never, Never
    <3>10. Deliveries!Begin(k)
      <4>1. \E l \in SUBSET (kept \cup {k}) :
              /\ IF Deliveries!Cardinality(kept \cup {k}) <= MaxEntries
                   THEN l = kept \cup {k} ELSE Deliveries!Cardinality(l) = MaxEntries
              /\ \A e \in (kept \cup {k}) \ l, j \in l :
                   (IF e = k THEN t ELSE seen[e]) - Skew <= (IF j = k THEN t ELSE seen[j])
              /\ seen' = [j \in Keys |->
                   IF j \in l THEN IF j = k THEN t ELSE seen[j] ELSE Deliveries!Never]
        <5> WITNESS left \in SUBSET (kept \cup {k})
        <5> QED
          BY <3>7, <3>8, <3>9, SameCardinality
      <4> HIDE DEF all, left, stamp
      <4>2. t \in Deliveries!Stamps /\ kept \in Deliveries!Kept(t) /\ ~Deliveries!Open(t, k)
        BY <2>2, <2>3, <3>1
      <4> QED
        BY ONLY <4>1, <4>2, Zenon DEF Deliveries!Begin
    <3> QED
      BY <2>1, <3>10 DEF Deliveries!Record
  <2> QED
    BY <2>1, <2>6, <2>7 DEF alive, rest
<1>3. Inv /\ [Next]_vars => [Deliveries!Next]_(Deliveries!vars)
  <2> SUFFICES ASSUME Inv, [Next]_vars PROVE [Deliveries!Next]_(Deliveries!vars)
    OBVIOUS
  <2>1. CASE Tick
    BY <2>1 DEF Tick, Deliveries!Tick, Deliveries!Next
  <2>2. CASE UNCHANGED vars
    BY <2>2 DEF vars, Deliveries!vars
  <2> QED
    BY <1>2, <2>1, <2>2 DEF Next, Deliveries!Next
<1> QED
  BY <1>1, <1>3, Invariance, PTL DEF Spec, DeliverySpec, Deliveries!Spec
=============================================================================
