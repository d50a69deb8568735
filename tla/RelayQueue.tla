----------------------------- MODULE RelayQueue -----------------------------
(***************************************************************************)
(* The in-memory buffer of the queue side: struct NotificationQueue in     *)
(* src/src/queue.rs.  Every operation runs under one mutex and is one      *)
(* action here.  Each operation reads Instant::now() BEFORE it takes the   *)
(* mutex, so the time an operation works with may be older than the time   *)
(* another one has already used: an action picks any stamp that is at most *)
(* Skew behind the clock.                                                  *)
(***************************************************************************)
EXTENDS Integers, Sequences, FiniteSets

CONSTANTS
  Keys,        \* (app_id, pushkey) pairs that count-only pushes coalesce on
  NoKey,       \* the count_key of an entry that carries an event_id
  MaxEntries,  \* NotificationQueue.max_entries
  EntryTTL,    \* NotificationQueue.entry_ttl
  Lease,       \* NotificationQueue.lease
  Batches,     \* values of the `max` of a poll; queue_poll clamps it to >= 1
  Skew,        \* how long an operation may wait for the mutex
  MaxId,       \* bound: entries enqueued in a behaviour
  MaxTime      \* bound: the clock stops here

ASSUME KeysAssumption == NoKey \notin Keys
ASSUME LimitsAssumption ==
  /\ MaxEntries \in Nat
  /\ EntryTTL \in Nat
  /\ Lease \in Nat
  /\ Batches \subseteq Nat \ {0}
  /\ Skew \in Nat
ASSUME BoundsAssumption == MaxId \in Nat /\ MaxTime \in Nat

VARIABLES
  now,          \* the clock
  next_id,      \* Inner.next_id
  pending,      \* Inner.pending: a sequence of entries, the front first
  count_index,  \* Inner.count_index: id of the newest badge of a key, or NoId
  leased,       \* Inner.leased: the set of its values, see Lessee
  newest,       \* history: the last badge enqueued for each key, or NoId
  served,       \* history: the largest id ever handed out, or NoId
  settled       \* history: the ids an acknowledgement took out of `leased`

queueVars == <<next_id, pending, count_index, leased>>
history   == <<newest, served, settled>>
vars      == <<now, next_id, pending, count_index, leased, newest, served, settled>>

NoId == -1

(***************************************************************************)
(* The payload of an entry is left out: nothing in the buffer looks at it. *)
(* The map `leased` is keyed by the id of the entry it holds, so the set   *)
(* of its values says as much; HeldOnce shows that two never collide.      *)
(***************************************************************************)
Entry == [id : Nat, enqueued : Nat, key : Keys \cup {NoKey}]
Lessee == [deadline : Nat, entry : Entry]

Elements(q) == {q[i] : i \in DOMAIN q}
IdsOf(S) == {e.id : e \in S}
LeasedEntries == {l.entry : l \in leased}
Held == Elements(pending) \cup LeasedEntries

TypeOK ==
  /\ now \in Nat
  /\ next_id \in Nat
  /\ pending \in Seq(Entry)
  /\ count_index \in [Keys -> Nat \cup {NoId}]
  /\ leased \subseteq Lessee
  /\ newest \in [Keys -> Nat \cup {NoId}]
  /\ served \in Nat \cup {NoId}
  /\ settled \subseteq Nat

Init ==
  /\ now = 0
  /\ next_id = 0
  /\ pending = <<>>
  /\ count_index = [k \in Keys |-> NoId]
  /\ leased = {}
  /\ newest = [k \in Keys |-> NoId]
  /\ served = NoId
  /\ settled = {}

-----------------------------------------------------------------------------
(***************************************************************************)
(* Helpers of the operations.  A definition that follows "Mistake:" is not *)
(* part of the model: it is a slip the properties are known to catch when  *)
(* it stands in for the definition after it.                               *)
(***************************************************************************)

\* Instant::now() as an operation may have read it.
Stamps == {t \in 0..now : now - t <= Skew}

\* is_live: a badge that is not the newest of its key is stale.
IsLive(index, e) == e.key \in Keys => index[e.key] = e.id

\* Instant::duration_since saturates at zero.
Age(t, e) == IF t < e.enqueued THEN 0 ELSE t - e.enqueued

Outlived(t, e) == Age(t, e) >= EntryTTL

\* Mistake: the mapping goes whichever badge of the key is dropped.
ForgetForAnyone(index, S) ==
  [k \in Keys |-> IF \E e \in S : e.key = k THEN NoId ELSE index[k]]

\* forget_count_key for every entry of S: only the owner drops its mapping.
Forget(index, S) ==
  [k \in Keys |->
     IF \E e \in S : e.key = k /\ e.id = index[k] THEN NoId ELSE index[k]]

\* The sequences that hold the entries of S in ascending id order.
Ascending(q) == \A i, j \in DOMAIN q : i < j => q[i].id < q[j].id
Arrangements(S) ==
  {q \in [1..Cardinality(S) -> S] : Elements(q) = S /\ Ascending(q)}

\* Mistake: one slot too few is kept.
EvictionsTooMany ==
  IF Len(pending) + 1 < MaxEntries THEN 0 ELSE Len(pending) - MaxEntries + 2

\* Mistake: "if full, pop one" instead of "while full, pop".
EvictionsOnce == IF Len(pending) >= MaxEntries THEN 1 ELSE 0

\* How many entries enqueue_at pops: until one more fits, or none is left.
Evictions ==
  IF MaxEntries = 0 THEN Len(pending)
  ELSE IF Len(pending) < MaxEntries THEN 0
  ELSE Len(pending) - MaxEntries + 1

\* Mistake: a lease is given up one unit of time early.
ExpiredTooSoon(t) == {l \in leased : l.deadline <= t + 1}

\* The leases take_at reclaims.
Expired(t) == {l \in leased : l.deadline <= t}

Deadline(t) == t + Lease

\* Mistake: what comes back queues up behind everybody else.
RequeuedBehind(front) == pending \o front

\* push_front in descending order: the returned entries end up in front.
Requeued(front) == front \o pending

\* Mistake: a stale badge goes out like any other entry.
FitHoweverStale(index, t, e) == ~Outlived(t, e)

\* Neither superseded nor too old.
Fit(index, t, e) == IsLive(index, e) /\ ~Outlived(t, e)

\* What the first loop of take_at takes back, requeues and forgets.
Returned(t) == {l.entry : l \in Expired(t)}
Reclaimed(t) == {e \in Returned(t) : Fit(count_index, t, e)}
ReclaimedIndex(t) == Forget(count_index, {e \in Returned(t) : Outlived(t, e)})

(***************************************************************************)
(* take_at pops the first n entries of q: it stops when the batch is full, *)
(* right after the entry that filled it, or when the buffer is empty.      *)
(***************************************************************************)
Batch(q, n, index, t) == {i \in 1..n : Fit(index, t, q[i])}
StopsAfter(q, n, index, t, max) ==
  LET size == Cardinality(Batch(q, n, index, t))
  IN  \/ size < max /\ n = Len(q)
      \/ size = max /\ n \in Batch(q, n, index, t)

-----------------------------------------------------------------------------
(***************************************************************************)
(* The operations.                                                         *)
(***************************************************************************)

\* enqueue: an event entry (key = NoKey) or a badge of a key.
Enqueue(key) == \E t \in Stamps :
  LET index   == [k \in Keys |-> IF k = key THEN next_id ELSE count_index[k]]
      evicted == {pending[i] : i \in 1..Evictions}
      entry   == [id |-> next_id, enqueued |-> t, key |-> key]
  IN  /\ next_id < MaxId
      /\ next_id' = next_id + 1
      /\ count_index' = Forget(index, evicted)
      /\ pending' = Append(SubSeq(pending, Evictions + 1, Len(pending)), entry)
      /\ newest' = [k \in Keys |-> IF k = key THEN next_id ELSE newest[k]]
      /\ UNCHANGED <<now, leased, served, settled>>

\* The second loop of take_at: pop the line q until the batch is full.
HandOut(max, t, q) == \E n \in 0..Len(q) :
  LET index == ReclaimedIndex(t)
      batch == {q[i] : i \in Batch(q, n, index, t)}
      aged  == {e \in {q[i] : i \in 1..n} : Outlived(t, e)}
  IN  /\ StopsAfter(q, n, index, t, max)
      /\ pending' = SubSeq(q, n + 1, Len(q))
      /\ leased' = (leased \ Expired(t)) \cup
           {[deadline |-> Deadline(t), entry |-> e] : e \in batch}
      /\ count_index' = Forget(index, aged)
      /\ served' \in IdsOf(batch) \cup {served}
      /\ \A i \in IdsOf(batch) \cup {served} : i <= served'
      /\ UNCHANGED <<now, next_id, newest, settled>>

\* take_at: expired leases go back to the front, then the batch is leased.
Take(max) ==
  \E t \in Stamps : \E front \in Arrangements(Reclaimed(t)) :
    HandOut(max, t, Requeued(front))

\* Mistake: the acknowledged leases are looked up but not removed.
AckKeepsLease(ids) ==
  LET acked == {l \in leased : l.entry.id \in ids}
  IN  /\ count_index' = Forget(count_index, {l.entry : l \in acked})
      /\ settled' = settled \cup {l.entry.id : l \in acked}
      /\ UNCHANGED <<now, next_id, pending, leased, newest, served>>

\* Mistake: an acknowledgement also removes an entry that waits again.
AckReachesWaiting(ids) ==
  LET acked == {e \in Held : e.id \in ids}
      Stays(e) == e \notin acked
  IN  /\ leased' = {l \in leased : l.entry \notin acked}
      /\ pending' = SelectSeq(pending, Stays)
      /\ count_index' = Forget(count_index, acked)
      /\ settled' = settled \cup IdsOf(acked)
      /\ UNCHANGED <<now, next_id, newest, served>>

\* ack: whatever of `ids` is leased is settled, the rest is ignored.
Ack(ids) ==
  LET acked == {l \in leased : l.entry.id \in ids}
  IN  /\ leased' = leased \ acked
      /\ count_index' = Forget(count_index, {l.entry : l \in acked})
      /\ settled' = settled \cup {l.entry.id : l \in acked}
      /\ UNCHANGED <<now, next_id, pending, newest, served>>

Tick ==
  /\ now < MaxTime
  /\ now' = now + 1
  /\ UNCHANGED <<queueVars, history>>

Next ==
  \/ \E key \in Keys \cup {NoKey} : Enqueue(key)
  \/ \E max \in Batches : Take(max)
  \/ \E ids \in SUBSET (0..next_id - 1) : Ack(ids)
  \/ Tick

Spec == Init /\ [][Next]_vars

-----------------------------------------------------------------------------
(***************************************************************************)
(* Properties.                                                             *)
(***************************************************************************)

(* An entry is in one place at a time: no id twice among the waiting ones, *)
(* twice among the leased ones, or in both, and an id that was settled or  *)
(* not given out yet is in neither.  So an acknowledged entry never comes  *)
(* back and an acknowledgement removes all there is of an entry (enqueue,  *)
(* take_at and ack move entries between the two containers).               *)
DistinctPositions ==
  \A i, j \in DOMAIN pending : pending[i].id = pending[j].id => i = j
DistinctLeases ==
  \A l, m \in leased : l.entry.id = m.entry.id => l = m
Apart == \A i \in DOMAIN pending, l \in leased : pending[i].id # l.entry.id
OnlyOpenIds == \A e \in Held : e.id < next_id /\ e.id \notin settled
HeldOnce == DistinctPositions /\ DistinctLeases /\ Apart /\ OnlyOpenIds

(* The coalescing index names the newest badge of a key exactly as long as *)
(* that badge waits or is leased.  A dangling mapping would leak, and a    *)
(* missing one would make take_at drop the badge as stale, so that the     *)
(* device keeps a wrong count (enqueue_at, is_live, forget_count_key).     *)
BadgeIndexExact ==
  \A k \in Keys :
    count_index[k] = IF newest[k] \in IdsOf(Held) THEN newest[k] ELSE NoId

(* Entries that were never handed out stand behind every entry that was,   *)
(* in the order they arrived: a redelivery goes before new work, and the   *)
(* first hand-outs follow arrival order (push_front of expired leases).    *)
FreshInOrder ==
  /\ \A i, j \in DOMAIN pending :
       i < j /\ pending[i].id > served => pending[i].id < pending[j].id
  /\ \A l \in leased : l.entry.id <= served

(* Whatever a poll hands out is worth delivering: a badge is the newest of *)
(* its key, never an overtaken count, and no entry is older than its TTL   *)
(* (give or take the wait for the mutex) when it goes out (take_at).       *)
HandsOutCurrent ==
  [][\A l \in leased' \ leased :
       /\ l.entry.key \in Keys => l.entry.id = newest[l.entry.key]
       /\ now - l.entry.enqueued < EntryTTL + Skew]_vars

(* Nothing is lost silently.  An entry stops being held only because it    *)
(* was acknowledged, outlived its TTL, was overtaken by a newer badge of   *)
(* its key, or was evicted by an arrival at a full buffer, from the front. *)
Overtaken(e) == e.key \in Keys /\ e.id < newest'[e.key]
Displaced(e) ==
  /\ next_id' # next_id
  /\ Len(pending) >= MaxEntries
  /\ \E i \in DOMAIN pending :
       pending[i] = e /\ Len(pending) - i >= MaxEntries - 1
NothingLostSilently ==
  [][\A e \in Held \ Held' :
       \/ e.id \in settled'
       \/ Outlived(now, e)
       \/ Overtaken(e)
       \/ Displaced(e)]_vars

(* A lease is exclusive: it lasts its full time, and until then the entry  *)
(* stays with the poller that has it, and only an acknowledgement may end  *)
(* that.  Arrivals evict waiting entries only, and other polls pass it by  *)
(* (take_at, enqueue_at).                                                  *)
LeaseExclusive ==
  [][/\ \A l \in leased' \ leased : l.deadline >= now + Lease - Skew
     /\ \A l \in leased \ leased' :
          l.deadline <= now \/ l.entry.id \in settled' \ settled]_vars

(* The capacity is restored by every arrival, even after expired leases    *)
(* have pushed the buffer beyond it (the eviction loop of enqueue_at).     *)
ArrivalRestoresCapacity ==
  [][next_id' # next_id => Len(pending') <= MaxEntries \/ Len(pending') = 1]_vars

(* The abstract life of an entry, as the state of the buffer shows it.     *)
StatusOf(i) ==
  IF i >= next_id THEN "new"
  ELSE IF i \in settled THEN "settled"
  ELSE IF \E l \in leased : l.entry.id = i THEN "out"
  ELSE IF \E p \in DOMAIN pending : pending[p].id = i THEN "queued"
  ELSE "dropped"

(* The buffer implements EntryLifecycle: ids are given out in order, only  *)
(* a handed-out entry is settled, and a settled or dropped one stays so.   *)
Lifecycle == INSTANCE EntryLifecycle
  WITH Ids <- 0..MaxId - 1, status <- [i \in 0..MaxId - 1 |-> StatusOf(i)]
LifecycleSpec == Lifecycle!Spec

-----------------------------------------------------------------------------
(***************************************************************************)
(* What a comment of the source says and the code does not do.             *)
(***************************************************************************)

(* "a bounded in-memory ring buffer" (src/src/queue.rs:6-7) of capacity    *)
(* max_entries (src/src/config.rs:85): leased entries do not count, and    *)
(* take_at requeues expired ones without looking at the capacity.          *)
WithinCapacity == Len(pending) <= MaxEntries
=============================================================================
