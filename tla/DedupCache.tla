----------------------------- MODULE DedupCache -----------------------------
(***************************************************************************)
(* The record of recent deliveries: struct DedupCache in src/src/dedup.rs. *)
(* It suppresses retries (event_id, app_id, pushkey) in the notify         *)
(* pipeline and, with an empty event_id, is the queue side's record of     *)
(* rejected pushkeys (QueueState.rejected in src/src/queue.rs).            *)
(*                                                                         *)
(* Both operations read Instant::now() before they take the mutex, so a    *)
(* recording may be stamped up to Skew earlier than one already made, and  *)
(* the insertion order is then not the order of the stamps.                *)
(***************************************************************************)
EXTENDS Integers, Sequences, FiniteSets

CONSTANTS
  Keys,        \* the triples deliveries are recorded under
  TTL,         \* DedupCache.ttl; zero disables the cache
  MaxEntries,  \* DedupCache.max_entries
  Skew,        \* how long an operation may wait for the mutex
  MaxTime      \* bound: the clock stops here

ASSUME LimitsAssumption == TTL \in Nat /\ MaxEntries \in Nat /\ Skew \in Nat
ASSUME BoundAssumption == MaxTime \in Nat

VARIABLES
  now,    \* the clock
  seen,   \* Inner.seen: when the window of a key opened, or Never
  order   \* Inner.order: <<stamp, key>> in insertion order

vars == <<now, seen, order>>

Never == -1

Recording == [at : Nat, key : Keys]

TypeOK ==
  /\ now \in Nat
  /\ seen \in [Keys -> Nat \cup {Never}]
  /\ order \in Seq(Recording)

Init ==
  /\ now = 0
  /\ seen = [k \in Keys |-> Never]
  /\ order = <<>>

-----------------------------------------------------------------------------
(***************************************************************************)
(* Helpers.  A definition that follows "Mistake:" is not part of the       *)
(* model: it is a slip the properties are known to catch when it stands in *)
(* for the definition after it.                                            *)
(***************************************************************************)

\* Instant::now() as an operation may have read it.
Stamps == {t \in 0..now : now - t <= Skew}

\* Instant::duration_since saturates at zero.
Within(t, at) == t < at \/ t - at < TTL

Recorded(s) == {k \in DOMAIN s : s[k] # Never}

\* is_duplicate_at: read-only, and false for every key when TTL is zero.
IsDuplicate(t, k) == TTL # 0 /\ seen[k] # Never /\ Within(t, seen[k])

\* Mistake: a popped entry takes its key along whatever `seen` says of it.
PoppedUnchecked(s, q, n) ==
  [k \in Keys |-> IF \E i \in 1..n : q[i].key = k THEN Never ELSE s[k]]

\* Popping the first n entries of q forgets the keys they still speak for.
Popped(s, q, n) ==
  [k \in Keys |->
     IF \E i \in 1..n : q[i] = [at |-> s[k], key |-> k] THEN Never ELSE s[k]]

\* The expiry loop pops n entries: all expired, up to the first that is not.
Prunes(t, n) ==
  /\ \A i \in 1..n : ~Within(t, order[i].at)
  /\ n < Len(order) => Within(t, order[n + 1].at)

\* Mistake: "if over the cap, pop one" instead of "while over the cap, pop".
CapsOnce(s, q, n) ==
  n = IF q # <<>> /\ Cardinality(Recorded(s)) > MaxEntries THEN 1 ELSE 0

\* Mistake: the cap is compared with the entries, of which some are stale.
CapsEntries(s, q, n) == n = IF Len(q) > MaxEntries THEN Len(q) - MaxEntries ELSE 0

\* The eviction loop pops n entries: while the keys exceed the cap.
Caps(s, q, n) ==
  LET over(m) == Cardinality(Recorded(Popped(s, q, m))) > MaxEntries
  IN  (over(n) => n = Len(q)) /\ \A m \in 0..n - 1 : over(m)

-----------------------------------------------------------------------------
(***************************************************************************)
(* The operations.  is_duplicate changes nothing; see IsDuplicate.         *)
(***************************************************************************)

\* Mistake: a repeated delivery opens a new window.
RecordExtends(k) == \E t \in Stamps, n \in 0..Len(order) :
  LET alive == Popped(seen, order, n)
      rest  == SubSeq(order, n + 1, Len(order))
      s     == [alive EXCEPT ![k] = t]
      q     == Append(rest, [at |-> t, key |-> k])
  IN  /\ TTL # 0
      /\ Prunes(t, n)
      /\ \E m \in 0..Len(q) :
           /\ Caps(s, q, m)
           /\ seen' = Popped(s, q, m)
           /\ order' = SubSeq(q, m + 1, Len(q))
      /\ UNCHANGED now

\* record_at: expire, then open a window unless one is open, then evict.
Record(k) == \E t \in Stamps, n \in 0..Len(order) :
  LET alive == Popped(seen, order, n)
      rest  == SubSeq(order, n + 1, Len(order))
      s     == [alive EXCEPT ![k] = t]
      q     == Append(rest, [at |-> t, key |-> k])
      open  == alive[k] # Never /\ Within(t, alive[k])
  IN  /\ TTL # 0
      /\ Prunes(t, n)
      /\ \/ /\ open
            /\ seen' = alive
            /\ order' = rest
         \/ /\ ~open
            /\ \E m \in 0..Len(q) :
                 /\ Caps(s, q, m)
                 /\ seen' = Popped(s, q, m)
                 /\ order' = SubSeq(q, m + 1, Len(q))
      /\ UNCHANGED now

Tick ==
  /\ now < MaxTime
  /\ now' = now + 1
  /\ UNCHANGED <<seen, order>>

Next ==
  \/ \E k \in Keys : Record(k)
  \/ Tick

Spec == Init /\ [][Next]_vars

-----------------------------------------------------------------------------
(***************************************************************************)
(* Properties.                                                             *)
(***************************************************************************)

(* Every recorded key has exactly one entry in `order` that speaks for it. *)
(* Without one the key could never be expired or evicted; with two, the    *)
(* second would outlive it (record_at, both pop loops).                    *)
SpokenForOnce ==
  \A k \in Recorded(seen) :
    Cardinality({i \in DOMAIN order : order[i] = [at |-> seen[k], key |-> k]}) = 1

(* The cache holds at most max_entries keys, and `order` at most one stale *)
(* entry per key on top, which only late stamps can leave behind.          *)
Bounded ==
  /\ Cardinality(Recorded(seen)) <= MaxEntries
  /\ \A k \in Keys : Cardinality({i \in DOMAIN order : order[i].key = k}) <= 2

(* The window of a key stays open, and stays anchored to its first         *)
(* recording, until it has run its time; only the eviction of the oldest   *)
(* recordings from a full cache may cut it short, and then every key that  *)
(* is kept was recorded no more than a late stamp earlier (record_at).     *)
Full == Cardinality(Recorded(seen)) >= MaxEntries
WindowAnchored ==
  [][\A k \in Recorded(seen) :
       seen'[k] # seen[k] =>
         \/ ~Within(now, seen[k])
         \/ /\ Full
            /\ seen'[k] = Never
            /\ \A j \in Recorded(seen') : seen'[j] >= seen[k] - Skew]_vars

(* The cache implements DeliveryRecord, which knows of no order: what is   *)
(* recorded is recognized until its window ends or older ones have made    *)
(* room, and no more than have to make room do (record_at).                *)
Deliveries == INSTANCE DeliveryRecord
  WITH opened <- seen, Capacity <- MaxEntries, Lateness <- Skew
DeliverySpec == Deliveries!Spec
=============================================================================
