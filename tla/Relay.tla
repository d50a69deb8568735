------------------------------- MODULE Relay -------------------------------
(***************************************************************************)
(* Queue mode from end to end: the homeserver posts notifications to the   *)
(* queue side (notify and queue_one in src/src/gateway.rs), the poll side  *)
(* leases batches of them, delivers them and acknowledges what is settled  *)
(* (poll_once in src/src/poller.rs, deliver_one), over connections that    *)
(* lose and delay answers and acknowledgements, and with restarts of both  *)
(* sides, which keep everything in memory.                                 *)
(*                                                                         *)
(* A notification is for one device and carries an event_id: fan-out is    *)
(* the subject of Gateway, badges and the order of the buffer are that of  *)
(* RelayQueue.  The queue side has no provider for any of the devices, so  *)
(* that all of them are queued; the poll side may lack one, too, and stays *)
(* configured as one of Configs.  Both records are large enough not to     *)
(* evict; the one of rejected pushkeys outlasts the behaviour.  The        *)
(* homeserver, the push service and the network are external: they are     *)
(* modelled by what the code expects of them.                              *)
(***************************************************************************)
EXTENDS Integers, FiniteSets

CONSTANTS
  Events,            \* the notifications
  Idle,              \* a value that is no event: a handler has nothing to do
  Devices,           \* (app_id, pushkey) pairs
  Target,            \* event -> its device
  Configs,           \* what the poll side may be like
  Handlers,          \* notify requests that may be handled at a time
  MaxEntries,        \* QueueConfig.max_entries
  EntryTTL,          \* QueueConfig.entry_ttl_secs
  Lease,             \* QueueConfig.lease_secs
  Window,            \* Config.dedup_ttl_secs, on both sides
  MaxBatch,          \* PollUpstream.max_batch
  MaxRestarts,       \* bound: restarts of either side
  MaxId,             \* bound: entries enqueued by one process
  MaxWire,           \* bound: acknowledgements under way at a time
  MaxPushes,         \* bound: pushes of an event that are accepted
  MaxTime            \* bound: the clock stops here

ASSUME TargetAssumption == Idle \notin Events /\ Target \in [Events -> Devices]
\* The devices whose app has no provider on the poll side, what becomes of
\* their pushkeys, and the events whose entry the poll side cannot read.
ASSUME ConfigsAssumption ==
  Configs \subseteq [unknown : SUBSET Devices, reject_unknown_apps : BOOLEAN,
                     unreadable : SUBSET Events]
ASSUME LimitsAssumption ==
  /\ MaxEntries \in Nat \ {0} /\ MaxBatch \in Nat \ {0}
  /\ EntryTTL \in Nat /\ Lease \in Nat /\ Window \in Nat
ASSUME BoundsAssumption ==
  /\ MaxRestarts \in Nat
  /\ MaxId \in Nat /\ MaxWire \in Nat /\ MaxPushes \in Nat /\ MaxTime \in Nat

VARIABLES
  now,           \* the clock
  answer,        \* what the homeserver has heard about each event
  dead,          \* devices whose pushkey the push service has invalidated
  \* the queue side
  handling,      \* handler -> the event it is about to enqueue, or Idle
  next_id,       \* Inner.next_id
  waiting,       \* Inner.pending, without its order
  leased,        \* Inner.leased
  queue_record,  \* AppState.dedup: when the window of an event opened
  reported,      \* QueueState.rejected
  reporting,     \* pushkeys queue_ack has yet to report
  \* the poll side
  config,        \* one of Configs
  work,          \* entries of the batch that are not begun
  sending,       \* the entry that awaits the push service, if any
  ack,           \* AckRequest under construction
  poll_record,   \* AppState.dedup of the poll side
  wire,          \* acknowledgements under way
  \* history
  boot,          \* restarts of the queue side so far
  reboots,       \* restarts of the poll side so far
  pushes,        \* pushes accepted, per event
  pushedAt,      \* when the last push was, unless a repeat is excused
  condemned,     \* events whose pushkey was rejected
  refused,       \* events refused by the provider, without one, or unreadable
  excused        \* events lost for a reason the design accepts

queueSide == <<handling, next_id, waiting, leased, queue_record, reported, reporting>>
pollSide == <<config, work, sending, ack, poll_record>>
restarts == <<boot, reboots>>
fate == <<pushes, pushedAt, condemned, refused>>
vars == <<now, answer, dead, queueSide, pollSide, wire, restarts, fate, excused>>

Never == -1

\* `boot` is history: a request says nothing about the process it is meant for.
Ack == [acked : SUBSET Nat, rejected : SUBSET Devices, boot : Nat]
NoAck == [acked |-> {}, rejected |-> {}, boot |-> boot]

Entry == [id : Nat, event : Events, enqueued : Nat]
Lessee == [deadline : Nat, entry : Entry]
EventsOf(S) == {x.event : x \in S}
Held == waiting \cup {l.entry : l \in leased}

TypeOK ==
  /\ now \in 0..MaxTime
  /\ answer \in [Events -> {"none", "ok", "rejected"}]
  /\ dead \subseteq Devices
  /\ handling \in [Handlers -> Events \cup {Idle}]
  /\ next_id \in 0..MaxId
  /\ waiting \subseteq Entry
  /\ leased \subseteq Lessee
  /\ queue_record \in [Events -> 0..now \cup {Never}]
  /\ reported \cup reporting \subseteq Devices
  /\ config \in Configs
  /\ work \cup sending \subseteq Entry
  /\ Cardinality(sending) <= 1
  /\ ack \in Ack
  /\ poll_record \in [Events -> 0..now \cup {Never}]
  /\ wire \subseteq Ack /\ Cardinality(wire) <= MaxWire
  /\ boot \in Nat /\ reboots \in Nat /\ boot + reboots <= MaxRestarts
  /\ pushes \in [Events -> 0..MaxPushes]
  /\ pushedAt \in [Events -> 0..now \cup {Never}]
  /\ condemned \cup refused \cup excused \subseteq Events

Forgotten == [e \in Events |-> Never]

Init ==
  /\ now = 0
  /\ answer = [e \in Events |-> "none"]
  /\ dead = {}
  /\ handling = [h \in Handlers |-> Idle]
  /\ next_id = 0
  /\ waiting = {} /\ leased = {}
  /\ queue_record = Forgotten
  /\ reported = {} /\ reporting = {}
  /\ config \in Configs
  /\ work = {} /\ sending = {}
  /\ boot = 0 /\ reboots = 0
  /\ ack = NoAck
  /\ poll_record = Forgotten
  /\ wire = {}
  /\ pushes = [e \in Events |-> 0]
  /\ pushedAt = Forgotten
  /\ condemned = {} /\ refused = {} /\ excused = {}

-----------------------------------------------------------------------------
(***************************************************************************)
(* Helpers.  A definition that follows "Mistake:" is not part of the       *)
(* model: it is a slip the properties are known to catch when it stands in *)
(* for the definition after it.                                            *)
(***************************************************************************)

\* DedupCache.is_duplicate; see DedupCache for the cache in full.
Duplicate(record, e) == record[e] # Never /\ now - record[e] < Window

\* Mistake: nothing is recorded.
NotRecorded(record, e) == record

\* DedupCache.record: an open window stays as it is, and without windows
\* nothing is recorded.
Recorded(record, e) ==
  IF Window = 0 \/ Duplicate(record, e) THEN record ELSE [record EXCEPT ![e] = now]

Outlived(x) == now - x.enqueued >= EntryTTL

\* What take_at looks at: what waits, and what comes back from a lease.
Expired == {l \in leased : l.deadline <= now}
Returned == {l.entry : l \in Expired}
Line == waiting \cup {x \in Returned : ~Outlived(x)}

\* The homeserver may not hear an answer, and heeds the first one only.
Answer(e, what) ==
  \/ UNCHANGED answer
  \/ answer[e] = "none" /\ answer' = [answer EXCEPT ![e] = what]

\* The homeserver deletes the pushers of rejected pushkeys.
Deleted == {Target[e] : e \in {f \in Events : answer[f] = "rejected"}}

-----------------------------------------------------------------------------
(***************************************************************************)
(* The queue side: notify and queue_one.  Nothing is awaited, but requests *)
(* are handled in parallel, so others come in after the checks.            *)
(***************************************************************************)

\* Feedback on rejected pushkeys and duplicate suppression.
Notify(h, e) ==
  /\ answer[e] = "none" /\ Target[e] \notin Deleted
  /\ handling[h] = Idle
  /\ \/ /\ Target[e] \in reported
        /\ Answer(e, "rejected") /\ UNCHANGED handling
     \/ /\ Target[e] \notin reported /\ Duplicate(queue_record, e)
        /\ Answer(e, "ok") /\ UNCHANGED handling
     \/ /\ Target[e] \notin reported /\ ~Duplicate(queue_record, e)
        /\ handling' = [handling EXCEPT ![h] = e] /\ UNCHANGED answer
  /\ UNCHANGED <<now, dead, next_id, waiting, leased, queue_record, reported,
                 reporting, pollSide, wire, restarts, fate, excused>>

\* enqueue, where a full buffer evicts (which entries is a matter of its
\* order), and record: nobody can tell what comes between the two from what
\* comes before them.
Enqueue(h, e) == \E evicted \in SUBSET waiting :
  /\ handling[h] = e
  /\ next_id < MaxId
  /\ Cardinality(waiting \ evicted) < MaxEntries
  /\ evicted # {} => Cardinality(waiting \ evicted) = MaxEntries - 1
  /\ waiting' = (waiting \ evicted) \cup
       {[id |-> next_id, event |-> e, enqueued |-> now]}
  /\ next_id' = next_id + 1
  /\ excused' = excused \cup EventsOf(evicted)
  /\ queue_record' = Recorded(queue_record, e)
  /\ Answer(e, "ok")
  /\ handling' = [handling EXCEPT ![h] = Idle]
  /\ UNCHANGED <<now, dead, leased, reported, reporting, pollSide, wire,
                 restarts, fate>>

-----------------------------------------------------------------------------
(***************************************************************************)
(* A poll: take_at leases a batch, and poll_once begins with it, unless    *)
(* the answer is lost or the client has stopped waiting for it.            *)
(***************************************************************************)
PollerIdle == work = {} /\ sending = {} /\ ack.acked = {} /\ ack.rejected = {}

\* take_at pops entries until the batch is full or the buffer is empty.
Poll == \E popped \in SUBSET Line :
  LET batch == {x \in popped : ~Outlived(x)}
      aged  == {x \in Returned \cup popped : Outlived(x)}
  IN  /\ Cardinality(batch) <= MaxBatch
      /\ Cardinality(batch) < MaxBatch => popped = Line
      /\ waiting' = Line \ popped
      /\ leased' = (leased \ Expired) \cup
           {[deadline |-> now + Lease, entry |-> x] : x \in batch}
      /\ excused' = excused \cup EventsOf(aged)
      /\ \/ PollerIdle /\ work' = batch /\ ack' = NoAck
         \/ UNCHANGED <<work, ack>>
      /\ UNCHANGED <<now, answer, dead, handling, next_id, queue_record, reported,
                     reporting, config, sending, poll_record, wire, restarts, fate>>

-----------------------------------------------------------------------------
(***************************************************************************)
(* The poll side: the loop of poll_once with deliver_one.  Entries are     *)
(* delivered one after the other.                                          *)
(***************************************************************************)
Acked(x) == [ack EXCEPT !.acked = @ \cup {x.id}]
Condemning(x) == [Acked(x) EXCEPT !.rejected = @ \cup {Target[x.event]}]

Begun(x) == sending = {} /\ x \in work /\ work' = work \ {x}
Sent(x) == x \in sending /\ sending' = sending \ {x}

\* What no step of the poll side on an entry changes.
environment == <<now, answer, dead, queueSide, config, wire, restarts, excused>>

Readable(x) == x.event \notin config.unreadable
Known(x) == Target[x.event] \notin config.unknown

\* An entry that cannot be read must not come back for ever.
Discard(x) ==
  /\ Begun(x) /\ ~Readable(x)
  /\ ack' = Acked(x)
  /\ refused' = refused \cup {x.event}
  /\ UNCHANGED <<environment, sending, poll_record, pushes, pushedAt, condemned>>

\* Without a provider nothing is delivered: the pushkey is rejected, or the
\* entry is settled as if it were.
RejectUnknown(x) ==
  /\ Begun(x) /\ Readable(x) /\ ~Known(x) /\ config.reject_unknown_apps
  /\ ack' = Condemning(x)
  /\ condemned' = condemned \cup {x.event}
  /\ UNCHANGED <<environment, sending, poll_record, pushes, pushedAt, refused>>

SkipUnknown(x) ==
  /\ Begun(x) /\ Readable(x) /\ ~Known(x) /\ ~config.reject_unknown_apps
  /\ ack' = Acked(x)
  /\ refused' = refused \cup {x.event}
  /\ UNCHANGED <<environment, sending, poll_record, pushes, pushedAt, condemned>>

\* A duplicate is settled without being delivered again.
Begin(x) ==
  /\ Begun(x) /\ Readable(x) /\ Known(x)
  /\ IF Duplicate(poll_record, x.event)
       THEN ack' = Acked(x) /\ UNCHANGED sending
       ELSE sending' = {x} /\ UNCHANGED ack
  /\ UNCHANGED <<environment, poll_record, fate>>

Pushed(x) ==
  /\ Target[x.event] \notin dead
  /\ pushes[x.event] < MaxPushes
  /\ pushes' = [pushes EXCEPT ![x.event] = @ + 1]

Accept(x) ==
  /\ Sent(x) /\ Pushed(x)
  /\ poll_record' = Recorded(poll_record, x.event)
  /\ pushedAt' = [pushedAt EXCEPT ![x.event] = now]
  /\ ack' = Acked(x)
  /\ UNCHANGED <<environment, work, condemned, refused>>

\* Mistake: a failed delivery is acknowledged, too.
AckOfFailed(x) == Acked(x)

\* The entry is left to the lease: it is handed out again when that is over.
AckAfterFailure(x) == ack

Fail(x) ==
  /\ Sent(x)
  /\ ack' = AckAfterFailure(x)
  /\ UNCHANGED <<environment, work, poll_record, fate>>

\* The push is accepted, but the reply is lost: deliver reports a failure.
AcceptUnheard(x) ==
  /\ Sent(x) /\ Pushed(x)
  /\ pushedAt' = [pushedAt EXCEPT ![x.event] = Never]
  /\ ack' = AckAfterFailure(x)
  /\ UNCHANGED <<environment, work, poll_record, condemned, refused>>

Reject(x) ==
  /\ Sent(x) /\ Target[x.event] \in dead
  /\ ack' = Condemning(x)
  /\ condemned' = condemned \cup {x.event}
  /\ UNCHANGED <<environment, work, poll_record, pushes, pushedAt, refused>>

\* Mistake: a notification that is refused counts against the pushkey.
AckCondemning(x) == Condemning(x)

AckAfterSkip(x) == Acked(x)

Skip(x) ==
  /\ Sent(x)
  /\ ack' = AckAfterSkip(x)
  /\ refused' = refused \cup {x.event}
  /\ UNCHANGED <<environment, work, poll_record, pushes, pushedAt, condemned>>

\* After the batch; poll_once does not wait for ever for the reply, so the
\* request may still be under way when the next poll goes out, or be lost.
Acknowledge ==
  /\ work = {} /\ sending = {} /\ ~PollerIdle
  /\ \/ Cardinality(wire) < MaxWire /\ wire' = wire \cup {ack}
     \/ UNCHANGED wire
  /\ ack' = NoAck
  /\ UNCHANGED <<now, answer, dead, queueSide, config, work, sending, poll_record,
                 restarts, fate, excused>>

-----------------------------------------------------------------------------
(***************************************************************************)
(* The queue side: queue_ack settles entries first, then reports pushkeys. *)
(***************************************************************************)

\* Mistake: the list of rejected pushkeys is not looked at.
ListedNowhere(m) == {}

Listed(m) == m.rejected

Settle(m) ==
  LET settled == {l \in leased : l.entry.id \in m.acked}
  IN  /\ m \in wire /\ reporting = {}
      /\ wire' = wire \ {m}
      /\ leased' = leased \ settled
      /\ reporting' = Listed(m)
      /\ excused' = excused \cup
           (IF m.boot = boot THEN {} ELSE {l.entry.event : l \in settled})
      /\ UNCHANGED <<now, answer, dead, handling, next_id, waiting, queue_record,
                     reported, pollSide, restarts, fate>>

Report ==
  /\ reporting # {}
  /\ reported' = reported \cup reporting
  /\ reporting' = {}
  /\ UNCHANGED <<now, answer, dead, handling, next_id, waiting, leased, queue_record,
                 pollSide, wire, restarts, fate, excused>>

-----------------------------------------------------------------------------
(***************************************************************************)
(* Restarts, the push service and the clock.                               *)
(***************************************************************************)

\* AppState::new: an empty buffer, and ids start at zero again.
QueueRestart ==
  /\ boot + reboots < MaxRestarts
  /\ boot' = boot + 1
  /\ handling' = [h \in Handlers |-> Idle]
  /\ next_id' = 0
  /\ waiting' = {} /\ leased' = {}
  /\ queue_record' = Forgotten
  /\ reported' = {} /\ reporting' = {}
  /\ excused' = excused \cup EventsOf(Held) \cup condemned
  /\ UNCHANGED <<now, answer, dead, pollSide, wire, reboots, fate>>

PollRestart ==
  /\ boot + reboots < MaxRestarts
  /\ reboots' = reboots + 1
  /\ work' = {} /\ sending' = {} /\ ack' = NoAck
  /\ poll_record' = Forgotten
  /\ pushedAt' = Forgotten
  /\ UNCHANGED <<now, answer, dead, queueSide, config, wire, boot, pushes, condemned,
                 refused, excused>>

Invalidate(d) ==
  /\ dead' = dead \cup {d}
  /\ UNCHANGED <<now, answer, queueSide, pollSide, wire, restarts, fate, excused>>

Tick ==
  /\ now < MaxTime
  /\ now' = now + 1
  /\ UNCHANGED <<answer, dead, queueSide, pollSide, wire, restarts, fate, excused>>

Next ==
  \/ \E h \in Handlers, e \in Events :
       Notify(h, e) \/ Enqueue(h, e)
  \/ Poll
  \/ \E x \in work \cup sending :
       \/ Discard(x) \/ RejectUnknown(x) \/ SkipUnknown(x) \/ Begin(x)
       \/ Accept(x) \/ AcceptUnheard(x) \/ Fail(x) \/ Reject(x) \/ Skip(x)
  \/ Acknowledge \/ Report
  \/ \E m \in wire : Settle(m)
  \/ QueueRestart \/ PollRestart \/ Tick
  \/ \E d \in Devices : Invalidate(d)

Spec == Init /\ [][Next]_vars

-----------------------------------------------------------------------------
(***************************************************************************)
(* Properties.                                                             *)
(***************************************************************************)

(* What became of an event in the end, as far as the poll side can tell.   *)
Disposed(e) == pushes[e] > 0 \/ e \in refused \/ e \in condemned

(* At-least-once, end to end: an event the homeserver was told is fine is  *)
(* in the buffer until it has been pushed, passed over or rejected, each   *)
(* for good.  What the design accepts as lost is lost only by age, by an   *)
(* eviction or by a restart of the queue side (and by an acknowledgement   *)
(* that was meant for the process before; see SettledIsDisposed).          *)
NothingForgotten ==
  \A e \in Events :
    answer[e] = "ok" => e \in EventsOf(Held) \/ Disposed(e) \/ e \in excused

(* The verdict on a pushkey is not lost with an acknowledgement: the queue *)
(* side knows of it, or still holds the entry that will bring it up again  *)
(* (queue_ack, and poll_once, which lists the pushkey and the entry in one *)
(* acknowledgement).  The exception is an entry that went out again        *)
(* although an earlier delivery had been good, so that the acknowledgement *)
(* of that one may settle it.                                              *)
VerdictSurvives ==
  \A e \in condemned :
    \/ Target[e] \in reported \cup reporting
    \/ e \in EventsOf(Held)
    \/ e \in excused
    \/ pushes[e] > 0 \/ e \in refused

(* A repeated push needs a reason: the reply to the last one was lost, the *)
(* poll side has restarted since, or its record is older than the window.  *)
(* Repetitions by the homeserver, overlapping requests, lost answers to    *)
(* polls, lost acknowledgements and leases that end during a delivery are  *)
(* all absorbed (queue_one, deliver_one).                                  *)
RepeatsHaveReasons ==
  [][\A e \in Events :
       pushes'[e] > pushes[e] /\ pushedAt[e] # Never
         => now - pushedAt[e] >= Window]_vars

(* The homeserver deletes a pusher only if the push service has declared  *)
(* its pushkey dead or, where reject_unknown_apps is set, the poll side    *)
(* has no provider for its app: what fails, is refused or cannot be read   *)
(* never costs a user a pusher.  The way is that through the poll side's   *)
(* acknowledgement and the queue side's record (deliver_one, queue_ack,    *)
(* queue_one).                                                             *)
Rejectable == dead \cup (IF config.reject_unknown_apps THEN config.unknown ELSE {})
OnlyDeadRejected == Deleted \subseteq Rejectable

-----------------------------------------------------------------------------
(***************************************************************************)
(* What comments of the source say and the code does not do.               *)
(***************************************************************************)

(* Acknowledged are "entry ids whose delivery is settled (delivered,       *)
(* suppressed, skipped, or rejected); unlisted entries redeliver after the *)
(* lease expires" (src/src/queue.rs:64-65), and "unknown ids ... are       *)
(* ignored" (src/src/queue.rs:305-306).  But ids start at zero again after *)
(* a restart, so that an acknowledgement meant for the process before      *)
(* settles another entry, whatever becomes of its delivery.                *)
SettledIsDisposed ==
  [][\A l \in leased :
       l.entry \notin Held' /\ boot' = boot /\ ~Outlived(l.entry)
         => Disposed(l.entry.event)]_vars
=============================================================================
