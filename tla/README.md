# A TLA+ model of pincerbell

Pincerbell is a Matrix push gateway.  A homeserver posts notifications to it; it
delivers them to the push services (APNs, FCM, WebPush), or, in queue mode, keeps
them until another instance, the poll side, fetches and delivers them.  This
directory models the parts of it that decide whether a notification arrives,
arrives once, arrives in time and says what it should: the buffer of the queue side,
the long poll, the record of recent deliveries, the notify pipeline in both modes,
the loop of the poll side, the delivery backends and what they send, and the start
of the program.  TLC checks every property on small instances; TLAPS proves every
safety property among them, of each component and of queue mode end to end, for all
sizes; what must eventually happen is model-checked.

Paths below are relative to `src/src/` of the repository.

## Inventory

| part | state | operations | calls |
|---|---|---|---|
| notification queue (`queue.rs`) | `next_id`, `pending`, `count_index`, `leased` under one mutex | `enqueue`, `take_at` (by `poll_wait`), `ack` | called by `queue_one`, `queue_poll`, `queue_ack` |
| long poll (`queue.rs`, `poll_wait`) | one future per waiting poll, `Notify` | register, look, await; notified, timed out or dropped | woken by `enqueue` |
| duplicate suppression (`dedup.rs`) | `seen`, `order` under one mutex | `is_duplicate`, `record` | `deliver_one`, `queue_one`, `report_rejected`, `is_rejected` |
| notify pipeline, direct (`gateway.rs`) | per request: the stage of each device | `notify`, `deliver_one` | dedup record, providers |
| notify pipeline, queue mode (`gateway.rs`) | the queue, the record of rejected pushkeys | `queue_one`, `queue_poll`, `queue_ack` | queue, dedup record |
| queue authentication (`gateway.rs`, `queue.rs`) | the digest of the token | `queue_auth`, `verify_token` | before `queue_poll`, `queue_ack` |
| poll side (`poller.rs`) | per upstream: client, token, backoff; per batch: the acknowledgement | `Upstream::load`, `run`, `health_check`, `poll_once` | queue side over HTTP, `deliver_one` |
| providers (`provider.rs`, `apns.rs`, `fcm.rs`, `webpush.rs`) | cached access tokens | `deliver`, `bearer_token`, `access_token`, constructors | push services |
| API types (`api.rs`) | none | what (de)serialization keeps of a notification, defaults | homeserver, queue entries, backends |
| configuration (`config.rs`) | none | `load`, inheritance and opt-out of HTTP options | `main`, constructors |
| start (`main.rs`) | where `main` is, the tasks it has spawned | arguments, load, build, spawn, bind, serve, shut down | all of the above |

How they interact.  The homeserver repeats a request until it is answered 200; a
200 carries the pushkeys to delete.  `notify` runs `deliver_one` for all devices
concurrently.  In queue mode `queue_one` puts a device's notification into the
buffer; a poll leases entries to the poll side for a fixed time; the poll side runs
`deliver_one` for each and acknowledges what is settled; what is not acknowledged
is leased again later.  Rejected pushkeys travel back with the acknowledgement and
reach the homeserver with the next notification for that device.  `main` builds
everything the configuration names before it spawns the poll side and serves.

What is hard.  Handlers run concurrently, and every `await` lets others in: between
the duplicate check, the delivery and the recording, and between the look at the
buffer and the wait for an arrival.  Every operation on the buffer and on the
record reads the clock before it takes the mutex, so times are used out of order.
Leases expire while their entries are being delivered, and acknowledgements come
late, twice or never.  Badge updates without an event id replace each other while
older ones are leased.  The poll side waits with timeouts for a server that holds
its polls.  What a notification says crosses a serialization and three backends that
each list its fields.  `PROJECT.json` lists the hazards at their lines.

What makes each part correct.

* Queue: an entry is in one place at a time, and disappears only for a reason the
  design accepts; a lease is exclusive; a poll hands out nothing obsolete; the
  badge index neither leaks nor loses a badge; the capacity is kept by arrivals.
* Long poll: no arrival is missed, every poll is answered, redelivery happens.
* Duplicate suppression: windows are anchored and evicted oldest first; the two
  containers stay consistent and bounded.
* Queue mode: what the homeserver was told is fine is pushed or accounted for; a
  verdict on a pushkey gets back to the homeserver, and nothing else costs a pusher;
  repeats have reasons; the push services get the requests that direct mode would have
  sent them.
* Notify pipeline: repeats have reasons, only dead pushkeys are rejected (and those of
  unknown apps, if so configured), a 200 covers every device and comes in the end.
* Poll side: it backs off from errors and from nothing else, never falls silent, and
  fetches what waits.
* Providers: a refused token is not used again, tokens go out in time and to their
  origin, each reply gets the outcome it deserves, a subscription is contacted at
  listed hosts only, and all apps learn the same.
* Start: what is wrong with a configuration stops the program before it works; each
  upstream is reached as configured; equal tokens meet; a signal ends the program.

## Modules

| module | models | role |
|---|---|---|
| `EntryLifecycle` | the promise of the queue side about one entry | abstract specification |
| `RelayQueue` | `NotificationQueue`: `enqueue_at`, `take_at`, `ack` | component; implements `EntryLifecycle` |
| `LongPoll` | `poll_wait`, `enqueue`, `Notify` | component |
| `DeliveryRecord` | the promise of the record of deliveries | abstract specification |
| `DedupCache` | `DedupCache` | component; implements `DeliveryRecord` |
| `Gateway` | `notify`, `deliver_one`, the homeserver and push services around them | component |
| `PollLoop` | `run`, `health_check`, `poll_once` and `queue_poll` in time | component |
| `Providers` | `deliver` and the token caches of `ApnsApp`, `FcmApp`, `WebPushApp` | component |
| `Startup` | `main`, `http_options`, `http_client`, the constructors, `queue_auth` | component |
| `Relay` | queue mode: `queue_one`, `queue_poll`, `queue_ack`, `poll_once`, restarts | composition of the two sides |
| `Requests` | queue mode: what a notification says, from `NotifyRequest` to the requests of the backends | composition of the two sides |
| `RelayQueueProofs`, `RelayProofs`, `LongPollProofs`, `DedupProofs`, `GatewayProofs`, `PollLoopProofs`, `StartupProofs` | | theorems about the module of that name |
| `ProvidersProofs` | | theorems about `Providers` and `Requests` |
| `MC...` | | instances for TLC |

A definition that follows a comment `Mistake:` is no part of the model.  It is a slip
a programmer could make; put in the place of the definition after it, it violates a
property, which shows that the property depends on that piece of code.
`PROJECT.json` pairs each property of each run with such a slip.

### RelayQueue

`pending` is the sequence of entries, `leased` the set of the values of the map
`leased` (its keys repeat the ids in the values; `HeldOnce` says that they are
unique), `count_index` the map of the same name with `NoId` for an absent key.  The
payload is left out, as nothing in the buffer looks at it; `key` is the
`count_key`, `NoKey` for an entry with an event id.  Each operation holds the mutex
throughout and is one action: `Enqueue`, `Take`, `Ack`.  `Take` is written in the
two halves of `take_at`.  Expired leases are taken back, those still fit are put in
front in id order and those too old are forgotten (`Returned`, `Reclaimed`,
`ReclaimedIndex`, `Requeued`); then `HandOut` pops a prefix of the line, as long as
`StopsAfter` says, and leases what is fit in it.  `Tick` moves the clock; an action
works with any stamp at most `Skew` behind it, which is what reading
`Instant::now()` before waiting for the mutex amounts to.  `newest`, `served` and
`settled` are history: the last badge of each key, the largest id handed out, and
the ids that were acknowledged.

### LongPoll

`pc` is where a poll stands in the loop of `poll_wait`: creating the future
(`Register`), looking at the buffer (`Check`), awaiting; `Round` is the order of the
first two.  `Push` and `NotifyWaiters` are the two halves of `enqueue`;
`NotifyWaiters` wakes every future that exists and leaves no permit, as tokio
documents.  An entry has one status, and `lapses` counts its expired leases, so that
its TTL ends the redelivery after `MaxLapses`.  A poll whose client hangs up is
dropped where it awaits (`Cancel`).

### DedupCache

`seen` and `order` are the containers of the same name.  `Record` expires from the
front (`Prunes`), returns if the window is open, and otherwise inserts and evicts
(`Caps`); both loops forget a key only if the popped stamp is still its own
(`Popped`).  `IsDuplicate` changes nothing and is an operator.

`DeliveryRecord` is what the documentation of the cache promises, without `order`: a
recording within an open window leaves it alone, any other opens one, and if there are
then more than `Capacity`, exactly as many go as have to, the oldest first but for the
lateness of a stamp.  Windows that have run their time may be forgotten whenever
something is recorded, as the cache keeps some of them behind younger stamps.
`DeliverySpec` says that `DedupCache` implements it, and the records of `Relay` do, too
(with `Restart`).

### Gateway

One notification.  `listing` is its list of devices, which may name one twice;
`attempt` is the state of each request of the homeserver and `stage` that of each
position of the list in it: `Begin` is `deliver_one` up to the await of `deliver`, the
outcome actions (`Accept`, `Reject`, `Skip`, `Fail`) end the await, and `Resume` is the
rest.  `Respond` is the end of `notify`.  An attempt that the homeserver abandons runs
on beside the next one until the server notices (`GiveUp`, `Cancel`).  The push
service, the homeserver and the ends of connections are external.  The record is a set
that may forget at any time (`Forget`), up to a bound; `DedupCache` says when the real
one does.

### PollLoop

`phase` is what the loop of one upstream awaits: the health check, the answer to a
poll, the delivery of a batch, the reply to the acknowledgement, or the end of a
sleep.  `elapsed` is how long it has, and `Limit` how long it may.  `request` is where
the poll is: on its way out, held by `queue_poll`, or on its way back; `lag` is the time
it has spent on the way.  `PollArrives` and `HoldEnds` are `queue_poll`; `AnswerEmpty`
to `AckTimesOut` are the ends of the awaits of `poll_once`; `Succeed` and `Err` are the
two arms of `run`, whose sleep ends with `WakeUp`.  The upstream goes down and comes
back at any time (`GoDown`, `ComeUp`), which stands for everything that makes a
request fail, a refused token included.  Entries are counted only.

### Providers

One backend, of any of the three kinds.  `Begin` looks at the cache under the mutex;
`Issue` obtains a token with the mutex released, `Store` puts it into the cache,
`Reply` is the rest of `deliver` with the table of statuses (`Gone`, `Passing`,
`OutcomeOf`) and the discarding of the cache (`CachedAfter`).  Which replies a
service gives and why is external (`CausesFor`, `Replies`).  `Provider::Log` only
returns `Delivered` and is left out.  Times are on one scale: `Life - Margin` is
`TOKEN_MAX_AGE` for APNs, and `Life` and `Margin` are `expires_in` and
`TOKEN_REFRESH_MARGIN` for FCM, `VAPID_LIFETIME` and `VAPID_REFRESH_MARGIN` for WebPush.

### Startup

`main` from the command line to its exit code, one action per step: `Args`, `Load`,
`LoadUpstreams`, `BuildState`, `Spawn`, `Bind`, `Finish`.  A configuration is a record
with the three HTTP options, the backends, the upstreams and the queue; a file in it
stands for its content (missing, broken, or good).  `HttpOptions` and `OrElse` are the
inheritance of `PollUpstream::http_options`, `Client` and `ClientFails` what
`http_client` makes of the result.  After `Spawn` the tasks of the poll side present
their tokens (`Poll`, `AuthAnswer`), here to the queue of the same configuration, as the
two sides share nothing else.  `Interrupt` is control-C in any phase: the server's
handler turns it into a shutdown, before that it ends the process.

### Relay

The queue side and the poll side with everything in between.  `Notify` is `queue_one`
up to `enqueue`, `Enqueue` the rest of it; requests run in parallel (`handling`), so
that the look at the records and the recording are separate steps.  `Poll` is
`take_at` on the buffer, which here is a set: `RelayQueue` treats its order, and an
eviction or a short batch takes any entries.  A poll whose answer is lost leases
entries that nobody works on.  On the poll side `work` holds the rest of the batch,
`sending` the entry whose delivery is awaited and `ack` the acknowledgement so far.
`config` says which apps have no provider there, whether `reject_unknown_apps` is set,
and which entries `poll_once` cannot deserialize (those of another version, say).  An
entry is discarded unread (`Discard`), ends at the provider lookup (`RejectUnknown`,
`SkipUnknown`), or gets to the duplicate check and the await of `deliver_one` (`Begin`);
`Accept`, `Fail`, `Skip` and `Reject` are the rest, with the bookkeeping of
`poll_once`.  `Acknowledge` sends or loses the
acknowledgement, `wire` is what is under way, and `Settle` and `Report` are the two
halves of `queue_ack`.  `QueueRestart` and `PollRestart` lose what is in memory.
`pushes`, `pushedAt`, `condemned`, `refused` and `excused` are history, as is the
`boot` in an acknowledgement: the code has nothing of the kind.

### Requests

What one notification says on its way.  An object with optional fields is a function
on the fields that are present, a text is a model value, a host is a sequence of
letters.  `Serialized` is what the JSON of a notification keeps, `EntryFor` and
`CountKey` what `enqueue` makes of it.  `Message`, `ApnsPush` and `WebPush` are the
requests of the backends, with the allow-list (`Covers`, `EndpointAllowed`), and
`RequestFor` is the choice among them in `Provider::deliver`.  `QueueOne`, `Fetch` and
`Deliver` take the notification through the queue without losses, which `Relay` has.
The specification is `TransferSpec`, so that `ProvidersProofs` can extend this module
and `Providers` together.
Direct mode is `RequestFor(sent, d)`, with which `RelayTransparent` compares.
`badge` is external: iOS sets the badge a push carries and leaves it alone otherwise.

## Runs

| run | asks | bounds | distinct states |
|---|---|---|---|
| `queue` | `HeldOnce`, `BadgeIndexExact`, `FreshInOrder`, `HandsOutCurrent`, `NothingLostSilently`, `LeaseExclusive`, `ArrivalRestoresCapacity`, `LifecycleSpec` | 2 slots, 5 entries, 1 badge key, batches of 1 or 2, lease 1, TTL 2, time 3 | 106,000 |
| `queue_capacity` | a comment of the source the code does not keep | 2 slots, 4 entries, lease 2, TTL 4, time 5 | until violated |
| `dedup` | `SpokenForOnce`, `Bounded`, `WindowAnchored`, `DeliverySpec` | 4 keys, cap 3, TTL 3, skew 2, time 7 | 3,100 |
| `long_poll` | `NoMissedArrival`, `ArrivalsGoOut`, `EveryPollAnswered`, `RedeliveryHappens` | 2 polls, 2 entries, batches of 1 | 46,000 |
| `gateway` | `RepeatsHaveReasons`, `OnlyDeadRejected`, `SuccessIsComplete`, `EventuallyAnswered` | lists of 2 devices (two, one and one without provider, one twice), 2 attempts, 1 give-up, 1 mishap | 911,000 |
| `relay` | `NothingForgotten`, `VerdictSurvives`, `OnlyDeadRejected`, `RepeatsHaveReasons` | 1 event, 2 requests at a time, 1 slot, 2 entries, lease 1, window 2, TTL 3, 1 restart, 4 configurations, time 3 | 4,000,000 |
| `relay_restart` | `SettledIsDisposed`, which the code does not keep | 2 events, batches of 1, 1 restart | until violated |
| `providers` | `RefusedIsDiscarded`, `RightAudience`, `JustVerdicts`, `BearerInTime` | 2 deliveries, 2 origins, 3 tokens, life 3, margin 1, time 4 | 1,500,000 |
| `requests` | `RelayTransparent`, `OnlyCountsCoalesce`, `SameMetadata`, `EndpointsByLabel` | all pairs of 6 devices of 4 apps, 16 sets of fields, 5 counts, 3 priorities; hosts of up to 5 letters | 82,000 |
| `requests_badge` | `BadgeFollowsCounts`, which the code does not keep | the same | until violated |
| `poll_loop` | `BackoffDoubles`, `PolledPromptly`, `IdleIsNoError`, `FetchedEventually` | hold asked 3 and granted 2, slack 2, sleeps 1 to 5, batch size asked 0, 2 entries | 16,000 |
| `startup` | `FailsFast`, `ReachedAsConfigured`, `TokensMeet`, `ShutdownCompletes` | 7 command lines, 350 configurations, 2 open requests | 7,000 |

Why the bounds are enough.  In the queue runs the interesting interplay needs a
superseded badge, an eviction, a lease that expires and a second one, and two leases
that come back and overfill the buffer by two before a last arrival; five entries and
three units of time allow that.  The run has no late stamps: with them, a TTL that has
run out for one stamp has not for the next, and the state space is out of reach.
The proofs cover the safety properties for any `Skew`, as for any other bound.
`dedup` lets windows expire and open again in a full cache,
with stamps far enough apart to leave a stale order entry.  Two polls suffice for
the races of `LongPoll`, as waiters do not see each other; batches of one make them
compete.  `gateway` has each kind of device, and one overlapping attempt; the safety
properties are proved for any lists and numbers.  In `relay`
two requests for one event can both pass the duplicate check and put it into the buffer
twice, evicting each other or waiting side by side with a lease (its properties are
proved for any numbers of events, requests, restarts and acknowledgements under way, and
any configurations); the device has a provider on the poll side, or none in either
setting, or its entries cannot be read;
the times are ordered as the defaults are (lease < window < TTL) and each can pass
within the run.
The second
event of `relay_restart` is what an old acknowledgement is taken for.  `providers` has
enough tokens for two deliveries to overwrite each other's and a third to follow.
`requests` sends every kind of notification to every pair of devices, and one
notification to every host that five letters and dots can make, the shortest of
which are too short for the wildcard and the longest a label longer than it needs.
In `poll_loop` the client asks for a longer hold than it is granted and for batches of
nothing, and the longest sleep is no power of two.  `startup` varies one concern of
the configuration at a time, as no two of them meet in the code.

`CHECK_DEADLOCK FALSE` is set where the clock and the number of entries are bounded,
or where the homeserver has its answer, the notification its requests or the program
its end, and nothing need happen any more.

Fairness.  `RelayQueue`, `DedupCache`, `Relay`, `Providers` and `Requests` state safety
only.

* `LongPoll`: weak fairness of the steps of polls and of `NotifyWaiters` is the tokio
  runtime running tasks that are ready, and of `Arrive` the loop of the poll side,
  which polls again after every answer.  That timers fire is the premise `Timed` of the
  two properties that need it; `ArrivalsGoOut` does without.  `Cancel`, `Ack` and
  `LeaseExpires` are not fair.  `Wake` is only weakly fair although `select!` may take
  the other branch.
* `Gateway`: `Notify` is fair because homeservers retry, `Fail` because every provider
  client has a timeout, and a verdict of each service is strongly fair: a service that
  is asked again and again answers some day, though no two of them need to be up during
  the same attempt.
* `PollLoop`: time passes, timers fire, and a message under way on an upstream that is
  up arrives.  Failures and arrivals are not fair.
* `Startup`: `main` goes on, and every handler ends, polls by their hold and deliveries
  by the timeout of their client.  The signal and the tasks of the poll side are not
  fair.

What the violations show.

* `queue_capacity`: "a bounded in-memory ring buffer" (`queue.rs:6-7`) holds more than
  `max_entries` entries after leases have expired; the next arrival repairs it
  (`ArrivalRestoresCapacity`).
* `relay_restart`: "unlisted entries redeliver after the lease expires"
  (`queue.rs:64-65`).  But the queue side numbers its entries from zero after a restart
  (`queue.rs:194`), and `ack` asks for nothing but the number: an acknowledgement that
  was under way during the restart settles an entry which the poll side has not
  delivered, and the notification is lost.
* `requests_badge`: "Zero-valued counts are omitted on the wire, so absent means zero"
  (`api.rs:93-94`).  But a push to iOS carries a badge only if the count is present
  (`apns.rs:199-204`): when nothing is unread any more, the old number stays on the icon.

One more comment is imprecise without harm: expired leases are not always "the oldest
entries" (`queue.rs:261-262`), as a poll that takes only part of what came back lets a
younger entry be put in front of an older one later.  Redeliveries may be reordered
among themselves; entries never handed out are not (`FreshInOrder`).

## Proofs

All theorems hold for every value of the constants that meets the named assumptions of
the module, without symmetry and without the bounds of the runs.

`RelayQueueProofs`, from `LimitsAssumption` (the limits are natural numbers and polls ask
for at least one entry) and `BoundsAssumption`:

| theorem | property |
|---|---|
| `TypeCorrect` | `[]TypeOK` |
| `EntriesHeldOnce` | `[]HeldOnce` |
| `FreshStayInOrder` | `[]FreshInOrder` |
| `BadgeIndexIsExact` | `[]BadgeIndexExact` |
| `LeasesAreExclusive` | `LeaseExclusive` |
| `ArrivalsRestoreCapacity` | `ArrivalRestoresCapacity` |
| `PollsHandOutCurrent` | `HandsOutCurrent` |
| `NothingIsLostSilently` | `NothingLostSilently` |
| `KeepsThePromise` | `LifecycleSpec`, the refinement of `EntryLifecycle` |

The argument.  `HeldOnce` is not inductive alone: an arrival must find its id fresh
also among the settled ones (`SettledOld`), and the set of leases must be finite for
the order in which `take_at` requeues them to exist (`FinitelyLeased`).  With
`TypeOK` these make `PlaceInv`.  The step that matters is a poll, and all facts about
it come from one view of it: `TakeSplits` says that a poll lines the reclaimed
entries up before the waiting ones (`LineUp`) and splits the line after some entry
(`Split`).  No id is twice in the line, and none is that of a lease which goes on; so
splitting it cannot put an entry in two places.

`BadgeIndexExact` needs `BadgeSound`: no held badge of a key is newer than the newest,
and only a badge of the key is the newest one.  `TakeDrops` names what a poll drops,
and `DropKeepsBadges` says that a step which forgets only what it lets go of, and
forgets every newest badge it lets go of, keeps the index exact; poll and
acknowledgement are instances.  The same two lemmas give the action properties on
what is handed out and what is lost.

`KeepsThePromise` is the refinement.  As an entry is in one place (`PlaceInv`), its status
is told by where it is (`StatusTells`).  What is left to show is that a poll neither
settles nor revives (`TakeHolds`), and then that each operation makes the moves of the
abstract operation of its name (`EnqueueMoves`, `TakeMoves`, `AckMoves`).

`RelayProofs`, for any events, devices, handlers, limits, configurations of the poll
side, restarts and numbers of acknowledgements under way:

| theorem | property |
|---|---|
| `TypeCorrect` | `[]TypeOK` |
| `NothingIsForgotten` | `[]NothingForgotten` |
| `VerdictsReachTheQueue` | `[]VerdictSurvives` |
| `DeletedForGoodReason` | `[]OnlyDeadRejected` |
| `NoRepeatWithoutReason` | `RepeatsHaveReasons` |
| `QueueKeepsTheRecord`, `PollSideKeepsTheRecord` | the records implement `DeliveryRecord` |

The argument.  Ids tell entries apart only within one life of the queue side
(`Numbered`), so all that is known of an acknowledgement is known of those meant for
this life: an entry it lists is pushed, refused, or condemned with its pushkey in the
same acknowledgement (`AcksSound`, `Speaks`).  It stays so because a new entry gets an
id that no acknowledgement of this life lists, and because the poll side lists only
what it has in hand and is done with (`Done`); a suppressed duplicate counts as pushed, as
its record says (`RecordsTrue`).  Then an entry leaves the buffer for an accepted reason
or by an acknowledgement that may settle it (`LeavesForReason`), which gives both
`NothingForgotten` (with `Accounted`, which also covers what is in hand and what is only
recorded, since a duplicate is answered from the record) and `VerdictSurvives`.
`OnlyDeadRejected` follows a verdict through every place it is kept in (`VerdictsTrue`),
from the two places it comes from: a push service, and the provider lookup of the poll
side.
`RepeatsHaveReasons` holds because what is being sent is not recorded in an open window:
deliveries are made one after the other, so nothing is recorded in between.  `Relay`
simplifies the record of either side to a function without an order or a limit.  The last
two theorems (for finitely many events) show that what is left still is a
`DeliveryRecord`, as `DedupCache` is, large enough for all events: whatever `Relay` takes
for granted about its records is stated in that module.

`ProvidersProofs`, for any number of deliveries, origins and tokens:

| theorem | property |
|---|---|
| `TypeCorrect` | `[]TypeOK` |
| `RefusedAreDiscarded` | `[]RefusedIsDiscarded` |
| `AudiencesAreRight` | `[]RightAudience` |
| `VerdictsAreJust` | `[]JustVerdicts` |
| `BearersInTime` | `BearerInTime` |

The argument.  A token could enter the cache after it was refused only if somebody had
gone out with it before it was stored; `UnstoredIsOwn` says that nobody has.  The cache
counts the life of a token from the moment it is stored, which is later than the moment
it was issued by at most `Delay` (`CacheSound`, `BearersSound`); the margin makes up for
that.  `TimesAssumption` asks for `Delay <= Margin`: the request to the token endpoint
ends after 15 seconds at the latest (the timeout of the client), the margins are a
minute, a quarter of an hour and an hour, and APNs and VAPID tokens are signed without
an await.  `OutcomesAreJust` goes through the table of statuses.

`ProvidersProofs` about `Requests`, for any notifications, lists of devices, settings and
allow-lists:

| theorem | property |
|---|---|
| `QueueIsTransparent` | `[]RelayTransparent` |
| `CountsCoalesceOnly` | `[]OnlyCountsCoalesce` |
| `AllAppsAreToldTheSame` | `[]SameMetadata` |
| `EndpointsAreListed` | `[]EndpointsByLabel` |

They rest on `NotificationsAssumption` (a notification is an object with the fields of
`NotifyRequest`, and its devices are of configured apps), `SettingsAssumption` (there are
three kinds of backends) and `HostsAssumption` (hosts are sequences).  The argument.  The
copy that crosses the queue has lost the content and all devices but one, and nothing
that a backend reads (`CopyTells`); so it leads to the same request (`SameRequest`), and
what is in the queue, in hand and sent can be told from the notification alone
(`InOrder`).  That each device gets one request is an invariant about `Way`, the
identities of what is sent, in hand and waiting, in line: an arrival extends it, a
superseded count is left out of it, and every other step moves its parts without
changing it (`Extends`, `Omits`, `Stays`).  `CoversByLabel` shows that the comparison of
bytes from the end is one of labels.

`DedupProofs`, for any keys, window, capacity and lateness of stamps:

| theorem | property |
|---|---|
| `TypeCorrect` | `[]TypeOK` |
| `EachSpokenForOnce` | `[]SpokenForOnce` |
| `StaysBounded` | `[]Bounded`, provided that `Skew <= TTL` |
| `WindowsRunTheirTime` | `WindowAnchored` |
| `KeepsTheRecord` | `DeliverySpec`, the refinement of `DeliveryRecord` |

The argument.  A stale order entry of a key may stay behind when stamps come late.  What
keeps it harmless is that the entries of a key lie at least a window apart (`Spaced`) and
that the last of them is the one in `seen` (`SpokenFor`, `NoneAhead`): popping from the
front can only make `seen` forget a key whose last entry has gone (`Good`, kept by both
loops).  With `Skew <= TTL` three entries of one key cannot be in line, as the first
would have expired before the third came (`AtMostTwo`); the code's window is minutes,
its wait for a mutex is not.  Evictions take the front of a line that is sorted but for
`Skew` (`NearlySorted`, `OldestGoFirst`), which is all `WindowAnchored` promises.  For the
refinement it remains to show that the expiry loop takes only windows that have run
their time (`ExpiryKeeps`), and that the eviction loop stops at the capacity exactly,
stale entries or not, as each pop forgets one key at most (`PopsOneByOne`, `CapsExact`).

`LongPollProofs`, for any number of polls and entries: `TypeCorrect` and
`ArrivalsAreNotMissed` (`[]NoMissedArrival`).  The argument.  A poll that looks or awaits
has its future among the waiters (`Registered`), so an arrival after its look wakes it;
and it awaits only after a look that found nothing (`NothingWaiting`).

`GatewayProofs`, for any devices, lists, attempts and mishaps: `TypeCorrect`,
`RejectedAreDead` (`[]OnlyDeadRejected`), `SuccessSettlesAll` (`[]SuccessIsComplete`) and
`RepeatsAreExcused` (`[]RepeatsHaveReasons`).  The argument.  `Known` says what each place of `deliver_one` knows of its device: that a
"fine" device is pushed to, refused or without a provider, that a recorded one was
pushed to, that a rejected one is dead.  These facts outlive the attempt that has
established them, which is why an answer may mix them from several.  For repeats the
invariant is an account per device (`Balanced`): pushes made, and pushes that can still be
made without another excuse, are covered by the excuses so far.  Still to come are one
push for each position an abandoned attempt has not finished (`Loose`) and one for each
position the awaited attempt or its successors may push at (`Open`), which are all
positions until a push is recorded or about to be, and then those already past the look
at the record.  A push uses up a place; only a lost reply, a forgotten recording or an
abandoned attempt makes new ones, and pays for as many as the device is listed.  It
rests on there being one awaited attempt at a time (`OneAwaited`).

`PollLoopProofs`, for any timeouts, sleeps, batch sizes and number of entries:
`TypeCorrect`, `NeverSilent` (`[]PolledPromptly`), `IdleUpstreamIsPolledOn`
(`IdleIsNoError`) and `BackoffIsExponential` (`[]BackoffDoubles`).  The argument is an account of time.  `OnTime` bounds the time since
the last poll by the limits of the phases it has been through; `Steady` splits the time
of an undisturbed poll into lag and hold, which together are less than the client's
patience as long as `MaxLag < Slack` (`TimesAssumption`; the slack is 30 seconds).  The
backoff needs the powers of two, which are the recursive function `Power`.  That such a
function exists, and what it yields, is shown from its finite beginnings
(`PowerUnfolds`), with a least counterexample (`LeastNat`) where one would use induction.

`StartupProofs`, for any command lines and configurations: `StartFailsFast`
(`[]FailsFast`), `UpstreamsReachedAsConfigured` (`[]ReachedAsConfigured`) and `TokensAgree`
(`[]TokensMeet`).  The argument.  The invariant says what each phase of `main` has
established: once upstreams and backends are built, none of them fails
(`UpstreamsBuilt`, `StateFails`), and an answer compares two trimmed tokens
(`AnswersRight`).

Model-checked only: everything that rests on fairness, which the provers cannot treat:
`ArrivalsGoOut`, `EveryPollAnswered` and `RedeliveryHappens` of `LongPoll`,
`EventuallyAnswered` of `Gateway`, `FetchedEventually` of `PollLoop` and
`ShutdownCompletes` of `Startup`.

## Not modelled

* In `Relay`: badges without an event id and the order of the buffer (`RelayQueue` has
  both), notifications for several devices (`Gateway`, `Requests`), the backoff of the
  poll side (`PollLoop`), the end of `rejected_ttl_secs`, a poll side that comes back from a
  restart with another configuration, and more than one poll side.
* In `Providers`: payloads (`Requests` has what they say) and encryption.
* In `Requests`: how numbers and texts are written in the requests, the headers that are
  the same for every request, the fallback title of alerts, and what WebPush does to its
  body (encryption).  Entries are not lost or repeated there (`Relay`).
* In `PollLoop`: what becomes of single entries (`Relay`), and the tasks of other
  upstreams, with which a task shares the record of deliveries only.
* In `Startup`: the parsing of TOML, which is one outcome, the limits and times of the
  configuration, which are the constants of the other modules, and logging.
* Overflow of times near the limits of the clock (`now + lease` for an absurd lease), as
  the models' clocks are natural numbers.

## Plan

The modules came in this order: the buffer with its abstract specification and proofs,
the record of deliveries, the long poll, the pipeline in direct mode, queue mode, the
backends, what a notification says, the loop of the poll side, the start.  What is next:

1. `Relay` with two poll sides, whose records do not know of each other, and with the end
   of `rejected_ttl_secs`.
2. The record of `Gateway` (a set that forgets a bounded number of times) as a mapping of
   `DeliveryRecord`, which takes a clock that `Gateway` does not have.
