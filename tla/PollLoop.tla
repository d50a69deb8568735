------------------------------ MODULE PollLoop ------------------------------
(***************************************************************************)
(* The loop of the poll side (run and poll_once of src/src/poller.rs)      *)
(* against one upstream (queue_poll of src/src/gateway.rs) in time: the    *)
(* long poll with its two timeouts, the delivery of a batch, the           *)
(* acknowledgement, and the backoff after an error.  What becomes of       *)
(* single entries is in Relay.                                             *)
(*                                                                         *)
(* Time passes in units; timers fire when they are due.  The network and   *)
(* the push services are external.                                         *)
(***************************************************************************)
EXTENDS Naturals

CONSTANTS
  Timeout,       \* Upstream.timeout_secs
  MaxBatch,      \* Upstream.max_batch
  HoldCap,       \* the longest hold of queue_poll (60 s)
  BatchCap,      \* the largest batch of queue_poll (1000)
  Slack,         \* room for the network on top of the hold (30 s)
  CheckTimeout,  \* of health_check (10 s)
  AckTimeout,    \* of the acknowledgement (30 s)
  FirstBackoff,  \* 1 s
  MaxBackoff,    \* 60 s
  MaxLag,        \* external: the time messages need while the upstream is up
  DeliverTime,   \* external: the longest delivery of a batch
  MaxArrivals,   \* bound: entries that arrive at the upstream
  MaxStreak      \* bound: errors in a row are counted this far

ASSUME TimesAssumption ==
  /\ {Timeout, MaxBatch, HoldCap, Slack, CheckTimeout, AckTimeout, DeliverTime, MaxLag} \subseteq Nat
  /\ {BatchCap, FirstBackoff, MaxBackoff} \subseteq Nat \ {0}
  /\ FirstBackoff <= MaxBackoff
  /\ MaxLag < Slack

\* Two to the power of n.
Power[n \in Nat] == IF n = 0 THEN 1 ELSE 2 * Power[n - 1]

ASSUME BoundsAssumption ==
  MaxArrivals \in Nat /\ MaxStreak \in Nat /\ FirstBackoff * Power[MaxStreak] >= MaxBackoff

VARIABLES
  phase,      \* what the loop awaits
  elapsed,    \* for how long
  backoff,    \* the next sleep after an error
  request,    \* where the poll is: on its way "out", "held", or on its way "back"
  lag,        \* how long it has been on its way
  batch,      \* entries in its answer, and in work after that
  waiting,    \* entries the upstream has to hand out
  arrived,    \* entries that have arrived at the upstream
  up,         \* external: whether the upstream is reachable and accepts the token
  disturbed,  \* history: whether it was not at some time during this poll
  streak,     \* history: errors since the last success
  quiet       \* history: time since the last poll was sent

loop == <<phase, elapsed, backoff, streak>>
poll == <<request, lag, disturbed, quiet>>
upstream == <<waiting, arrived>>
vars == <<loop, poll, batch, upstream, up>>

-----------------------------------------------------------------------------
(***************************************************************************)
(* Timers.  A definition after "Mistake:" is not part of the model: it is  *)
(* a slip the properties are known to catch when it stands in for the      *)
(* definition after it.                                                    *)
(***************************************************************************)
Least(a, b) == IF a < b THEN a ELSE b
Greatest(a, b) == IF a < b THEN b ELSE a

\* How long queue_poll holds a poll, and how many entries it hands out.
Hold == Least(Timeout, HoldCap)

\* Mistake: the request is taken as it comes.
BatchAsked == MaxBatch

BatchSize == Least(Greatest(MaxBatch, 1), BatchCap)

\* Mistake: the client waits no longer than the server holds.
PollTimeoutTight == Timeout

PollTimeout == Timeout + Slack

\* What an await of the loop takes at most.
Limit ==
  [checking |-> CheckTimeout, polling |-> PollTimeout, delivering |-> DeliverTime,
   acking |-> AckTimeout, sleeping |-> backoff]

Underway == phase = "polling" /\ request \in {"out", "back"}
HeldFor == elapsed - lag

\* The longest time between two polls, and the bound on `quiet`.
Round == PollTimeout + DeliverTime + AckTimeout + MaxBackoff
QuietCap == Greatest(CheckTimeout, Round) + 1

Tick ==
  /\ elapsed < Limit[phase]
  /\ phase = "polling" /\ request = "held" => HeldFor < Hold
  /\ Underway /\ up => lag < MaxLag
  /\ elapsed' = elapsed + 1
  /\ lag' = IF Underway THEN lag + 1 ELSE lag
  /\ quiet' = IF quiet < QuietCap THEN quiet + 1 ELSE quiet
  /\ UNCHANGED <<phase, backoff, streak, request, disturbed, batch, upstream, up>>

-----------------------------------------------------------------------------
(***************************************************************************)
(* The loop.                                                               *)
(***************************************************************************)
Init ==
  /\ phase = "checking"
  /\ elapsed = 0
  /\ backoff = FirstBackoff
  /\ request = "back"
  /\ lag = 0
  /\ batch = 0
  /\ waiting = 0
  /\ arrived = 0
  /\ up \in BOOLEAN
  /\ disturbed = FALSE
  /\ streak = 0
  /\ quiet = 0

GoTo(p) == phase' = p /\ elapsed' = 0

SendPoll ==
  /\ GoTo("polling")
  /\ request' = "out"
  /\ lag' = 0
  /\ disturbed' = ~up
  /\ quiet' = 0

\* The health check informs the log; the loop begins either way.
Checked ==
  /\ phase = "checking"
  /\ SendPoll
  /\ UNCHANGED <<backoff, streak, batch, upstream, up>>

\* Mistake: a success leaves the backoff as it is.
BackoffKept == backoff

BackoffAfterSuccess == FirstBackoff

\* poll_once has returned Ok.
Succeed ==
  /\ SendPoll
  /\ backoff' = BackoffAfterSuccess
  /\ streak' = 0
  /\ batch' = 0

\* poll_once has returned an error; what it has leased comes back to the queue.
Err ==
  /\ GoTo("sleeping")
  /\ batch' = 0
  /\ waiting' = waiting + batch
  /\ UNCHANGED <<backoff, streak, poll, arrived, up>>

\* Mistake: the backoff has no cap.
BackoffUncapped == 2 * backoff

BackoffAfterError == Least(2 * backoff, MaxBackoff)

WakeUp ==
  /\ phase = "sleeping"
  /\ elapsed = backoff
  /\ SendPoll
  /\ backoff' = BackoffAfterError
  /\ streak' = IF streak < MaxStreak THEN streak + 1 ELSE streak
  /\ UNCHANGED <<batch, upstream, up>>

-----------------------------------------------------------------------------
(***************************************************************************)
(* The poll.                                                               *)
(***************************************************************************)
HandOut ==
  /\ waiting > 0
  /\ request' = "back"
  /\ batch' = Least(waiting, BatchSize)
  /\ waiting' = waiting - batch'

\* queue_poll: what waits goes out at once, otherwise the poll is held.
PollArrives ==
  /\ phase = "polling"
  /\ request = "out"
  /\ up
  /\ \/ HandOut
     \/ waiting = 0 /\ request' = "held" /\ UNCHANGED <<batch, waiting>>
  /\ UNCHANGED <<loop, lag, disturbed, quiet, arrived, up>>

\* The hold ends with an arrival, or without entries.
HoldEnds ==
  /\ phase = "polling"
  /\ request = "held"
  /\ \/ HandOut
     \/ HeldFor >= Hold /\ request' = "back" /\ UNCHANGED <<batch, waiting>>
  /\ UNCHANGED <<loop, lag, disturbed, quiet, arrived, up>>

AnswerEmpty ==
  /\ phase = "polling"
  /\ request = "back"
  /\ batch = 0
  /\ Succeed
  /\ UNCHANGED <<upstream, up>>

AnswerBatch ==
  /\ phase = "polling"
  /\ request = "back"
  /\ batch > 0
  /\ GoTo("delivering")
  /\ UNCHANGED <<backoff, streak, poll, batch, upstream, up>>

\* Refused, reset, an answer other than 2xx (the token, a proxy), a broken body.
PollFails ==
  /\ phase = "polling"
  /\ disturbed
  /\ Err

PollTimesOut ==
  /\ phase = "polling"
  /\ elapsed = PollTimeout
  /\ Err

-----------------------------------------------------------------------------
(***************************************************************************)
(* Delivery and acknowledgement.  The entries of a batch are delivered one *)
(* after the other; one that cannot be read counts as settled.             *)
(***************************************************************************)

\* Nothing is settled: there is nothing to acknowledge.
DeliveredNone ==
  /\ phase = "delivering"
  /\ Succeed
  /\ waiting' = waiting + batch
  /\ UNCHANGED <<arrived, up>>

DeliveredSome ==
  /\ phase = "delivering"
  /\ \E failed \in 0..batch :
       batch' = batch - failed /\ waiting' = waiting + failed
  /\ GoTo("acking")
  /\ UNCHANGED <<backoff, streak, poll, arrived, up>>

Acknowledged ==
  /\ phase = "acking"
  /\ up
  /\ Succeed
  /\ UNCHANGED <<upstream, up>>

AckFails ==
  /\ phase = "acking"
  /\ ~up
  /\ Err

AckTimesOut ==
  /\ phase = "acking"
  /\ elapsed = AckTimeout
  /\ Err

-----------------------------------------------------------------------------
(***************************************************************************)
(* The environment.                                                        *)
(***************************************************************************)
Arrive ==
  /\ arrived < MaxArrivals
  /\ arrived' = arrived + 1
  /\ waiting' = waiting + 1
  /\ UNCHANGED <<loop, poll, batch, up>>

GoDown ==
  /\ up
  /\ up' = FALSE
  /\ disturbed' = TRUE
  /\ UNCHANGED <<loop, request, lag, quiet, batch, upstream>>

ComeUp ==
  /\ ~up
  /\ up' = TRUE
  /\ UNCHANGED <<loop, poll, batch, upstream>>

Step ==
  \/ Checked \/ WakeUp
  \/ PollArrives \/ HoldEnds \/ AnswerEmpty \/ AnswerBatch \/ PollFails \/ PollTimesOut
  \/ DeliveredNone \/ DeliveredSome \/ Acknowledged \/ AckFails \/ AckTimesOut

Next == Tick \/ Step \/ Arrive \/ GoDown \/ ComeUp

(***************************************************************************)
(* Time passes, and what is due happens: timers fire, answers arrive, the  *)
(* task runs.  Failures of the network and arrivals are not fair.          *)
(***************************************************************************)
Fairness ==
  /\ WF_vars(Tick) /\ WF_vars(Checked) /\ WF_vars(WakeUp)
  /\ WF_vars(PollArrives) /\ WF_vars(HoldEnds) /\ WF_vars(AnswerEmpty \/ AnswerBatch)
  /\ WF_vars(PollTimesOut) /\ WF_vars(DeliveredNone \/ DeliveredSome)
  /\ WF_vars(Acknowledged) /\ WF_vars(AckTimesOut)

Spec == Init /\ [][Next]_vars /\ Fairness

-----------------------------------------------------------------------------
(***************************************************************************)
(* Properties.                                                             *)
(***************************************************************************)
TypeOK ==
  /\ phase \in DOMAIN Limit
  /\ request \in {"out", "held", "back"}
  /\ {elapsed, backoff, lag, batch, waiting, arrived, streak, quiet} \subseteq Nat
  /\ up \in BOOLEAN /\ disturbed \in BOOLEAN

(* The sleep after an error doubles with each error in a row, from the     *)
(* first to the longest, and starts anew after any success (run).          *)
BackoffDoubles == backoff = Least(FirstBackoff * Power[streak], MaxBackoff)

(* The poll side never falls silent: a round, whatever fails in it, takes  *)
(* no longer than its timeouts and the longest sleep, so that an upstream  *)
(* that comes back is polled within that time (the timeouts of poll_once   *)
(* and health_check, the cap in run).                                      *)
PolledPromptly == quiet <= Greatest(CheckTimeout, Round)

(* A queue with nothing to hand out is no error: as long as the network    *)
(* keeps within the slack, the hold ends before the client's patience, and *)
(* the poll side does not back off from an idle upstream (the timeouts of  *)
(* poll_once and queue_poll).                                              *)
IdleIsNoError == [][phase = "polling" /\ phase' = "sleeping" => disturbed]_vars

(* Once the upstream stays up, entries that wait are fetched, after        *)
(* whatever errors and with whatever configured batch size (run, and the   *)
(* clamp in queue_poll).                                                   *)
FetchedEventually == <>[]up => [](waiting > 0 => <>(phase = "delivering"))
=============================================================================
