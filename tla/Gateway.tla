------------------------------- MODULE Gateway -------------------------------
(***************************************************************************)
(* Direct mode: one notification on its way from the homeserver to its     *)
(* devices, through notify and deliver_one of src/src/gateway.rs.  The     *)
(* homeserver repeats the request until it is answered 200; it may also    *)
(* lose patience, and its next attempt then runs beside the old one until  *)
(* the server notices that the connection is gone.  Devices are delivered  *)
(* concurrently, and every await of deliver_one is a point where other     *)
(* deliveries, of this attempt or another, come in between.  The list of   *)
(* devices may name one of them twice.                                     *)
(*                                                                         *)
(* The homeserver and the push services are external: they are modelled by *)
(* what the code expects of them.  DedupCache models the record of         *)
(* deliveries; here it is a set that may forget a bounded number of times. *)
(***************************************************************************)
EXTENDS Naturals, Sequences, FiniteSets, Functions

CONSTANTS
  Devices,        \* devices of the user
  Listings,       \* lists of devices a notification may carry
  Unknown,        \* devices whose app_id has no provider
  RejectUnknown,  \* Config.reject_unknown_apps
  HasEventId,     \* whether the notification carries an event_id
  Attempts,       \* attempts of the homeserver that may be open at a time
  MaxGiveUps,     \* bound: attempts the homeserver abandons
  MaxMishaps      \* bound: lost replies and forgotten recordings

ASSUME DevicesAssumption == Unknown \subseteq Devices /\ Listings \subseteq Seq(Devices)
ASSUME FlagsAssumption == RejectUnknown \in BOOLEAN /\ HasEventId \in BOOLEAN
ASSUME BoundsAssumption == MaxGiveUps \in Nat /\ MaxMishaps \in Nat

VARIABLES
  listing,   \* the devices of the notification, in order
  answered,  \* whether the homeserver has its 200
  rejected,  \* the rejected list that came with it
  attempt,   \* attempt -> "idle", "awaited" or "abandoned"
  stage,     \* attempt -> position in the list -> where deliver_one is
  recorded,  \* devices this event is recorded for in AppState.dedup
  invalid,   \* devices whose pushkey the push service has invalidated
  pushes,    \* history: pushes the service accepted, per device (up to Cap)
  skipped,   \* history: devices whose provider has refused the notification
  mishaps,   \* history: lost replies and forgotten recordings, per device
  giveUps    \* history: attempts abandoned

vars == <<listing, answered, rejected, attempt, stage, recorded, invalid,
          pushes, skipped, mishaps, giveUps>>

Positions == DOMAIN listing
Listed(d) == Cardinality({i \in Positions : listing[i] = d})

\* Bound: pushes are counted this far, one more than should ever happen.
Cap(d) == Listed(d) * (1 + MaxMishaps + MaxGiveUps) + 1

\* Outcome of Provider::deliver, and Disposition of deliver_one.
Outcomes == {"Delivered", "Rejected", "Skipped", "Failed"}
Dispositions == {"Fine", "Reject", "Transient"}
Stages == {"start", "sending"} \cup Outcomes \cup Dispositions

TypeOK ==
  /\ listing \in Listings
  /\ answered \in BOOLEAN
  /\ rejected \subseteq Devices
  /\ attempt \in [Attempts -> {"idle", "awaited", "abandoned"}]
  /\ stage \in [Attempts -> [Positions -> Stages]]
  /\ recorded \subseteq Devices \ Unknown
  /\ invalid \subseteq Devices
  /\ pushes \in [Devices -> Nat] /\ \A d \in Devices : pushes[d] <= Cap(d)
  /\ skipped \subseteq Devices
  /\ mishaps \in [Devices -> Nat]
  /\ giveUps \in 0..MaxGiveUps

Fresh == [i \in Positions |-> "start"]

Init ==
  /\ listing \in Listings
  /\ answered = FALSE
  /\ rejected = {}
  /\ attempt = [a \in Attempts |-> "idle"]
  /\ stage = [a \in Attempts |-> Fresh]
  /\ recorded = {}
  /\ invalid = {}
  /\ pushes = [d \in Devices |-> 0]
  /\ skipped = {}
  /\ mishaps = [d \in Devices |-> 0]
  /\ giveUps = 0

Running(a) == attempt[a] # "idle"
At(a, i, where) == Running(a) /\ stage[a][i] = where
Goto(a, i, where) == stage' = [stage EXCEPT ![a][i] = where]

environment == <<listing, answered, rejected, attempt, invalid, giveUps>>

-----------------------------------------------------------------------------
(***************************************************************************)
(* The homeserver.                                                         *)
(***************************************************************************)

\* The first request, or its repetition after a 502 or a lost patience.
Notify(a) ==
  /\ ~answered
  /\ \A b \in Attempts : attempt[b] # "awaited"
  /\ attempt[a] = "idle"
  /\ attempt' = [attempt EXCEPT ![a] = "awaited"]
  /\ stage' = [stage EXCEPT ![a] = Fresh]
  /\ UNCHANGED <<listing, answered, rejected, recorded, invalid, pushes, skipped, mishaps, giveUps>>

GiveUp(a) ==
  /\ giveUps < MaxGiveUps
  /\ attempt[a] = "awaited"
  /\ attempt' = [attempt EXCEPT ![a] = "abandoned"]
  /\ giveUps' = giveUps + 1
  /\ UNCHANGED <<listing, answered, rejected, stage, recorded, invalid, pushes, skipped, mishaps>>

\* The server drops the handler of a closed connection where it awaits.
Cancel(a) ==
  /\ attempt[a] = "abandoned"
  /\ attempt' = [attempt EXCEPT ![a] = "idle"]
  /\ stage' = [stage EXCEPT ![a] = Fresh]
  /\ UNCHANGED <<listing, answered, rejected, recorded, invalid, pushes, skipped, mishaps, giveUps>>

-----------------------------------------------------------------------------
(***************************************************************************)
(* deliver_one.  A definition after "Mistake:" is not part of the model:   *)
(* it is a slip the properties are known to catch when it stands in for    *)
(* the definition after it.                                                *)
(***************************************************************************)

\* Only a notification with an event_id can be recognized as a repetition.
Suppressed(d) == HasEventId /\ d \in recorded

\* Provider lookup and duplicate suppression, up to the await of deliver.
Begin(a, i) ==
  /\ At(a, i, "start")
  /\ Goto(a, i, CASE listing[i] \in Unknown -> IF RejectUnknown THEN "Reject" ELSE "Fine"
                  [] listing[i] \notin Unknown /\ Suppressed(listing[i]) -> "Fine"
                  [] OTHER -> "sending")
  /\ UNCHANGED <<environment, recorded, pushes, skipped, mishaps>>

\* Mistake: nothing is recorded.
NothingRecorded(outcome, d) == recorded

\* Only a successful delivery is recorded.
RecordedAfter(outcome, d) ==
  IF HasEventId /\ outcome = "Delivered" THEN recorded \cup {d} ELSE recorded

\* Mistake: a failure the service may recover from counts as a dead pushkey.
RejectsFailed(outcome) ==
  CASE outcome \in {"Delivered", "Skipped"} -> "Fine"
    [] outcome \in {"Rejected", "Failed"} -> "Reject"

DispositionOf(outcome) ==
  CASE outcome \in {"Delivered", "Skipped"} -> "Fine"
    [] outcome = "Rejected" -> "Reject"
    [] outcome = "Failed" -> "Transient"

\* deliver has returned: record, then report.
Resume(a, i) ==
  /\ Running(a)
  /\ stage[a][i] \in Outcomes
  /\ recorded' = RecordedAfter(stage[a][i], listing[i])
  /\ Goto(a, i, DispositionOf(stage[a][i]))
  /\ UNCHANGED <<environment, pushes, skipped, mishaps>>

-----------------------------------------------------------------------------
(***************************************************************************)
(* notify: once every device is disposed of, answer.                       *)
(***************************************************************************)
Disposed(a, disposition) == {i \in Positions : stage[a][i] = disposition}

\* Mistake: only a request that failed for every device is a 502.
AllFailed(a) == Disposed(a, "Transient") = Positions

\* Mistake: a dead pushkey fails the request, too.
UnlessAllFine(a) == Disposed(a, "Fine") # Positions

\* One transient failure fails the whole request with 502.
BadGateway(a) == Disposed(a, "Transient") # {}

\* An answer to an attempt the homeserver has abandoned reaches nobody.
Respond(a) ==
  /\ Running(a)
  /\ \A i \in Positions : stage[a][i] \in Dispositions
  /\ attempt' = [attempt EXCEPT ![a] = "idle"]
  /\ stage' = [stage EXCEPT ![a] = Fresh]
  /\ IF attempt[a] = "awaited" /\ ~BadGateway(a)
       THEN answered' = TRUE /\ rejected' = {listing[i] : i \in Disposed(a, "Reject")}
       ELSE UNCHANGED <<answered, rejected>>
  /\ UNCHANGED <<listing, recorded, invalid, pushes, skipped, mishaps, giveUps>>

-----------------------------------------------------------------------------
(***************************************************************************)
(* The push services and the record.                                       *)
(***************************************************************************)
Counted(d) == [pushes EXCEPT ![d] = IF @ < Cap(d) THEN @ + 1 ELSE @]

Accept(a, i) ==
  /\ At(a, i, "sending")
  /\ listing[i] \notin invalid
  /\ pushes' = Counted(listing[i])
  /\ Goto(a, i, "Delivered")
  /\ UNCHANGED <<environment, recorded, skipped, mishaps>>

\* The push is accepted, but the reply is lost: deliver reports a failure.
AcceptUnheard(a, i) ==
  /\ At(a, i, "sending")
  /\ listing[i] \notin invalid
  /\ SumFunction(mishaps) < MaxMishaps
  /\ mishaps' = [mishaps EXCEPT ![listing[i]] = @ + 1]
  /\ pushes' = Counted(listing[i])
  /\ Goto(a, i, "Failed")
  /\ UNCHANGED <<environment, recorded, skipped>>

Reject(a, i) ==
  /\ At(a, i, "sending")
  /\ listing[i] \in invalid
  /\ Goto(a, i, "Rejected")
  /\ UNCHANGED <<environment, recorded, pushes, skipped, mishaps>>

\* The provider or the service refuses this notification, not the pushkey.
Skip(a, i) ==
  /\ At(a, i, "sending")
  /\ Goto(a, i, "Skipped")
  /\ skipped' = skipped \cup {listing[i]}
  /\ UNCHANGED <<environment, recorded, pushes, mishaps>>

Fail(a, i) ==
  /\ At(a, i, "sending")
  /\ Goto(a, i, "Failed")
  /\ UNCHANGED <<environment, recorded, pushes, skipped, mishaps>>

Invalidate(d) ==
  /\ d \notin Unknown
  /\ invalid' = invalid \cup {d}
  /\ UNCHANGED <<listing, answered, rejected, attempt, stage, recorded, pushes, skipped, mishaps, giveUps>>

\* The TTL or the size cap of the cache; see DedupCache!WindowAnchored.
Forget(d) ==
  /\ d \in recorded
  /\ SumFunction(mishaps) < MaxMishaps
  /\ mishaps' = [mishaps EXCEPT ![d] = @ + 1]
  /\ recorded' = recorded \ {d}
  /\ UNCHANGED <<environment, stage, pushes, skipped>>

Next ==
  \/ \E a \in Attempts : Notify(a) \/ GiveUp(a) \/ Cancel(a) \/ Respond(a)
  \/ \E a \in Attempts, i \in Positions :
       \/ Begin(a, i) \/ Resume(a, i)
       \/ Accept(a, i) \/ AcceptUnheard(a, i) \/ Reject(a, i) \/ Skip(a, i)
       \/ Fail(a, i)
  \/ \E d \in Devices : Invalidate(d) \/ Forget(d)

(***************************************************************************)
(* The runtime keeps running handlers that can run, the homeserver repeats *)
(* the request, and every request to a push service ends (each provider    *)
(* client has a timeout).  A service that is reached again and again       *)
(* answers for good some day, but no two need to be up at the same time.   *)
(***************************************************************************)
Places == UNION {DOMAIN l : l \in Listings}
Verdict(i) ==
  \E a \in Attempts :
    i \in Positions /\ attempt[a] = "awaited" /\ (Accept(a, i) \/ Reject(a, i))
Fairness ==
  /\ WF_vars(\E a \in Attempts : Notify(a))
  /\ \A a \in Attempts : WF_vars(Respond(a))
  /\ \A a \in Attempts, i \in Places :
       /\ WF_vars(i \in Positions /\ Begin(a, i))
       /\ WF_vars(i \in Positions /\ Resume(a, i))
       /\ WF_vars(i \in Positions /\ Fail(a, i))
  /\ \A i \in Places : SF_vars(Verdict(i))

Spec == Init /\ [][Next]_vars /\ Fairness

-----------------------------------------------------------------------------
(***************************************************************************)
(* Properties.                                                             *)
(***************************************************************************)

(* A second push of the same event needs a reason that the design accepts: *)
(* a reply that was lost, a recording that was forgotten, or an attempt    *)
(* the homeserver abandoned.  Plain retries after a 502 never repeat a     *)
(* delivered push ("shields the devices that were already delivered").  A  *)
(* device that is listed twice may get each push twice, as both look into  *)
(* the record before either is recorded, but no more than that.            *)
RepeatsHaveReasons ==
  HasEventId => \A d \in Devices : pushes[d] <= Listed(d) * (1 + mishaps[d] + giveUps)

(* The rejected list makes the homeserver delete pushers, so it names dead *)
(* pushkeys only (and unknown apps, if so configured): a failure that may  *)
(* pass never costs a user the pusher (notify, deliver_one).               *)
OnlyDeadRejected ==
  rejected \subseteq invalid \cup (IF RejectUnknown THEN Unknown ELSE {})

(* A 200 settles the notification for good, as the homeserver never sends  *)
(* it again: every device is in the rejected list, or has been pushed to   *)
(* in this or an earlier attempt, or was refused by its provider, or has   *)
(* none and is not to be rejected for that (notify).                       *)
SuccessIsComplete ==
  answered =>
    \A d \in Range(listing) :
      \/ d \in rejected \/ pushes[d] > 0 \/ d \in skipped
      \/ d \in Unknown /\ ~RejectUnknown

(* The homeserver gets its 200 although the services of two devices may    *)
(* never be up during the same attempt: what one attempt has delivered     *)
(* stays delivered in the next (deliver_one).  The verdict on a dead       *)
(* pushkey is not kept that way, so two of them, or one listed twice, need *)
(* a common good moment.                                                   *)
EventuallyAnswered ==
  [](Cardinality({i \in Positions : listing[i] \in invalid}) <= 1) => <>answered
=============================================================================
