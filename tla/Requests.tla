------------------------------ MODULE Requests ------------------------------
(***************************************************************************)
(* What a notification says on its way from the homeserver through the     *)
(* queue side and the poll side to the push services: the types of         *)
(* src/src/api.rs and what their (de)serialization keeps, the entries of   *)
(* the queue, and the requests that the three backends build.              *)
(*                                                                         *)
(* A field has any value; texts are abstract.  An object whose fields may  *)
(* be absent is a function on the fields that are present.  Leases,        *)
(* retries and failures are in Relay: here every entry is fetched once and *)
(* every request is sent.                                                  *)
(***************************************************************************)
EXTENDS Naturals, Sequences, FiniteSets, Functions

CONSTANTS
  Notifications,  \* what the homeserver may send
  Settings,       \* app_id -> the settings of its backend
  Loopback,       \* names of the host itself
  NoKey,          \* no count_key
  None            \* an optional value that is absent

\* A notification is an object with these fields, and devices of unknown apps
\* are Gateway's and Relay's matter.
ASSUME NotificationsAssumption ==
  \A n \in Notifications :
    /\ n = [info |-> n.info, counts |-> n.counts, prio |-> n.prio, devices |-> n.devices]
    /\ n.devices \in Seq(Range(n.devices))
    /\ \A d \in Range(n.devices) : d.app_id \in DOMAIN Settings
ASSUME SettingsAssumption ==
  \A a \in DOMAIN Settings : Settings[a].kind \in {"fcm", "apns", "webpush"}

\* A host is a text, as is the name in an entry of an allow-list.
ASSUME HostsAssumption ==
  /\ \A n \in Notifications : \A d \in Range(n.devices) :
       d.endpoint # None => d.endpoint.host \in Seq(Range(d.endpoint.host))
  /\ \A a \in DOMAIN Settings : \A entry \in Settings[a].allowed :
       entry.name \in Seq(Range(entry.name))

VARIABLES
  sent,      \* the notification as the homeserver has sent it
  next,      \* position in sent.devices of the next call of queue_one
  recorded,  \* devices the event is recorded for on the queue side
  buffer,    \* the queue
  current,   \* the notification the poll side delivers
  left,      \* its devices that are still to be delivered to
  requests,  \* what the backends have sent, in order
  badge      \* external: the number on the app's icon, per pushkey

TransferVars == <<sent, next, recorded, buffer, current, left, requests, badge>>

-----------------------------------------------------------------------------
(***************************************************************************)
(* Notifications.  A definition after "Mistake:" is not part of the model: *)
(* it is a slip the properties are known to catch when it stands in for    *)
(* the definition after it.                                                *)
(***************************************************************************)
Info == {"content", "event_id", "room_id", "type", "sender", "sender_display_name",
         "room_name", "room_alias", "user_is_target"}

\* Unread messages and missed calls, each of which may be absent.
Counts == {"unread", "missed_calls"}

Priority(n) == IF n.prio = None THEN "high" ELSE n.prio

\* Mistake: the priority is not serialized.
SerializedPlain(n) ==
  [n EXCEPT !.info = Restrict(@, DOMAIN @ \ {"content"}), !.prio = None]

\* The JSON of a notification, as it is read back: all but the content.
Serialized(n) == [n EXCEPT !.info = Restrict(@, DOMAIN @ \ {"content"})]

\* The fields the backends forward, the counts among them.
Forwarded == {"event_id", "room_id", "type", "sender", "sender_display_name", "room_name"}
CountsOf(n) == IF n.counts = None THEN <<>> ELSE n.counts
Metadata(n) ==
  [f \in (DOMAIN n.info \cap Forwarded) \cup (DOMAIN CountsOf(n) \cap Counts) |->
     IF f \in Counts THEN CountsOf(n)[f] ELSE n.info[f]]

HasEvent(n) == "event_id" \in DOMAIN n.info
Unread(n) == IF "unread" \in DOMAIN CountsOf(n) THEN CountsOf(n)["unread"] ELSE None

-----------------------------------------------------------------------------
(***************************************************************************)
(* The queue: one entry per device, coalesced by its count_key.            *)
(***************************************************************************)

Identity(d) == <<d.app_id, d.pushkey>>

\* Mistake: what names no room counts as a mere count.
CountKeyByRoom(n, d) == IF "room_id" \in DOMAIN n.info THEN NoKey ELSE Identity(d)

CountKey(n, d) == IF HasEvent(n) THEN NoKey ELSE Identity(d)

EntryFor(n, d) ==
  [notification |-> [Serialized(n) EXCEPT !.devices = <<d>>], count_key |-> CountKey(n, d)]

-----------------------------------------------------------------------------
(***************************************************************************)
(* The requests.                                                           *)
(***************************************************************************)
NoRequest == [kind |-> "skipped"]

\* Mistake: missed calls are forgotten.
MessageWithoutCalls(n, d) ==
  [kind     |-> "fcm",
   to       |-> d.pushkey,
   data     |-> Restrict(Metadata(n), DOMAIN Metadata(n) \ {"missed_calls"}),
   priority |-> IF Priority(n) = "high" THEN "HIGH" ELSE "NORMAL"]

Message(n, d) ==
  [kind     |-> "fcm",
   to       |-> d.pushkey,
   data     |-> Metadata(n),
   priority |-> IF Priority(n) = "high" THEN "HIGH" ELSE "NORMAL"]

\* The push-rule tweak wins over the configured sound.
Sound(d, app) == IF d.sound # None THEN d.sound ELSE app.sound

\* What iOS acts on by itself.  A VoIP push leaves all to the app.
Aps(n, d, app) ==
  LET shows == app.push_type = "alert" /\ HasEvent(n)
  IN  [badge |-> IF app.push_type = "alert" THEN Unread(n) ELSE None,
       alert |-> shows,
       sound |-> IF shows THEN Sound(d, app) ELSE None]

ApnsPush(n, d, app) ==
  [kind      |-> "apns",
   to        |-> d.pushkey,
   topic     |-> app.topic,
   push_type |-> app.push_type,
   priority  |-> IF app.push_type = "voip" \/ Priority(n) = "high" THEN "10" ELSE "5",
   aps       |-> Aps(n, d, app),
   data      |-> Metadata(n)]

\* Mistake: the name need not begin at a label.
CoversAnyEnd(entry, host) ==
  LET s == Len(entry.name)
      h == Len(host)
  IN  IF entry.wildcard
        THEN h > s + 1 /\ SubSeq(host, h - s + 1, h) = entry.name
        ELSE host = entry.name

\* An entry of the allow-list is a host, or "*." and the end of one.
Covers(entry, host) ==
  LET s == Len(entry.name)
      h == Len(host)
  IN  IF entry.wildcard
        THEN h > s + 1 /\ SubSeq(host, h - s + 1, h) = entry.name /\ host[h - s] = "."
        ELSE host = entry.name

EndpointAllowed(endpoint, allowed) ==
  /\ endpoint.scheme = "https" \/ (endpoint.scheme = "http" /\ endpoint.host \in Loopback)
  /\ \E entry \in allowed : Covers(entry, endpoint.host)

\* The pushkey is the public key; the rest comes with the pusher's data.
Subscribed(d) == d.key_ok /\ d.endpoint # None /\ d.auth_ok

WebPush(n, d, app) ==
  IF Subscribed(d) /\ EndpointAllowed(d.endpoint, app.allowed)
    THEN [kind    |-> "webpush",
          to      |-> d.endpoint,
          urgency |-> IF Priority(n) = "high" THEN "high" ELSE "normal",
          data    |-> Metadata(n),
          prio    |-> Priority(n)]
    ELSE NoRequest

RequestFor(n, d) ==
  LET app == Settings[d.app_id]
  IN  CASE app.kind = "fcm"     -> Message(n, d)
        [] app.kind = "apns"    -> ApnsPush(n, d, app)
        [] app.kind = "webpush" -> WebPush(n, d, app)

-----------------------------------------------------------------------------
(***************************************************************************)
(* The way through.                                                        *)
(***************************************************************************)
TransferInit ==
  /\ sent \in Notifications
  /\ next = 1
  /\ recorded = {}
  /\ buffer = <<>>
  /\ current = None
  /\ left = <<>>
  /\ requests = <<>>
  /\ badge = [k \in {sent.devices[i].pushkey : i \in DOMAIN sent.devices} |-> 1]

\* notify runs queue_one, which never awaits, for one device after the other.
QueueOne ==
  /\ next \in DOMAIN sent.devices
  /\ next' = next + 1
  /\ LET d == sent.devices[next]
     IN  IF HasEvent(sent) /\ Identity(d) \in recorded
           THEN UNCHANGED <<recorded, buffer>>
           ELSE /\ buffer' = Append(buffer, EntryFor(sent, d))
                /\ recorded' = IF HasEvent(sent) THEN recorded \cup {Identity(d)} ELSE recorded
  /\ UNCHANGED <<sent, current, left, requests, badge>>

\* A newer count of the same device waits behind the first entry.
Superseded ==
  /\ Head(buffer).count_key # NoKey
  /\ \E k \in 2..Len(buffer) : buffer[k].count_key = Head(buffer).count_key

\* The poll side takes the next entry; a superseded one is dropped.
Fetch ==
  /\ left = <<>>
  /\ buffer # <<>>
  /\ buffer' = Tail(buffer)
  /\ IF Superseded
       THEN UNCHANGED <<current, left>>
       ELSE current' = Head(buffer).notification /\ left' = current'.devices
  /\ UNCHANGED <<sent, next, recorded, requests, badge>>

\* iOS sets the badge that a push carries and leaves it alone otherwise.
Deliver ==
  /\ left # <<>>
  /\ LET d == Head(left)
         r == RequestFor(current, d)
     IN  /\ requests' = Append(requests, [device |-> Identity(d), request |-> r])
         /\ badge' = IF r.kind = "apns" /\ r.aps.badge # None
                       THEN [badge EXCEPT ![d.pushkey] = r.aps.badge]
                       ELSE badge
  /\ left' = Tail(left)
  /\ UNCHANGED <<sent, next, recorded, buffer, current>>

TransferNext == QueueOne \/ Fetch \/ Deliver

TransferSpec == TransferInit /\ [][TransferNext]_TransferVars

Delivered == next \notin DOMAIN sent.devices /\ buffer = <<>> /\ left = <<>>

-----------------------------------------------------------------------------
(***************************************************************************)
(* Properties.                                                             *)
(***************************************************************************)
(* Queue mode changes nothing for the push services: each device gets the  *)
(* very request that a gateway in direct mode would have sent, priority,   *)
(* counts and sounds included, and gets one.  (A count for a device that   *)
(* is listed twice may go out twice; it shows the same.)  See Serialize    *)
(* and Deserialize of api.rs, queue_one, enqueue and poll_once.            *)
RelayTransparent ==
  LET to(j)   == requests[j].device
      d(i)    == sent.devices[i]
      once(i) == HasEvent(sent) \/ \A k \in DOMAIN sent.devices \ {i} : Identity(d(k)) # Identity(d(i))
  IN  /\ \A j \in DOMAIN requests : \E i \in DOMAIN sent.devices :
            requests[j] = [device |-> Identity(d(i)), request |-> RequestFor(sent, d(i))]
      /\ Delivered => \A i \in DOMAIN sent.devices :
            \E j \in DOMAIN requests :
              /\ to(j) = Identity(d(i))
              /\ once(i) => \A k \in DOMAIN requests : to(k) = to(j) => k = j

(* What the queue may replace by a newer count is never an alert, nor does *)
(* it tell an app of an event: the rule of the queue for what is a mere    *)
(* count agrees with that of the backends (count_key in enqueue of         *)
(* queue.rs, build_payload of apns.rs).                                    *)
OnlyCountsCoalesce ==
  \A k \in DOMAIN buffer :
    LET n == buffer[k].notification
        r == RequestFor(n, Head(n.devices))
    IN  buffer[k].count_key # NoKey /\ r # NoRequest =>
          /\ "event_id" \notin DOMAIN r.data
          /\ r.kind = "apns" => ~r.aps.alert

(* Whichever service a device uses, its app learns the same about the      *)
(* notification, and never its content (build_payload of apns.rs and       *)
(* webpush.rs, build_message of fcm.rs).                                   *)
SameMetadata ==
  LET built == {requests[j].request : j \in DOMAIN requests} \ {NoRequest}
  IN  \A q, r \in built : q.data = r.data /\ "content" \notin DOMAIN q.data

\* The host is the name, or labels followed by it.
NamesHost(entry, host) ==
  IF entry.wildcard
    THEN \E k \in DOMAIN host : host = SubSeq(host, 1, k) \o <<".">> \o entry.name
    ELSE host = entry.name

(* A subscription's endpoint is contacted exactly if it is a listed host   *)
(* or below a listed one, label by label, and the transport is encrypted   *)
(* or does not leave the host (endpoint_allowed of webpush.rs, which       *)
(* compares bytes from the end).  A pushkey that is listed twice, with two *)
(* endpoints, is pushed to once.                                           *)
EndpointsByLabel ==
  Delivered =>
    \A i \in DOMAIN sent.devices :
      LET d    == sent.devices[i]
          app  == Settings[d.app_id]
          sole == \A k \in DOMAIN sent.devices :
                    Identity(sent.devices[k]) = Identity(d) => sent.devices[k] = d
      IN  app.kind = "webpush" /\ Subscribed(d) /\ sole =>
            ((\E j \in DOMAIN requests :
                LET r == requests[j].request
                IN  requests[j].device = Identity(d) /\ r.kind = "webpush" /\ r.to = d.endpoint)
               <=> /\ d.endpoint.scheme \in {"http", "https"}
                   /\ d.endpoint.scheme = "http" => d.endpoint.host \in Loopback
                   /\ \E entry \in app.allowed : NamesHost(entry, d.endpoint.host))

(* "Zero-valued counts are omitted on the wire, so absent means zero"      *)
(* (api.rs:93-94): after a notification with counts the badge shows the    *)
(* number of unread messages.  Violated: build_payload of apns.rs sends no *)
(* badge when the count is absent, and the old number stays.               *)
BadgeFollowsCounts ==
  Delivered /\ sent.counts # None =>
    \A i \in DOMAIN sent.devices :
      LET d   == sent.devices[i]
          app == Settings[d.app_id]
      IN  app.kind = "apns" /\ app.push_type = "alert" =>
            badge[d.pushkey] = IF Unread(sent) = None THEN 0 ELSE Unread(sent)
=============================================================================
