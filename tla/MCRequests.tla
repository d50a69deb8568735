----------------------------- MODULE MCRequests -----------------------------
(***************************************************************************)
(* Requests instantiated for TLC.                                          *)
(***************************************************************************)
EXTENDS Requests, SequencesExt, TLC

App(kind, push_type, sound, allowed) ==
  [kind |-> kind, topic |-> "topic", push_type |-> push_type, sound |-> sound,
   allowed |-> allowed]

\* Hosts over two letters: "p" and "s" with dots between them, or not.
Letters == {"p", "s", "."}
Local == <<"s">>

MCLoopback == {Local}
MCSettings ==
  ("fcm"   :> App("fcm", None, None, {})) @@
  ("ios"   :> App("apns", "alert", "chime", {})) @@
  ("calls" :> App("apns", "voip", None, {})) @@
  ("web"   :> App("webpush", None, None,
                  {[wildcard |-> TRUE, name |-> <<"p", ".", "s">>],
                   [wildcard |-> FALSE, name |-> <<"p", "s">>],
                   [wildcard |-> FALSE, name |-> Local]}))

Phone(app, key, sound) ==
  [app_id |-> app, pushkey |-> key, sound |-> sound,
   key_ok |-> FALSE, endpoint |-> None, auth_ok |-> FALSE]
Browser(key, scheme, host, auth_ok) ==
  [app_id |-> "web", pushkey |-> key, sound |-> None,
   key_ok |-> TRUE, endpoint |-> [scheme |-> scheme, host |-> host], auth_ok |-> auth_ok]

Phones == {Phone("fcm", "k1", None), Phone("ios", "k1", None), Phone("ios", "k1", "ping"),
           Phone("calls", "k1", None)}
Browsers ==
  {Browser("k2", "https", <<"p", "s">>, TRUE), Browser("k4", "https", <<"p", "s">>, FALSE)}

\* Any two devices, and each twice.
Devices == Phones \cup Browsers
Lists == {<<d, e>> : d, e \in Devices}

Infos ==
  {[f \in F |-> f] : F \in SUBSET {"content", "event_id", "room_id", "room_alias"}}
CountsSet ==
  {None, <<>>, ("unread" :> 2), ("missed_calls" :> 1), ("unread" :> 2) @@ ("missed_calls" :> 1)}

Plain == [info |-> ("event_id" :> "event_id"), counts |-> None, prio |-> None]
Hosts == {h \in BoundedSeq(Letters, 5) : h # <<>>}

\* All kinds of notifications to all pairs of devices, and one to each host.
MCNotifications ==
  {[info |-> i, counts |-> c, prio |-> p, devices |-> l] :
     i \in Infos, c \in CountsSet, p \in {None, "high", "low"}, l \in Lists}
  \cup
  {[info |-> Plain.info, counts |-> Plain.counts, prio |-> Plain.prio,
    devices |-> <<Browser("k3", s, h, TRUE)>>] : s \in {"http", "https"}, h \in Hosts}
=============================================================================
