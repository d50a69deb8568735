----------------------------- MODULE Providers -----------------------------
(***************************************************************************)
(* The delivery backends: deliver of ApnsApp (src/src/apns.rs), FcmApp     *)
(* (src/src/fcm.rs) and WebPushApp (src/src/webpush.rs), which several     *)
(* deliveries run at a time.  Each backend authorizes its pushes with a    *)
(* bearer token from a cache behind a mutex.  The mutex is released while  *)
(* a new token is obtained, signed locally (APNs, VAPID) or fetched from   *)
(* the token endpoint (FCM), so that deliveries may do so side by side.    *)
(*                                                                         *)
(* A behaviour is about one backend, of the kind it starts with.  Payloads *)
(* and encryption are left out.  The push service and the token endpoint   *)
(* are external.                                                           *)
(***************************************************************************)
EXTENDS Naturals, Sequences

CONSTANTS
  Workers,    \* deliveries that run at a time
  Audiences,  \* origins of WebPush endpoints; the others have one service
  NoToken,    \* what an empty cache holds
  Life,       \* how long the service honours a token
  Margin,     \* how long before that a token is refreshed
  Delay,      \* how long a new token may be under way to the cache
  MaxTokens,  \* bound: tokens issued in a behaviour
  MaxTime     \* bound: the clock stops here

ASSUME AudiencesAssumption == Audiences # {}
ASSUME TokenAssumption == NoToken \notin [token : Nat, stored : Nat]
(***************************************************************************)
(* APNs honours a token for an hour and refreshes after TOKEN_MAX_AGE, 45  *)
(* minutes; FCM tokens live for `expires_in` and have a margin of          *)
(* TOKEN_REFRESH_MARGIN, a minute; VAPID tokens live for VAPID_LIFETIME,   *)
(* 12 hours, with a VAPID_REFRESH_MARGIN of an hour.  A request to the     *)
(* token endpoint ends after 15 seconds, the timeout of the client.        *)
(***************************************************************************)
ASSUME TimesAssumption ==
  /\ Life \in Nat /\ Margin \in Nat /\ Delay \in Nat
  /\ Delay <= Margin /\ Delay < Life
ASSUME BoundsAssumption == MaxTokens \in Nat /\ MaxTime \in Nat

VARIABLES
  now,      \* the clock
  kind,     \* which backend: Provider::Apns, Fcm or Webpush
  cached,   \* origin -> the cached token and when it was stored, or NoToken
  stage,    \* worker -> where deliver is
  target,   \* worker -> the origin it delivers to
  bearer,   \* worker -> the token it goes out with, or 0
  issued,   \* the tokens so far: when and for which origin
  revoked,  \* tokens the service does not honour any longer
  refused,  \* history: tokens that a delivery was refused with
  verdict   \* why the delivery that has just ended did so, and its Outcome

vars == <<now, kind, cached, stage, target, bearer, issued, revoked, refused, verdict>>

Kinds == {"Apns", "Fcm", "Webpush"}
Stages == {"idle", "issuing", "storing", "sending"}
Outcomes == {"Delivered", "Rejected", "Skipped", "Transient"}

\* How the service sees a push; "lost" if there is no token or no reply.
Causes == {"none", "declined", "accepted", "dead", "busy", "unauthorized", "unacceptable", "lost"}

Issued == DOMAIN issued
Token == [at : Nat, for : Audiences]
Cached == [token : Nat, stored : Nat]

TypeOK ==
  /\ now \in Nat
  /\ kind \in Kinds
  /\ cached \in [Audiences -> Cached \cup {NoToken}]
  /\ stage \in [Workers -> Stages]
  /\ target \in [Workers -> Audiences]
  /\ bearer \in [Workers -> Issued \cup {0}]
  /\ issued \in Seq(Token)
  /\ revoked \subseteq Issued /\ refused \subseteq Issued
  /\ verdict \in Causes \X Outcomes

Quiet == <<"none", "Skipped">>

Init ==
  /\ now = 0
  /\ kind \in Kinds
  /\ cached = [a \in Audiences |-> NoToken]
  /\ stage = [w \in Workers |-> "idle"]
  /\ target = [w \in Workers |-> CHOOSE a \in Audiences : TRUE]
  /\ bearer = [w \in Workers |-> 0]
  /\ issued = <<>>
  /\ revoked = {} /\ refused = {}
  /\ verdict = Quiet

Goto(w, where) == stage' = [stage EXCEPT ![w] = where] /\ verdict' = Quiet
Ends(w, cause, outcome) ==
  /\ stage' = [stage EXCEPT ![w] = "idle"]
  /\ target' = [target EXCEPT ![w] = CHOOSE a \in Audiences : TRUE]
  /\ bearer' = [bearer EXCEPT ![w] = 0]
  /\ verdict' = <<cause, outcome>>

-----------------------------------------------------------------------------
(***************************************************************************)
(* Taking a token from the cache, or obtaining one.  A definition after    *)
(* "Mistake:" is not part of the model: it is a slip the properties are    *)
(* known to catch when it stands in for the definition after it.           *)
(***************************************************************************)

\* VAPID tokens are for one origin; the other backends have one service.
Destinations ==
  IF kind = "Webpush" THEN Audiences ELSE {CHOOSE a \in Audiences : TRUE}

\* Mistake: one token is cached for all origins.
SharedSlot(a) == CHOOSE b \in Audiences : TRUE

Slot(a) == a

\* Mistake: a token is used up to its last moment.
UsableToTheEnd(c) == now < c.stored + Life

\* issued.elapsed() < TOKEN_MAX_AGE; expires > now + margin.
Usable(c) == now + Margin < c.stored + Life

Hit(a) == cached[Slot(a)] # NoToken /\ Usable(cached[Slot(a)])

\* The look at the cache, which holds the mutex for no longer than that.
Begin(w, a) ==
  /\ stage[w] = "idle" /\ a \in Destinations
  /\ target' = [target EXCEPT ![w] = a]
  /\ IF Hit(a)
       THEN bearer' = [bearer EXCEPT ![w] = cached[Slot(a)].token] /\ Goto(w, "sending")
       ELSE Goto(w, "issuing") /\ UNCHANGED bearer
  /\ UNCHANGED <<now, kind, cached, issued, revoked, refused>>

\* A subscription that is unusable or whose endpoint is not allowed.
Decline(w) ==
  /\ stage[w] = "idle" /\ kind = "Webpush"
  /\ verdict' = <<"declined", "Skipped">>
  /\ UNCHANGED <<now, kind, cached, stage, target, bearer, issued, revoked, refused>>

\* A token is signed, or issued by the token endpoint.
Issue(w) ==
  /\ stage[w] = "issuing"
  /\ Len(issued) < MaxTokens
  /\ issued' = Append(issued, [at |-> now, for |-> target[w]])
  /\ bearer' = [bearer EXCEPT ![w] = Len(issued) + 1]
  /\ Goto(w, "storing")
  /\ UNCHANGED <<now, kind, cached, target, revoked, refused>>

\* Signing fails, or the token endpoint does not answer, or not with success.
IssueFails(w) ==
  /\ stage[w] = "issuing"
  /\ Ends(w, "lost", "Transient")
  /\ UNCHANGED <<now, kind, cached, issued, revoked, refused>>

Stored(w) ==
  [cached EXCEPT ![Slot(target[w])] = [token |-> bearer[w], stored |-> now]]

\* The new token is put into the cache, whatever has got there meanwhile.
Store(w) ==
  /\ stage[w] = "storing"
  /\ cached' = Stored(w)
  /\ Goto(w, "sending")
  /\ UNCHANGED <<now, kind, target, bearer, issued, revoked, refused>>

-----------------------------------------------------------------------------
(***************************************************************************)
(* The answer of the push service: a status, and whether the body names    *)
(* the pushkey as unregistered.                                            *)
(***************************************************************************)
Honoured(t) == t \notin revoked /\ now < issued[t].at + Life

CausesFor(t) ==
  IF Honoured(t) THEN {"accepted", "dead", "busy", "unacceptable"}
                 ELSE {"unauthorized"}

\* How each service says that a pushkey is dead.
DeathNotices ==
  IF kind = "Apns" THEN {<<410, "unregistered">>}
  ELSE IF kind = "Fcm" THEN {<<404, "unregistered">>}
  ELSE {404, 410} \X {"other"}

\* Which replies the services give for a cause.
Replies(cause) ==
  CASE cause = "accepted" -> {<<200, "other">>}
    [] cause = "dead" -> DeathNotices
    [] cause = "busy" -> {408, 429, 503} \X {"other"}
    [] cause = "unauthorized" -> (IF kind = "Apns" THEN {403} ELSE {401, 403}) \X {"other"}
    [] cause = "unacceptable" -> ({400, 404, 410} \X {"other"}) \ DeathNotices

\* Mistake: the status alone condemns the pushkey.
GoneByStatus(status, body) ==
  \/ kind \in {"Apns", "Webpush"} /\ status = 410
  \/ kind \in {"Fcm", "Webpush"} /\ status = 404

\* The one answer each backend takes as the end of a pushkey.
Gone(status, body) ==
  \/ kind = "Apns" /\ status = 410 /\ body = "unregistered"
  \/ kind = "Fcm" /\ status = 404 /\ body = "unregistered"
  \/ kind = "Webpush" /\ status \in {404, 410}

Passing(status) ==
  \/ status \in {403, 408, 429} \/ status >= 500
  \/ status = 401 /\ kind # "Apns"

OutcomeOf(status, body) ==
  IF status \in 200..299 THEN "Delivered"
  ELSE IF Gone(status, body) THEN "Rejected"
  ELSE IF Passing(status) THEN "Transient"
  ELSE "Skipped"

\* Mistake: the token that was refused stays.
KeptAfter(w, status) == cached

\* A 403 discards the cached token, so that the retry signs a fresh one.
CachedAfter(w, status) ==
  IF kind = "Apns" /\ status = 403
    THEN [cached EXCEPT ![Slot(target[w])] = NoToken]
    ELSE cached

Reply(w) ==
  /\ stage[w] = "sending"
  /\ \E cause \in CausesFor(bearer[w]) : \E reply \in Replies(cause) :
       /\ Ends(w, cause, OutcomeOf(reply[1], reply[2]))
       /\ cached' = CachedAfter(w, reply[1])
  /\ refused' = IF Honoured(bearer[w]) THEN refused ELSE refused \cup {bearer[w]}
  /\ UNCHANGED <<now, kind, issued, revoked>>

\* The client has a timeout, and connections break.
NoReply(w) ==
  /\ stage[w] = "sending"
  /\ Ends(w, "lost", "Transient")
  /\ UNCHANGED <<now, kind, cached, issued, revoked, refused>>

-----------------------------------------------------------------------------
\* The service stops honouring the tokens issued so far.
Revoke ==
  /\ Issued # {}
  /\ revoked' = Issued
  /\ verdict' = Quiet
  /\ UNCHANGED <<now, kind, cached, stage, target, bearer, issued, refused>>

\* A new token reaches the cache within Delay.
Tick ==
  /\ now < MaxTime
  /\ \A w \in Workers : stage[w] = "storing" => now < issued[bearer[w]].at + Delay
  /\ now' = now + 1
  /\ verdict' = Quiet
  /\ UNCHANGED <<kind, cached, stage, target, bearer, issued, revoked, refused>>

Next ==
  \/ \E w \in Workers :
       \/ \E a \in Audiences : Begin(w, a)
       \/ Reply(w) \/ Decline(w) \/ Issue(w) \/ IssueFails(w) \/ Store(w) \/ NoReply(w)
  \/ Revoke \/ Tick

Spec == Init /\ [][Next]_vars

-----------------------------------------------------------------------------
(***************************************************************************)
(* Properties.                                                             *)
(***************************************************************************)

(* A push goes out with a token that the service still honours by its age, *)
(* although the cache counts from the moment a token is stored and not     *)
(* from the moment it was issued, and although deliveries that obtain      *)
(* tokens side by side may put an older one in the place of a newer one    *)
(* (bearer_token, access_token, vapid_header).                             *)
BearerInTime ==
  [][\A w \in Workers :
       stage[w] # "sending" /\ stage'[w] = "sending"
         => now < issued[bearer'[w]].at + Life]_vars

(* A token that APNs has refused is not in the cache any more, so that the *)
(* retry goes out with another one, whichever deliveries were looking at   *)
(* the cache or signing at the time (the 403 of ApnsApp::deliver).         *)
RefusedIsDiscarded ==
  kind = "Apns" =>
    \A a \in Audiences : cached[a] # NoToken => cached[a].token \notin refused

(* A token goes to the origin it was issued for (vapid_header: tokens are  *)
(* audience-scoped).                                                       *)
RightAudience ==
  \A w \in Workers : stage[w] = "sending" => issued[bearer[w]].for = target[w]

(* The verdict on a push is just: only a dead pushkey is rejected, which   *)
(* costs the user the pusher; a failure that may pass is transient, so     *)
(* that the notification is sent again and not dropped; only what the      *)
(* service has accepted is delivered, and will be suppressed from then on. *)
JustVerdicts ==
  LET cause == verdict[1]  outcome == verdict[2]
  IN  /\ outcome = "Rejected" <=> cause = "dead"
      /\ outcome = "Transient" <=> cause \in {"busy", "unauthorized", "lost"}
      /\ outcome = "Delivered" <=> cause = "accepted"
=============================================================================
