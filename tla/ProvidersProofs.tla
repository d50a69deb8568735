-------------------------- MODULE ProvidersProofs --------------------------
(***************************************************************************)
(* Proofs about what the backends do: Providers, their tokens and          *)
(* verdicts, and Requests, what they are given to send and send, for every *)
(* value of the constants of the two modules.                              *)
(***************************************************************************)
EXTENDS Providers, Requests, SequenceTheorems, TLAPS

\* The origin of the backends that have one service only.
Home == CHOOSE a \in Audiences : TRUE

LEMMA HomeIsAudience == Home \in Audiences
BY AudiencesAssumption DEF Home

LEMMA DestinationsAreAudiences == Home \in Destinations /\ Destinations \subseteq Audiences
BY HomeIsAudience DEF Destinations, Home

-----------------------------------------------------------------------------
(***************************************************************************)
(* The table of statuses.                                                  *)
(***************************************************************************)

\* A failed delivery has a just verdict whichever reply the service gave.
LEMMA OutcomesAreJust ==
  ASSUME kind \in Kinds, NEW t, NEW cause \in CausesFor(t), NEW reply \in Replies(cause)
  PROVE  /\ OutcomeOf(reply[1], reply[2]) \in Outcomes
         /\ OutcomeOf(reply[1], reply[2]) = "Rejected" <=> cause = "dead"
         /\ OutcomeOf(reply[1], reply[2]) = "Transient" <=> cause \in {"busy", "unauthorized"}
         /\ OutcomeOf(reply[1], reply[2]) = "Delivered" <=> cause = "accepted"
<1>1. cause \in {"accepted", "dead", "busy", "unacceptable", "unauthorized"}
  BY DEF CausesFor
<1>2. CASE cause = "accepted"
  <2>1. reply = <<200, "other">>
    BY <1>2 DEF Replies
  <2>2. QED
    BY <1>2, <2>1 DEF OutcomeOf, Outcomes
<1>3. CASE cause = "dead"
  <2>1. reply \in DeathNotices
    BY <1>3 DEF Replies
  <2>2. Gone(reply[1], reply[2]) /\ reply[1] \in {404, 410}
    BY <2>1 DEF DeathNotices, Gone, Kinds
  <2>3. QED
    BY <1>3, <2>2 DEF OutcomeOf, Outcomes
<1>4. CASE cause = "busy"
  <2>1. reply[1] \in {408, 429, 503}
    BY <1>4 DEF Replies
  <2>2. ~Gone(reply[1], reply[2]) /\ Passing(reply[1])
    BY <2>1 DEF Gone, Passing, Kinds
  <2>3. QED
    BY <1>4, <2>1, <2>2 DEF OutcomeOf, Outcomes
<1>5. CASE cause = "unauthorized"
  <2>1. reply[1] = 403 \/ (reply[1] = 401 /\ kind # "Apns")
    <3>1. reply \in (IF kind = "Apns" THEN {403} ELSE {401, 403}) \X {"other"}
      BY <1>5 DEF Replies
    <3>2. QED
      BY <3>1
  <2>2. ~Gone(reply[1], reply[2]) /\ Passing(reply[1])
    BY <2>1 DEF Gone, Passing, Kinds
  <2>3. QED
    BY <1>5, <2>1, <2>2 DEF OutcomeOf, Outcomes
<1>6. CASE cause = "unacceptable"
  <2>1. reply \in ({400, 404, 410} \X {"other"}) \ DeathNotices
    BY <1>6 DEF Replies
  <2>2. reply[1] \in {400, 404, 410} /\ reply[2] = "other" /\ reply = <<reply[1], reply[2]>>
    BY <2>1
  <2>3. ~Gone(reply[1], reply[2])
    BY <2>1, <2>2 DEF Gone, DeathNotices, Kinds
  <2>4. ~Passing(reply[1])
    BY <2>2 DEF Passing
  <2>5. QED
    BY <1>6, <2>2, <2>3, <2>4 DEF OutcomeOf, Outcomes
<1>7. QED
  BY <1>1, <1>2, <1>3, <1>4, <1>5, <1>6

-----------------------------------------------------------------------------
(***************************************************************************)
(* The inductive invariant.  A delivery holds a token that was issued for  *)
(* its origin; so does the cache, which counts from a moment at most Delay *)
(* after the token was issued.  Until a token is stored nobody else has    *)
(* it, so that it cannot have been refused when it enters the cache.       *)
(***************************************************************************)
Holding(w) == stage[w] \in {"storing", "sending"}

BearersSound ==
  \A w \in Workers :
    /\ target[w] \in Destinations
    /\ Holding(w) => bearer[w] \in Issued /\ issued[bearer[w]].for = target[w]
    /\ stage[w] = "storing" => now <= issued[bearer[w]].at + Delay

CacheSound ==
  \A a \in Audiences :
    cached[a] # NoToken =>
      /\ a \in Destinations
      /\ cached[a].token \in Issued
      /\ issued[cached[a].token].for = a
      /\ cached[a].stored <= issued[cached[a].token].at + Delay

UnstoredIsOwn ==
  \A w \in Workers :
    stage[w] = "storing" =>
      /\ bearer[w] \notin refused
      /\ \A a \in Audiences : cached[a] # NoToken => cached[a].token # bearer[w]
      /\ \A v \in Workers : v # w /\ Holding(v) => bearer[v] # bearer[w]

Inv ==
  /\ TypeOK
  /\ BearersSound
  /\ CacheSound
  /\ UnstoredIsOwn
  /\ RefusedIsDiscarded
  /\ JustVerdicts

LEMMA InitInv == Init => Inv
<1> SUFFICES ASSUME Init PROVE Inv
  OBVIOUS
<1> USE DEF Init
<1>1. TypeOK
  BY HomeIsAudience, EmptySeq
     DEF TypeOK, Issued, Token, Quiet, Causes, Outcomes, Stages, Home
<1>2. BearersSound
  BY DestinationsAreAudiences DEF BearersSound, Holding, Home
<1>3. CacheSound /\ UnstoredIsOwn /\ RefusedIsDiscarded
  BY DEF CacheSound, UnstoredIsOwn, RefusedIsDiscarded
<1>4. JustVerdicts
  BY DEF JustVerdicts, Quiet
<1>5. QED
  BY <1>1, <1>2, <1>3, <1>4 DEF Inv

\* A delivery ends: it gives up its token and its origin.
LEMMA EndKeepsInv ==
  ASSUME Inv, NEW w \in Workers, NEW cause, NEW outcome, Ends(w, cause, outcome),
         <<cause, outcome>> \in Causes \X Outcomes,
         outcome = "Rejected" <=> cause = "dead",
         outcome = "Transient" <=> cause \in {"busy", "unauthorized", "lost"},
         outcome = "Delivered" <=> cause = "accepted",
         UNCHANGED <<now, kind, issued>>,
         revoked' \subseteq Issued, refused' \subseteq Issued,
         \A a \in Audiences : cached'[a] = cached[a] \/ cached'[a] = NoToken,
         cached' \in [Audiences -> Cached \cup {NoToken}],
         \A v \in Workers :
           v # w /\ stage[v] = "storing" /\ bearer[v] \in refused' => bearer[v] \in refused,
         kind = "Apns" => \A a \in Audiences :
           cached'[a] # NoToken => cached'[a].token \notin refused'
  PROVE  Inv'
<1> USE DEF Inv, Ends
<1>1. TypeOK'
  BY HomeIsAudience DEF TypeOK, Stages, Home, Issued
<1>2. BearersSound'
  BY DestinationsAreAudiences
     DEF BearersSound, Holding, TypeOK, Home, Issued, Destinations
<1>3. CacheSound'
  BY DEF CacheSound, Issued, Destinations
<1>4. UnstoredIsOwn'
  BY DEF UnstoredIsOwn, Holding, TypeOK
<1>5. RefusedIsDiscarded'
  BY DEF RefusedIsDiscarded
<1>6. JustVerdicts'
  BY DEF JustVerdicts
<1>7. QED
  BY <1>1, <1>2, <1>3, <1>4, <1>5, <1>6

LEMMA QuietIsJust ==
  ASSUME verdict' = Quiet
  PROVE  JustVerdicts' /\ verdict' \in Causes \X Outcomes
BY DEF JustVerdicts, Quiet, Causes, Outcomes

LEMMA BeginKeepsInv ==
  ASSUME Inv, NEW w \in Workers, NEW a \in Audiences, Begin(w, a)
  PROVE  Inv'
<1> USE DEF Inv, Begin, Goto
<1>1. JustVerdicts' /\ verdict' \in Causes \X Outcomes
  BY QuietIsJust
<1>2. CASE Hit(a)
  <2>1. /\ cached[a] # NoToken /\ cached[a].token \in Issued
        /\ bearer' = [bearer EXCEPT ![w] = cached[a].token]
        /\ stage' = [stage EXCEPT ![w] = "sending"]
    BY <1>2 DEF Hit, Slot, CacheSound
  <2>2. TypeOK'
    BY <1>1, <2>1 DEF TypeOK, Stages, Issued
  <2>3. BearersSound'
    BY <2>1 DEF BearersSound, Holding, TypeOK, CacheSound, Issued, Destinations
  <2>4. CacheSound'
    BY DEF CacheSound, Issued, Destinations
  <2>5. UnstoredIsOwn'
    BY <2>1 DEF UnstoredIsOwn, Holding, TypeOK
  <2>6. QED
    BY <1>1, <2>2, <2>3, <2>4, <2>5 DEF RefusedIsDiscarded
<1>3. CASE ~Hit(a)
  <2>1. bearer' = bearer /\ stage' = [stage EXCEPT ![w] = "issuing"]
    BY <1>3
  <2>2. TypeOK'
    BY <1>1, <2>1 DEF TypeOK, Stages, Issued
  <2>3. BearersSound'
    BY <2>1 DEF BearersSound, Holding, TypeOK, Issued, Destinations
  <2>4. CacheSound'
    BY DEF CacheSound, Issued, Destinations
  <2>5. UnstoredIsOwn'
    BY <2>1 DEF UnstoredIsOwn, Holding, TypeOK
  <2>6. QED
    BY <1>1, <2>2, <2>3, <2>4, <2>5 DEF RefusedIsDiscarded
<1>4. QED
  BY <1>2, <1>3

LEMMA IssueKeepsInv ==
  ASSUME Inv, NEW w \in Workers, Issue(w)
  PROVE  Inv'
<1> DEFINE n == Len(issued) + 1
           new == [at |-> now, for |-> target[w]]
<1> USE DEF Inv, Issue, Goto
<1>1. JustVerdicts' /\ verdict' \in Causes \X Outcomes
  BY QuietIsJust
<1>2. target[w] \in Audiences /\ now \in Nat /\ new \in Token /\ issued \in Seq(Token)
  BY DEF TypeOK, Token
<1>3. /\ issued' \in Seq(Token) /\ Issued' = 1..n /\ Issued = 1..Len(issued)
      /\ issued'[n] = new /\ \A i \in Issued : issued'[i] = issued[i]
      /\ Len(issued) \in Nat /\ n \notin Issued /\ Issued \subseteq Issued'
  BY <1>2, AppendProperties, LenProperties DEF Issued
<1>4. TypeOK'
  <2>1. bearer' \in [Workers -> Issued' \cup {0}]
    BY <1>3 DEF TypeOK
  <2>2. stage' \in [Workers -> Stages]
    BY DEF TypeOK, Stages
  <2>3. QED
    BY <1>1, <1>3, <2>1, <2>2 DEF TypeOK
<1>5. BearersSound'
  BY <1>2, <1>3, TimesAssumption DEF BearersSound, Holding, TypeOK, Destinations
<1>6. CacheSound'
  BY <1>3 DEF CacheSound, Destinations
<1>7. UnstoredIsOwn'
  BY <1>3 DEF UnstoredIsOwn, BearersSound, CacheSound, Holding, TypeOK
<1>8. QED
  BY <1>1, <1>4, <1>5, <1>6, <1>7 DEF RefusedIsDiscarded

LEMMA StoreKeepsInv ==
  ASSUME Inv, NEW w \in Workers, Store(w)
  PROVE  Inv'
<1> DEFINE new == [token |-> bearer[w], stored |-> now]
<1> USE DEF Inv, Store, Goto
<1>1. JustVerdicts' /\ verdict' \in Causes \X Outcomes
  BY QuietIsJust
<1>2. /\ cached' = [cached EXCEPT ![target[w]] = new]
      /\ target[w] \in Audiences /\ target[w] \in Destinations
      /\ bearer[w] \in Issued /\ issued[bearer[w]].for = target[w]
      /\ now <= issued[bearer[w]].at + Delay /\ bearer[w] \notin refused
  BY DEF Stored, Slot, TypeOK, BearersSound, UnstoredIsOwn, Holding
<1>3. Issued \subseteq Nat /\ new \in Cached
  BY <1>2, LenProperties DEF TypeOK, Issued, Cached
<1>4. TypeOK'
  BY <1>1, <1>2, <1>3 DEF TypeOK, Stages, Issued
<1>5. BearersSound'
  BY <1>2 DEF BearersSound, Holding, TypeOK, Issued, Destinations
<1>6. CacheSound'
  BY <1>2 DEF CacheSound, TypeOK, Issued, Destinations
<1>7. UnstoredIsOwn'
  BY <1>2 DEF UnstoredIsOwn, Holding, TypeOK
<1>8. RefusedIsDiscarded'
  BY <1>2 DEF RefusedIsDiscarded, TypeOK
<1>9. QED
  BY <1>1, <1>4, <1>5, <1>6, <1>7, <1>8

LEMMA ReplyKeepsInv ==
  ASSUME Inv, NEW w \in Workers, Reply(w)
  PROVE  Inv'
<1> USE DEF Inv
<1>1. /\ stage[w] = "sending" /\ UNCHANGED <<now, kind, issued, revoked>>
      /\ kind \in Kinds /\ bearer[w] \in Issued /\ target[w] \in Destinations
      /\ refused' = IF Honoured(bearer[w]) THEN refused ELSE refused \cup {bearer[w]}
  BY DEF Reply, TypeOK, BearersSound, Holding
<1>2. PICK cause \in CausesFor(bearer[w]) : \E reply \in Replies(cause) :
        /\ Ends(w, cause, OutcomeOf(reply[1], reply[2]))
        /\ cached' = CachedAfter(w, reply[1])
  BY DEF Reply
<1>3. PICK reply \in Replies(cause) :
        /\ Ends(w, cause, OutcomeOf(reply[1], reply[2]))
        /\ cached' = CachedAfter(w, reply[1])
  BY <1>2
<1> DEFINE outcome == OutcomeOf(reply[1], reply[2])
<1>4. /\ outcome \in Outcomes
      /\ outcome = "Rejected" <=> cause = "dead"
      /\ outcome = "Transient" <=> cause \in {"busy", "unauthorized"}
      /\ outcome = "Delivered" <=> cause = "accepted"
  BY <1>1, OutcomesAreJust
<1>5. cause \in Causes \ {"lost"}
  BY DEF CausesFor, Causes
<1>6. \A a \in Audiences : cached'[a] = cached[a] \/ cached'[a] = NoToken
  BY <1>3 DEF CachedAfter, TypeOK, Slot
<1>7. cached' \in [Audiences -> Cached \cup {NoToken}]
  BY <1>3 DEF CachedAfter, TypeOK
<1>8. ASSUME NEW v \in Workers, v # w, stage[v] = "storing", bearer[v] \in refused'
      PROVE  bearer[v] \in refused
  BY <1>1, <1>8 DEF UnstoredIsOwn, Holding
<1>9. ASSUME kind = "Apns", NEW a \in Audiences, cached'[a] # NoToken
      PROVE  cached'[a].token \notin refused'
  <2>1. CASE Honoured(bearer[w])
    BY <1>1, <1>6, <1>9, <2>1 DEF RefusedIsDiscarded
  <2>2. CASE ~Honoured(bearer[w])
    <3>1. cause = "unauthorized" /\ reply[1] = 403
      BY <1>9, <2>2 DEF CausesFor, Replies
    <3>2. cached' = [cached EXCEPT ![target[w]] = NoToken] /\ target[w] = Home
      BY <1>1, <1>3, <1>9, <3>1 DEF CachedAfter, Slot, Destinations, Home
    <3>3. cached[a] # NoToken => a = Home
      BY <1>9 DEF CacheSound, Destinations, Home
    <3>4. QED
      BY <1>6, <1>9, <3>2, <3>3, HomeIsAudience DEF TypeOK
  <2>3. QED
    BY <2>1, <2>2
<1>10. revoked' \subseteq Issued /\ refused' \subseteq Issued
  BY <1>1 DEF TypeOK
<1>11. QED
  BY <1>1, <1>3, <1>4, <1>5, <1>6, <1>7, <1>8, <1>9, <1>10, EndKeepsInv

LEMMA FailureKeepsInv ==
  ASSUME Inv, NEW w \in Workers, IssueFails(w) \/ NoReply(w)
  PROVE  Inv'
<1>1. Ends(w, "lost", "Transient") /\ UNCHANGED <<now, kind, cached, issued, revoked, refused>>
  BY DEF IssueFails, NoReply
<1>2. <<"lost", "Transient">> \in Causes \X Outcomes
  BY DEF Causes, Outcomes
<1>3. TypeOK /\ RefusedIsDiscarded
  BY DEF Inv
<1>4. QED
  BY <1>1, <1>2, <1>3, EndKeepsInv DEF TypeOK, RefusedIsDiscarded

LEMMA StillKeepsInv ==
  ASSUME Inv, UNCHANGED <<kind, cached, stage, target, bearer, issued, refused>>,
         now' \in Nat, revoked' \subseteq Issued,
         JustVerdicts' /\ verdict' \in Causes \X Outcomes,
         \A w \in Workers : stage[w] = "storing" => now' <= issued[bearer[w]].at + Delay
  PROVE  Inv'
<1> USE DEF Inv
<1>1. TypeOK'
  BY DEF TypeOK, Issued
<1>2. BearersSound'
  BY DEF BearersSound, Holding, Issued, Destinations
<1>3. CacheSound'
  BY DEF CacheSound, Issued, Destinations
<1>4. UnstoredIsOwn'
  BY DEF UnstoredIsOwn, Holding
<1>5. QED
  BY <1>1, <1>2, <1>3, <1>4 DEF RefusedIsDiscarded

LEMMA TickKeepsInv ==
  ASSUME Inv, Tick
  PROVE  Inv'
<1> USE DEF Inv, Tick
<1>1. JustVerdicts' /\ verdict' \in Causes \X Outcomes
  BY QuietIsJust
<1>2. now' \in Nat /\ revoked' \subseteq Issued
  BY DEF TypeOK
<1>3. ASSUME NEW w \in Workers, stage[w] = "storing"
      PROVE  now' <= issued[bearer[w]].at + Delay
  <2>1. bearer[w] \in Issued
    BY <1>3 DEF BearersSound, Holding
  <2>2. issued[bearer[w]] \in Token
    BY <2>1, ElementOfSeq, LenProperties DEF TypeOK, Issued
  <2>3. issued[bearer[w]].at \in Nat /\ now \in Nat
    BY <2>2 DEF Token, TypeOK
  <2>4. QED
    BY <1>3, <2>3, TimesAssumption
<1>4. QED
  BY <1>1, <1>2, <1>3, StillKeepsInv

LEMMA RevokeKeepsInv ==
  ASSUME Inv, Revoke \/ \E w \in Workers : Decline(w)
  PROVE  Inv'
<1>1. /\ UNCHANGED <<now, kind, cached, stage, target, bearer, issued, refused>>
      /\ revoked' \in {revoked, Issued}
      /\ verdict' = Quiet \/ verdict' = <<"declined", "Skipped">>
  BY DEF Revoke, Decline
<1>2. JustVerdicts' /\ verdict' \in Causes \X Outcomes
  BY <1>1, QuietIsJust DEF JustVerdicts, Causes, Outcomes
<1>3. TypeOK /\ BearersSound
  BY DEF Inv
<1>4. now' \in Nat /\ revoked' \subseteq Issued
  BY <1>1, <1>3 DEF TypeOK
<1>5. \A w \in Workers : stage[w] = "storing" => now' <= issued[bearer[w]].at + Delay
  BY <1>1, <1>3 DEF BearersSound
<1>6. QED
  BY <1>1, <1>2, <1>4, <1>5, StillKeepsInv

LEMMA NextInv == Inv /\ [Next]_vars => Inv'
<1> SUFFICES ASSUME Inv, [Next]_vars PROVE Inv'
  OBVIOUS
<1>1. ASSUME NEW w \in Workers, NEW a \in Audiences, Begin(w, a) PROVE Inv'
  BY <1>1, BeginKeepsInv
<1>2. ASSUME NEW w \in Workers, Issue(w) PROVE Inv'
  BY <1>2, IssueKeepsInv
<1>3. ASSUME NEW w \in Workers, Store(w) PROVE Inv'
  BY <1>3, StoreKeepsInv
<1>4. ASSUME NEW w \in Workers, Reply(w) PROVE Inv'
  BY <1>4, ReplyKeepsInv
<1>5. ASSUME NEW w \in Workers, IssueFails(w) \/ NoReply(w) PROVE Inv'
  BY <1>5, FailureKeepsInv
<1>6. ASSUME NEW w \in Workers, Decline(w) PROVE Inv'
  BY <1>6, RevokeKeepsInv
<1>7. CASE Revoke
  BY <1>7, RevokeKeepsInv
<1>8. CASE Tick
  BY <1>8, TickKeepsInv
<1>9. CASE UNCHANGED vars
  <2>1. TypeOK /\ BearersSound /\ JustVerdicts
    BY DEF Inv
  <2>2. JustVerdicts' /\ verdict' \in Causes \X Outcomes
    BY <1>9, <2>1 DEF vars, JustVerdicts, TypeOK
  <2>3. now' \in Nat /\ revoked' \subseteq Issued
    BY <1>9, <2>1 DEF vars, TypeOK
  <2>4. \A w \in Workers : stage[w] = "storing" => now' <= issued[bearer[w]].at + Delay
    BY <1>9, <2>1 DEF vars, BearersSound
  <2>5. UNCHANGED <<kind, cached, stage, target, bearer, issued, refused>>
    BY <1>9 DEF vars
  <2>6. QED
    BY <2>2, <2>3, <2>4, <2>5, StillKeepsInv
<1>10. QED
  BY <1>1, <1>2, <1>3, <1>4, <1>5, <1>6, <1>7, <1>8, <1>9 DEF Next

LEMMA Invariance == Spec => []Inv
BY InitInv, NextInv, PTL DEF Spec

-----------------------------------------------------------------------------
(***************************************************************************)
(* The theorems.                                                           *)
(***************************************************************************)

(* The type invariant of the backends: stages, tokens, caches and verdicts *)
(* stay what they are declared to be (deliver of the three backends).      *)
THEOREM TypeCorrect == Spec => []TypeOK
<1>1. Inv => TypeOK
  BY DEF Inv
<1>2. QED
  BY <1>1, Invariance, PTL

(* A token that APNs has refused is out of the cache for good, however     *)
(* many deliveries look, sign and store at the same time.                  *)
THEOREM RefusedAreDiscarded == Spec => []RefusedIsDiscarded
<1>1. Inv => RefusedIsDiscarded
  BY DEF Inv
<1>2. QED
  BY <1>1, Invariance, PTL

(* A push never goes to an origin with a token issued for another one.     *)
THEOREM AudiencesAreRight == Spec => []RightAudience
<1>1. Inv => RightAudience
  BY DEF Inv, BearersSound, RightAudience, Holding
<1>2. QED
  BY <1>1, Invariance, PTL

(* Whatever the services reply, dead pushkeys and only those are rejected, *)
(* and what may pass is transient.                                         *)
THEOREM VerdictsAreJust == Spec => []JustVerdicts
<1>1. Inv => JustVerdicts
  BY DEF Inv
<1>2. QED
  BY <1>1, Invariance, PTL

(* A push goes out before the end of its token, as long as a new token     *)
(* reaches the cache within the margin.                                    *)
THEOREM BearersInTime == Spec => BearerInTime
<1>1. ASSUME Inv, [Next]_vars, NEW w \in Workers, stage[w] # "sending", stage'[w] = "sending"
      PROVE  now < issued[bearer'[w]].at + Life
  <2> USE DEF Inv
  <2>1. (\E a \in Audiences : Begin(w, a)) \/ Store(w)
    <3>1. stage \in [Workers -> Stages]
      BY <1>1 DEF TypeOK
    <3>2. stage' # stage
      BY <1>1
    <3>3. QED
      BY <1>1, <3>1, <3>2, ZenonT(30)
         DEF Next, vars, Begin, Decline, Issue, IssueFails, Store, Reply, NoReply,
             Revoke, Tick, Ends, Goto
  <2>2. now \in Nat /\ \A t \in Issued : issued[t].at \in Nat
    <3>1. \A t \in Issued : issued[t] \in Token
      BY <1>1, ElementOfSeq, LenProperties DEF TypeOK, Issued
    <3>2. QED
      BY <1>1, <3>1 DEF Token, TypeOK
  <2>3. CASE Store(w)
    <3>1. bearer' = bearer /\ bearer[w] \in Issued /\ now <= issued[bearer[w]].at + Delay
      BY <1>1, <2>3 DEF Store, BearersSound, Holding
    <3>2. QED
      BY <2>2, <3>1, TimesAssumption
  <2>4. CASE \E a \in Audiences : Begin(w, a)
    <3>1. PICK a \in Audiences : Begin(w, a)
      BY <2>4
    <3>2. CASE ~Hit(a)
      <4>1. stage' = [stage EXCEPT ![w] = "issuing"]
        BY <3>1, <3>2 DEF Begin, Goto
      <4>2. QED
        BY <1>1, <4>1 DEF TypeOK
    <3>3. CASE Hit(a)
      <4>1. /\ cached[a] # NoToken /\ Usable(cached[a])
            /\ bearer' = [bearer EXCEPT ![w] = cached[a].token]
        BY <3>1, <3>3 DEF Begin, Hit, Slot
      <4>2. /\ cached[a].token \in Issued
            /\ cached[a].stored <= issued[cached[a].token].at + Delay
            /\ cached[a] \in Cached
        BY <1>1, <4>1 DEF CacheSound, TypeOK
      <4>3. bearer'[w] = cached[a].token /\ cached[a].stored \in Nat
        BY <1>1, <4>1, <4>2 DEF TypeOK, Cached
      <4>4. now + Margin < cached[a].stored + Life
        BY <4>1 DEF Usable
      <4>5. QED
        BY <2>2, <4>2, <4>3, <4>4, TimesAssumption
    <3>4. QED
      BY <3>2, <3>3
  <2>5. QED
    BY <2>1, <2>3, <2>4
<1>2. Inv /\ [Next]_vars =>
        \A w \in Workers :
          stage[w] # "sending" /\ stage'[w] = "sending" => now < issued[bearer'[w]].at + Life
  BY <1>1
<1>3. QED
  BY <1>2, Invariance, PTL DEF Spec, BearerInTime

-----------------------------------------------------------------------------
(***************************************************************************)
(* Requests: what the queue stores and the poll side reads back leads to   *)
(* the same request.                                                       *)
(***************************************************************************)
Copy(n, d) == [Serialized(n) EXCEPT !.devices = <<d>>]

LEMMA CopyFields ==
  ASSUME NEW n \in Notifications, NEW d
  PROVE  /\ Copy(n, d).info = Restrict(n.info, DOMAIN n.info \ {"content"})
         /\ Copy(n, d).counts = n.counts /\ Copy(n, d).prio = n.prio
         /\ Copy(n, d).devices = <<d>>
         /\ EntryFor(n, d) = [notification |-> Copy(n, d), count_key |-> CountKey(n, d)]
<1>1. n = [info |-> n.info, counts |-> n.counts, prio |-> n.prio, devices |-> n.devices]
  BY NotificationsAssumption
<1>2. PICK i, c, p, l :
        n = [info |-> i, counts |-> c, prio |-> p, devices |-> l]
  BY <1>1
<1> QED
  BY <1>2 DEF Copy, Serialized, EntryFor

LEMMA EntryFields ==
  ASSUME NEW n \in Notifications, NEW d
  PROVE  /\ EntryFor(n, d).notification = Copy(n, d)
         /\ EntryFor(n, d).count_key = CountKey(n, d)
         /\ Head(Copy(n, d).devices) = d
<1>1. /\ EntryFor(n, d) = [notification |-> Copy(n, d), count_key |-> CountKey(n, d)]
      /\ Copy(n, d).devices = <<d>>
  BY CopyFields
<1>2. \A c, k : [notification |-> c, count_key |-> k].notification = c
             /\ [notification |-> c, count_key |-> k].count_key = k
  OBVIOUS
<1>3. EntryFor(n, d).notification = Copy(n, d) /\ EntryFor(n, d).count_key = CountKey(n, d)
  BY ONLY <1>1, <1>2
<1>4. Head(<<d>>) = d
  OBVIOUS
<1> QED
  BY <1>1, <1>3, <1>4

LEMMA CopyTells ==
  ASSUME NEW n \in Notifications, NEW d
  PROVE  /\ HasEvent(Copy(n, d)) <=> HasEvent(n)
         /\ Unread(Copy(n, d)) = Unread(n)
         /\ Priority(Copy(n, d)) = Priority(n)
         /\ Metadata(Copy(n, d)) = Metadata(n)
<1> DEFINE m == Copy(n, d)
<1>1. /\ m.info = [f \in DOMAIN n.info \ {"content"} |-> n.info[f]]
      /\ m.counts = n.counts /\ m.prio = n.prio
  BY CopyFields DEF Restrict
<1> HIDE DEF m
<1>2. DOMAIN m.info = DOMAIN n.info \ {"content"}
  BY <1>1
<1>3. CountsOf(m) = CountsOf(n)
  BY <1>1 DEF CountsOf
<1>4. HasEvent(m) <=> HasEvent(n)
  BY <1>2 DEF HasEvent
<1>5. Unread(m) = Unread(n) /\ Priority(m) = Priority(n)
  BY <1>1, <1>3 DEF Unread, Priority
<1>6. Metadata(m) = Metadata(n)
  <2>1. DOMAIN m.info \cap Forwarded = DOMAIN n.info \cap Forwarded
    BY <1>2 DEF Forwarded
  <2>2. \A f \in DOMAIN m.info : m.info[f] = n.info[f]
    BY <1>1, <1>2
  <2> DEFINE F == (DOMAIN n.info \cap Forwarded) \cup (DOMAIN CountsOf(n) \cap Counts)
             mine(f) == IF f \in Counts THEN CountsOf(n)[f] ELSE m.info[f]
             theirs(f) == IF f \in Counts THEN CountsOf(n)[f] ELSE n.info[f]
  <2>3. Metadata(m) = [f \in F |-> mine(f)] /\ Metadata(n) = [f \in F |-> theirs(f)]
    BY <1>3, <2>1 DEF Metadata
  <2>4. \A f \in F : mine(f) = theirs(f)
    BY <2>1, <2>2
  <2> HIDE DEF F, mine, theirs
  <2> QED
    BY <2>3, <2>4
<1> QED
  BY <1>4, <1>5, <1>6 DEF m

LEMMA SameRequest ==
  ASSUME NEW n \in Notifications, NEW d
  PROVE  RequestFor(Copy(n, d), d) = RequestFor(n, d)
<1> DEFINE m == Copy(n, d)
<1>1. /\ HasEvent(m) <=> HasEvent(n)
      /\ Unread(m) = Unread(n)
      /\ Priority(m) = Priority(n)
      /\ Metadata(m) = Metadata(n)
  BY CopyTells
<1> HIDE DEF m
<1>2. Message(m, d) = Message(n, d)
  BY <1>1 DEF Message
<1>3. \A app : Aps(m, d, app) = Aps(n, d, app)
  BY <1>1 DEF Aps
<1>4. \A app : ApnsPush(m, d, app) = ApnsPush(n, d, app)
  BY <1>1, <1>3 DEF ApnsPush
<1>5. \A app : WebPush(m, d, app) = WebPush(n, d, app)
  BY <1>1 DEF WebPush
<1>6. RequestFor(m, d) = RequestFor(n, d)
  BY <1>2, <1>4, <1>5, Zenon DEF RequestFor
<1> QED
  BY <1>6 DEF m

\* What every request tells the app, and what it never does.
LEMMA RequestTells ==
  ASSUME NEW n, NEW d, d.app_id \in DOMAIN Settings
  PROVE  /\ RequestFor(n, d) # NoRequest => RequestFor(n, d).data = Metadata(n)
         /\ "content" \notin DOMAIN Metadata(n)
         /\ "event_id" \in DOMAIN Metadata(n) <=> HasEvent(n)
         /\ RequestFor(n, d).kind = "apns" /\ RequestFor(n, d).aps.alert => HasEvent(n)
<1> DEFINE app == Settings[d.app_id]
<1>1. app.kind \in {"fcm", "apns", "webpush"}
  BY SettingsAssumption
<1>2. DOMAIN Metadata(n) = (DOMAIN n.info \cap Forwarded) \cup (DOMAIN CountsOf(n) \cap Counts)
  BY DEF Metadata
<1>3. "content" \notin DOMAIN Metadata(n) /\ ("event_id" \in DOMAIN Metadata(n) <=> HasEvent(n))
  BY <1>2 DEF Forwarded, Counts, HasEvent
<1>4. CASE app.kind = "fcm"
  <2>1. RequestFor(n, d) = Message(n, d)
    BY <1>4 DEF RequestFor
  <2> QED
    BY <1>3, <2>1 DEF Message
<1>5. CASE app.kind = "apns"
  <2>1. RequestFor(n, d) = ApnsPush(n, d, app)
    BY <1>5 DEF RequestFor
  <2>2. ApnsPush(n, d, app).data = Metadata(n) /\ ApnsPush(n, d, app).aps = Aps(n, d, app)
    BY DEF ApnsPush
  <2>3. Aps(n, d, app).alert => HasEvent(n)
    BY DEF Aps
  <2> QED
    BY <1>3, <2>1, <2>2, <2>3
<1>6. CASE app.kind = "webpush"
  <2>1. RequestFor(n, d) = WebPush(n, d, app)
    BY <1>6 DEF RequestFor
  <2> QED
    BY <1>3, <2>1 DEF WebPush, NoRequest
<1> QED
  BY <1>1, <1>4, <1>5, <1>6

-----------------------------------------------------------------------------
(***************************************************************************)
(* Where a notification is on its way: the queue holds entries for its     *)
(* devices, the poll side a copy for one of them, and what has been sent   *)
(* is what a direct delivery would have sent.                              *)
(***************************************************************************)
Addressees == Range(sent.devices)
AnswerTo(d) == [device |-> Identity(d), request |-> RequestFor(sent, d)]

InOrder ==
  /\ sent \in Notifications
  /\ next \in 1..Len(sent.devices) + 1
  /\ buffer \in Seq({EntryFor(sent, d) : d \in Addressees})
  /\ \/ left = <<>>
     \/ \E d \in Addressees : left = <<d>> /\ current = Copy(sent, d)
  /\ requests \in Seq({AnswerTo(d) : d \in Addressees})

LEMMA AddresseesType ==
  ASSUME sent \in Notifications
  PROVE  /\ sent.devices \in Seq(Addressees)
         /\ DOMAIN sent.devices = 1..Len(sent.devices)
         /\ \A i \in DOMAIN sent.devices : sent.devices[i] \in Addressees
         /\ \A d \in Addressees : d.app_id \in DOMAIN Settings
<1>1. sent.devices \in Seq(Addressees) /\ \A d \in Addressees : d.app_id \in DOMAIN Settings
  BY NotificationsAssumption DEF Addressees
<1> QED
  BY <1>1

LEMMA InOrderInit == TransferInit => InOrder
<1> SUFFICES ASSUME TransferInit PROVE InOrder
  OBVIOUS
<1>1. Len(sent.devices) \in Nat
  BY AddresseesType DEF TransferInit
<1> QED
  BY <1>1 DEF TransferInit, InOrder

LEMMA InOrderStep == InOrder /\ [TransferNext]_TransferVars => InOrder'
<1> SUFFICES ASSUME InOrder, [TransferNext]_TransferVars PROVE InOrder'
  OBVIOUS
<1> DEFINE entries == {EntryFor(sent, d) : d \in Addressees}
           answers == {AnswerTo(d) : d \in Addressees}
<1>1. /\ sent \in Notifications /\ next \in 1..Len(sent.devices) + 1
      /\ Len(sent.devices) \in Nat /\ buffer \in Seq(entries) /\ requests \in Seq(answers)
  BY AddresseesType DEF InOrder
<1>2. sent' = sent => entries' = entries /\ answers' = answers /\ Addressees' = Addressees
  BY DEF Addressees, AnswerTo
<1>3. CASE QueueOne
  <2> DEFINE d == sent.devices[next]
  <2>1. d \in Addressees /\ next + 1 \in 1..Len(sent.devices) + 1
    BY <1>1, <1>3, AddresseesType DEF QueueOne
  <2>2. /\ sent' = sent /\ next' = next + 1 /\ UNCHANGED <<current, left, requests>>
        /\ buffer' = buffer \/ buffer' = Append(buffer, EntryFor(sent, d))
    BY <1>3 DEF QueueOne
  <2> HIDE DEF d
  <2>3. EntryFor(sent, d) \in entries
    BY <2>1
  <2> HIDE DEF entries, answers
  <2>4. buffer' \in Seq(entries)
    BY <1>1, <2>2, <2>3
  <2>5. buffer' \in Seq(entries') /\ requests' \in Seq(answers')
    BY <1>1, <1>2, <2>2, <2>4
  <2> QED
    BY <1>1, <1>2, <2>1, <2>2, <2>5 DEF InOrder, entries, answers
<1>4. CASE Fetch
  <2>1. /\ left = <<>> /\ buffer # <<>> /\ buffer' = Tail(buffer)
        /\ UNCHANGED <<sent, next, requests>>
        /\ \/ UNCHANGED <<current, left>>
           \/ current' = Head(buffer).notification /\ left' = current'.devices
    BY <1>4 DEF Fetch
  <2>2. Head(buffer) \in entries
    BY <1>1, <2>1
  <2>3. PICK d \in Addressees : Head(buffer) = EntryFor(sent, d)
    BY <2>2
  <2>4. Head(buffer).notification = Copy(sent, d) /\ Copy(sent, d).devices = <<d>>
    BY <1>1, <2>3, CopyFields, EntryFields
  <2> HIDE DEF entries, answers
  <2>5. buffer' \in Seq(entries)
    BY <1>1, <2>1
  <2>6. buffer' \in Seq(entries') /\ requests' \in Seq(answers')
    BY <1>1, <1>2, <2>1, <2>5
  <2>7. \/ left' = <<>>
        \/ left' = <<d>> /\ current' = Copy(sent', d)
    BY <2>1, <2>4
  <2> QED
    BY <1>1, <1>2, <2>1, <2>6, <2>7 DEF InOrder, entries, answers
<1>5. CASE Deliver
  <2>1. PICK d \in Addressees : left = <<d>> /\ current = Copy(sent, d)
    BY <1>5 DEF Deliver, InOrder
  <2>2. /\ requests' = Append(requests, [device |-> Identity(d), request |-> RequestFor(current, d)])
        /\ left' = <<>>
        /\ UNCHANGED <<sent, next, recorded, buffer, current>>
    BY <1>5, <2>1 DEF Deliver
  <2>3. requests' = Append(requests, AnswerTo(d)) /\ AnswerTo(d) \in answers
    BY <1>1, <2>1, <2>2, SameRequest DEF AnswerTo
  <2> HIDE DEF entries, answers
  <2>4. requests' \in Seq(answers)
    BY <1>1, <2>3
  <2>5. buffer' \in Seq(entries') /\ requests' \in Seq(answers')
    BY <1>1, <1>2, <2>2, <2>4
  <2> QED
    BY <1>1, <1>2, <2>2, <2>5 DEF InOrder, entries, answers
<1>6. CASE UNCHANGED TransferVars
  BY <1>6 DEF TransferVars, InOrder, Addressees, AnswerTo
<1> QED
  BY <1>3, <1>4, <1>5, <1>6 DEF TransferNext

LEMMA OrderIsKept == TransferSpec => []InOrder
BY InOrderInit, InOrderStep, PTL DEF TransferSpec

(* What may be coalesced is a mere count for every backend: neither an     *)
(* alert nor an event (count_key in enqueue of queue.rs, build_payload of  *)
(* apns.rs).                                                               *)
THEOREM CountsCoalesceOnly == TransferSpec => []OnlyCountsCoalesce
<1>1. InOrder => OnlyCountsCoalesce
  <2> SUFFICES ASSUME InOrder, NEW k \in DOMAIN buffer
               PROVE  LET n == buffer[k].notification
                          r == RequestFor(n, Head(n.devices))
                      IN  buffer[k].count_key # NoKey /\ r # NoRequest =>
                            /\ "event_id" \notin DOMAIN r.data
                            /\ r.kind = "apns" => ~r.aps.alert
    BY DEF OnlyCountsCoalesce
  <2>1. buffer[k] \in {EntryFor(sent, d) : d \in Addressees}
    BY DEF InOrder
  <2>2. PICK d \in Addressees : buffer[k] = EntryFor(sent, d)
    BY <2>1
  <2>3. /\ buffer[k].notification = Copy(sent, d) /\ Head(Copy(sent, d).devices) = d
        /\ buffer[k].count_key = CountKey(sent, d)
    BY <2>2, EntryFields DEF InOrder
  <2>4. RequestFor(Copy(sent, d), d) = RequestFor(sent, d)
    BY SameRequest DEF InOrder
  <2>5. CountKey(sent, d) # NoKey => ~HasEvent(sent)
    BY DEF CountKey
  <2>6. d.app_id \in DOMAIN Settings
    BY AddresseesType DEF InOrder
  <2> QED
    BY <2>3, <2>4, <2>5, <2>6, RequestTells
<1> QED
  BY <1>1, OrderIsKept, PTL

(* Whichever service pushes, the app is told the same, and never the       *)
(* content (build_payload of apns.rs and webpush.rs, build_message of      *)
(* fcm.rs).                                                                *)
THEOREM AllAppsAreToldTheSame == TransferSpec => []SameMetadata
<1>1. InOrder => SameMetadata
  <2> SUFFICES ASSUME InOrder, NEW j \in DOMAIN requests, requests[j].request # NoRequest
               PROVE  /\ requests[j].request.data = Metadata(sent)
                      /\ "content" \notin DOMAIN requests[j].request.data
    BY DEF SameMetadata
  <2>1. requests[j] \in {AnswerTo(d) : d \in Addressees}
    BY DEF InOrder
  <2>2. PICK d \in Addressees : requests[j] = AnswerTo(d)
    BY <2>1
  <2>3. requests[j].request = RequestFor(sent, d) /\ d.app_id \in DOMAIN Settings
    BY <2>2, AddresseesType DEF AnswerTo, InOrder
  <2> QED
    BY <2>3, RequestTells
<1> QED
  BY <1>1, OrderIsKept, PTL

-----------------------------------------------------------------------------
(***************************************************************************)
(* One request per device.  Way is what has been sent, what is being       *)
(* delivered and what waits, by the identity of its device, in order.      *)
(***************************************************************************)
Sent == Len(requests)
InHand == Len(left)
WayLength == Sent + InHand + Len(buffer)
Way ==
  [p \in 1..WayLength |->
     IF p <= Sent THEN requests[p].device
     ELSE IF p <= Sent + InHand THEN Identity(Head(left))
     ELSE Identity(Head(buffer[p - Sent - InHand].notification.devices))]

Taken == 1..next - 1
Id(i) == Identity(sent.devices[i])
Once(i) == HasEvent(sent) \/ \A k \in DOMAIN sent.devices \ {i} : Id(k) # Id(i)

\* Every device taken is on the way, no other one is, and none twice unless its
\* count is listed twice.
OnTheWay ==
  /\ \A p \in 1..WayLength : \E i \in Taken : Way[p] = Id(i)
  /\ \A i \in Taken : \E p \in 1..WayLength : Way[p] = Id(i)
  /\ HasEvent(sent) => recorded = {Id(i) : i \in Taken}
  /\ \A i \in DOMAIN sent.devices : Once(i) =>
       \A p, q \in 1..WayLength : Way[p] = Id(i) /\ Way[q] = Id(i) => p = q

LEMMA Lengths ==
  ASSUME InOrder
  PROVE  /\ Sent \in Nat /\ InHand \in {0, 1} /\ Len(buffer) \in Nat
         /\ WayLength \in Nat
         /\ next \in Nat /\ Taken \subseteq DOMAIN sent.devices
<1>1. Sent \in Nat /\ Len(buffer) \in Nat
  BY DEF InOrder, Sent
<1>2. InHand \in {0, 1}
  BY DEF InOrder, InHand
<1>3. next \in Nat /\ Taken \subseteq DOMAIN sent.devices
  <2>1. DOMAIN sent.devices = 1..Len(sent.devices) /\ Len(sent.devices) \in Nat
           /\ next \in 1..Len(sent.devices) + 1
    BY AddresseesType DEF InOrder
  <2> QED
    BY <2>1 DEF Taken
<1> QED
  BY <1>1, <1>2, <1>3 DEF WayLength

\* The way changes in one of three ways.
Stays == WayLength' = WayLength /\ \A p \in 1..WayLength : Way'[p] = Way[p]
Extends(x) ==
  /\ WayLength' = WayLength + 1
  /\ \A p \in 1..WayLength : Way'[p] = Way[p]
  /\ Way'[WayLength + 1] = x
Omits(c) ==
  /\ WayLength' = WayLength - 1
  /\ \A p \in 1..WayLength' : Way'[p] = IF p < c THEN Way[p] ELSE Way[p + 1]

LEMMA StaysKeeps ==
  ASSUME InOrder, OnTheWay, Stays, UNCHANGED <<sent, next, recorded>>
  PROVE  OnTheWay'
BY DEF Stays, OnTheWay, Taken, Id, Once

LEMMA OmitsKeeps ==
  ASSUME InOrder, OnTheWay, UNCHANGED <<sent, next, recorded>>,
         NEW c \in 1..WayLength, Omits(c), NEW e \in 1..WayLength, e > c, Way[e] = Way[c]
  PROVE  OnTheWay'
<1>1. WayLength \in Nat /\ WayLength' = WayLength - 1 /\ WayLength' \in Nat
  BY Lengths DEF Omits
<1>2. \A p \in 1..WayLength' :
        \E q \in 1..WayLength : q = (IF p < c THEN p ELSE p + 1) /\ Way'[p] = Way[q]
  BY <1>1 DEF Omits
<1>3. \A q \in 1..WayLength : \E p \in 1..WayLength' : Way'[p] = Way[q]
  <2> SUFFICES ASSUME NEW q \in 1..WayLength PROVE \E p \in 1..WayLength' : Way'[p] = Way[q]
    OBVIOUS
  <2>1. CASE q < c
    <3>1. q \in 1..WayLength'
      BY <1>1, <2>1
    <3> QED
      BY <2>1, <3>1 DEF Omits
  <2>2. CASE q > c
    <3>1. q - 1 \in 1..WayLength' /\ ~ (q - 1 < c) /\ (q - 1) + 1 = q
      BY <1>1, <2>2
    <3> QED
      BY <3>1 DEF Omits
  <2>3. CASE q = c
    <3>1. e - 1 \in 1..WayLength' /\ ~ (e - 1 < c) /\ (e - 1) + 1 = e
      BY <1>1
    <3>2. Way'[e - 1] = Way[e]
      BY <3>1 DEF Omits
    <3> QED
      BY <2>3, <3>1, <3>2
  <2> QED
    BY <2>1, <2>2, <2>3
<1>4. ASSUME NEW i \in DOMAIN sent.devices, Once(i), NEW p \in 1..WayLength', NEW q \in 1..WayLength',
             Way'[p] = Id(i), Way'[q] = Id(i)
      PROVE  p = q
  <2>1. PICK v \in 1..WayLength : v = (IF p < c THEN p ELSE p + 1) /\ Way'[p] = Way[v]
    BY <1>2
  <2>2. PICK w \in 1..WayLength : w = (IF q < c THEN q ELSE q + 1) /\ Way'[q] = Way[w]
    BY <1>2
  <2>3. v = w
    BY <1>4, <2>1, <2>2 DEF OnTheWay
  <2> QED
    BY <1>1, <2>1, <2>2, <2>3
<1>5. Taken' = Taken /\ sent' = sent /\ recorded' = recorded
  BY DEF Taken
<1>6. \A p \in 1..WayLength' : \E i \in Taken : Way'[p] = Id(i)
  BY <1>2 DEF OnTheWay
<1>7. \A i \in Taken : \E p \in 1..WayLength' : Way'[p] = Id(i)
  BY <1>3 DEF OnTheWay
<1> QED
  BY <1>4, <1>5, <1>6, <1>7 DEF OnTheWay, Id, Once

LEMMA ExtendsKeeps ==
  ASSUME InOrder, OnTheWay, Extends(Id(next)), next \in DOMAIN sent.devices,
         UNCHANGED sent, next' = next + 1,
         IF HasEvent(sent) THEN Id(next) \notin recorded /\ recorded' = recorded \cup {Id(next)}
                           ELSE recorded' = recorded
  PROVE  OnTheWay'
<1>1. WayLength \in Nat /\ WayLength' = WayLength + 1 /\ next \in Nat \ {0}
  BY Lengths, AddresseesType DEF Extends, InOrder
<1>2. Taken' = Taken \cup {next} /\ next \notin Taken /\ Taken \subseteq DOMAIN sent.devices
  BY <1>1, Lengths DEF Taken
<1>3. \A p \in 1..WayLength' :
        Way'[p] = IF p = WayLength + 1 THEN Id(next) ELSE Way[p]
  BY <1>1 DEF Extends
<1>4. \A p \in 1..WayLength' : \E i \in Taken' : Way'[p] = Id(i)
  BY <1>1, <1>2, <1>3 DEF OnTheWay
<1>5. \A i \in Taken' : \E p \in 1..WayLength' : Way'[p] = Id(i)
  <2>1. \A i \in Taken : \E p \in 1..WayLength' : Way'[p] = Id(i)
    BY <1>1, <1>3 DEF OnTheWay
  <2>2. WayLength + 1 \in 1..WayLength' /\ Way'[WayLength + 1] = Id(next)
    BY <1>1, <1>3
  <2> QED
    BY <1>2, <2>1, <2>2
<1>6. HasEvent(sent) => recorded' = {Id(i) : i \in Taken'}
  BY <1>2 DEF OnTheWay
<1>7. ASSUME NEW i \in DOMAIN sent.devices, Once(i), Id(i) = Id(next), NEW p \in 1..WayLength
      PROVE  Way[p] # Id(i)
  <2> SUFFICES ASSUME Way[p] = Id(i) PROVE FALSE
    OBVIOUS
  <2>1. PICK k \in Taken : Way[p] = Id(k)
    BY DEF OnTheWay
  <2>2. CASE HasEvent(sent)
    BY <1>7, <2>1, <2>2 DEF OnTheWay
  <2>3. CASE ~HasEvent(sent)
    <3>1. k = i /\ next = i
      BY <1>2, <1>7, <2>1, <2>3 DEF Once
    <3> QED
      BY <1>2, <3>1
  <2> QED
    BY <2>2, <2>3
<1>8. ASSUME NEW i \in DOMAIN sent.devices, Once(i), NEW p \in 1..WayLength', NEW q \in 1..WayLength',
             Way'[p] = Id(i), Way'[q] = Id(i)
      PROVE  p = q
  <2>1. CASE p \in 1..WayLength /\ q \in 1..WayLength
    BY <1>1, <1>3, <1>8, <2>1 DEF OnTheWay
  <2>2. CASE p = WayLength + 1
    BY <1>1, <1>3, <1>7, <1>8, <2>2
  <2>3. CASE q = WayLength + 1
    BY <1>1, <1>3, <1>7, <1>8, <2>3
  <2> QED
    BY <1>1, <2>1, <2>2, <2>3
<1>9. OnTheWay'
  BY <1>4, <1>5, <1>6, <1>8 DEF OnTheWay, Id, Once
<1> QED
  BY <1>9

-----------------------------------------------------------------------------
LEMMA QueueOneWay ==
  ASSUME InOrder, OnTheWay, QueueOne
  PROVE  OnTheWay'
<1> DEFINE d == sent.devices[next]
<1>1. /\ next \in DOMAIN sent.devices /\ next' = next + 1
      /\ UNCHANGED <<sent, current, left, requests, badge>>
      /\ d \in Addressees /\ Id(next) = Identity(d)
  BY AddresseesType DEF QueueOne, InOrder, Id
<1>2. CASE HasEvent(sent) /\ Identity(d) \in recorded
  <2>1. UNCHANGED <<recorded, buffer>>
    BY <1>2 DEF QueueOne
  <2>2. WayLength' = WayLength /\ Way' = Way
    BY <1>1, <2>1 DEF WayLength, Way, Sent, InHand
  <2>3. Taken' = Taken \cup {next} /\ next \notin Taken
    BY <1>1, Lengths, AddresseesType DEF Taken, InOrder
  <2>4. PICK k \in Taken : Id(k) = Id(next)
    BY <1>1, <1>2 DEF OnTheWay
  <2>5. sent' = sent
    BY <1>1
  <2> QED
    BY <1>2, <2>1, <2>2, <2>3, <2>4, <2>5 DEF OnTheWay, Id, Once
<1>3. CASE ~ (HasEvent(sent) /\ Identity(d) \in recorded)
  <2>1. /\ buffer' = Append(buffer, EntryFor(sent, d))
        /\ recorded' = IF HasEvent(sent) THEN recorded \cup {Identity(d)} ELSE recorded
    BY <1>3 DEF QueueOne
  <2>2. /\ Len(buffer') = Len(buffer) + 1
        /\ \A k \in 1..Len(buffer) : buffer'[k] = buffer[k]
        /\ buffer'[Len(buffer) + 1] = EntryFor(sent, d)
    BY <2>1 DEF InOrder
  <2>3. Identity(Head(buffer'[Len(buffer) + 1].notification.devices)) = Id(next)
    BY <1>1, <2>2, EntryFields DEF InOrder
  <2>4. Sent' = Sent /\ InHand' = InHand
    BY <1>1 DEF Sent, InHand
  <2>5. WayLength' = WayLength + 1
    <3>1. Sent \in Nat /\ InHand \in Nat /\ Len(buffer) \in Nat
      BY Lengths
    <3>2. WayLength' = Sent + InHand + (Len(buffer) + 1)
      BY <2>2, <2>4 DEF WayLength
    <3> QED
      BY <3>1, <3>2 DEF WayLength
  <2>6. \A p \in 1..WayLength : Way'[p] = Way[p]
    <3> SUFFICES ASSUME NEW p \in 1..WayLength PROVE Way'[p] = Way[p]
      OBVIOUS
    <3>1. p > Sent + InHand => p - Sent - InHand \in 1..Len(buffer)
      BY Lengths DEF WayLength
    <3>2. p \in 1..WayLength'
      BY <2>5, Lengths
    <3> QED
      BY <1>1, <2>2, <2>4, <3>1, <3>2, Lengths DEF Way
  <2>7. Way'[WayLength + 1] = Id(next)
    <3>1. PICK p : p = WayLength + 1
      OBVIOUS
    <3>2. /\ ~ (p <= Sent) /\ ~ (p <= Sent + InHand)
          /\ p - Sent - InHand = Len(buffer) + 1
          /\ p \in 1..WayLength'
      BY <2>5, <3>1, Lengths DEF WayLength
    <3>3. Way'[p] = Identity(Head(buffer'[p - Sent - InHand].notification.devices))
      BY <2>4, <3>2 DEF Way
    <3> QED
      BY <2>3, <3>1, <3>2, <3>3
  <2>8. Extends(Id(next))
    BY <2>5, <2>6, <2>7 DEF Extends
  <2> QED
    BY <1>1, <1>3, <2>1, <2>8, ExtendsKeeps
<1> QED
  BY <1>2, <1>3

LEMMA FetchWay ==
  ASSUME InOrder, OnTheWay, Fetch
  PROVE  OnTheWay'
<1>1. /\ left = <<>> /\ buffer # <<>> /\ buffer' = Tail(buffer)
      /\ UNCHANGED <<sent, next, recorded, requests>>
  BY DEF Fetch
<1>2. /\ Len(buffer) \in Nat \ {0} /\ Len(buffer') = Len(buffer) - 1
      /\ \A k \in 1..Len(buffer') : buffer'[k] = buffer[k + 1]
      /\ Head(buffer) = buffer[1]
  BY <1>1 DEF InOrder
<1>3. \A k \in 1..Len(buffer) : \E d \in Addressees : buffer[k] = EntryFor(sent, d)
  BY DEF InOrder
<1>4. Sent' = Sent /\ Sent \in Nat /\ InHand = 0 /\ WayLength = Sent + Len(buffer)
  BY <1>1, <1>2, Lengths DEF Sent, InHand, WayLength
<1>5. CASE Superseded
  <2>1. left' = left
    BY <1>5 DEF Fetch
  <2>2. InHand' = 0 /\ WayLength' = WayLength - 1
    BY <1>1, <1>2, <1>4, <2>1 DEF InHand, WayLength
  <2>3. Omits(Sent + 1)
    <3> SUFFICES ASSUME NEW p \in 1..WayLength'
                 PROVE  Way'[p] = IF p < Sent + 1 THEN Way[p] ELSE Way[p + 1]
      BY <2>2 DEF Omits
    <3>1. CASE p <= Sent
      <4>1. p \in 1..WayLength
        BY <1>2, <1>4, <2>2
      <4> QED
        BY <1>1, <1>4, <3>1, <4>1 DEF Way
    <3>2. CASE p > Sent
      <4>1. /\ p + 1 \in 1..WayLength /\ ~ (p <= Sent) /\ ~ (p <= Sent + InHand')
            /\ ~ (p + 1 <= Sent) /\ ~ (p + 1 <= Sent + InHand)
            /\ p - Sent - InHand' \in 1..Len(buffer')
            /\ p + 1 - Sent - InHand = (p - Sent - InHand') + 1
        BY <1>2, <1>4, <2>2, <3>2
      <4>2. buffer'[p - Sent - InHand'] = buffer[p + 1 - Sent - InHand]
        BY <1>2, <4>1
      <4> QED
        BY <1>4, <3>2, <4>1, <4>2 DEF Way
    <3> QED
      BY <1>4, <2>2, <3>1, <3>2
  <2>4. PICK k \in 2..Len(buffer) :
          buffer[1].count_key # NoKey /\ buffer[k].count_key = buffer[1].count_key
    BY <1>2, <1>5 DEF Superseded
  <2>5. 1 \in 1..Len(buffer) /\ k \in 1..Len(buffer)
    BY <1>2
  <2>6. PICK d \in Addressees : buffer[1] = EntryFor(sent, d)
    BY <1>3, <2>5
  <2>7. PICK e \in Addressees : buffer[k] = EntryFor(sent, e)
    BY <1>3, <2>5
  <2>8. CountKey(sent, e) = CountKey(sent, d) /\ CountKey(sent, d) # NoKey
    BY <2>4, <2>6, <2>7, EntryFields DEF InOrder
  <2>9. Identity(d) = Identity(e)
    BY <2>8 DEF CountKey
  <2>10. /\ Way[Sent + 1] = Identity(Head(buffer[1].notification.devices))
         /\ Way[Sent + k] = Identity(Head(buffer[k].notification.devices))
         /\ Sent + 1 \in 1..WayLength /\ Sent + k \in 1..WayLength /\ Sent + k > Sent + 1
    <3>1. ASSUME NEW j \in 1..Len(buffer)
          PROVE  /\ Way[Sent + j] = Identity(Head(buffer[j].notification.devices))
                 /\ Sent + j \in 1..WayLength
      <4>1. PICK p : p = Sent + j
        OBVIOUS
      <4>2. p \in 1..WayLength /\ ~ (p <= Sent) /\ ~ (p <= Sent + InHand) /\ p - Sent - InHand = j
        BY <1>2, <1>4, <4>1
      <4>3. Way[p] = Identity(Head(buffer[p - Sent - InHand].notification.devices))
        BY <4>2 DEF Way
      <4> QED
        BY <4>1, <4>2, <4>3
    <3>2. Sent + k > Sent + 1
      BY <1>4, <2>5
    <3> QED
      BY <2>5, <3>1, <3>2
  <2>11. Way[Sent + k] = Way[Sent + 1]
    BY <2>6, <2>7, <2>9, <2>10, EntryFields DEF InOrder
  <2> QED
    BY <1>1, <2>3, <2>10, <2>11, OmitsKeeps
<1>6. CASE ~Superseded
  <2>1. left' = Head(buffer).notification.devices
    BY <1>6 DEF Fetch
  <2>2. PICK d \in Addressees : buffer[1] = EntryFor(sent, d)
    BY <1>2, <1>3
  <2>3. left' = <<d>> /\ Head(buffer[1].notification.devices) = d
    <3>1. sent \in Notifications
      BY DEF InOrder
    <3>2. buffer[1].notification = Copy(sent, d)
      BY <2>2, <3>1, EntryFields
    <3>3. Copy(sent, d).devices = <<d>> /\ Head(Copy(sent, d).devices) = d
      BY <3>1, CopyFields, EntryFields
    <3> QED
      BY <1>2, <2>1, <3>2, <3>3
  <2>4. InHand' = 1 /\ Head(left') = d
    BY <2>3 DEF InHand
  <2>5. WayLength' = WayLength
    BY <1>2, <1>4, <2>4 DEF WayLength
  <2>6. ASSUME NEW p \in 1..WayLength PROVE Way'[p] = Way[p]
    <3>1. CASE p <= Sent
      BY <1>1, <1>4, <2>5, <3>1 DEF Way
    <3>2. CASE p = Sent + 1
      <4>1. ~ (p <= Sent) /\ ~ (p <= Sent + InHand) /\ p <= Sent + InHand' /\ p - Sent - InHand = 1
        BY <1>4, <2>4, <3>2
      <4> QED
        BY <1>4, <2>3, <2>4, <2>5, <4>1 DEF Way
    <3>3. CASE p > Sent + 1
      <4>1. /\ ~ (p <= Sent) /\ ~ (p <= Sent + InHand) /\ ~ (p <= Sent + InHand')
            /\ p - Sent - InHand' \in 1..Len(buffer')
            /\ p - Sent - InHand = (p - Sent - InHand') + 1
        BY <1>2, <1>4, <2>4, <3>3
      <4>2. buffer'[p - Sent - InHand'] = buffer[p - Sent - InHand]
        BY <1>2, <4>1
      <4> QED
        BY <1>4, <2>5, <4>1, <4>2 DEF Way
    <3> QED
      BY <1>4, <3>1, <3>2, <3>3
  <2>7. Stays
    BY <2>5, <2>6 DEF Stays
  <2> QED
    BY <1>1, <2>7, StaysKeeps
<1> QED
  BY <1>5, <1>6

LEMMA DeliverWay ==
  ASSUME InOrder, OnTheWay, Deliver
  PROVE  OnTheWay'
<1>1. PICK d \in Addressees : left = <<d>>
  BY DEF Deliver, InOrder
<1>2. requests'
        = Append(requests, [device |-> Identity(d), request |-> RequestFor(current, d)])
  BY <1>1 DEF Deliver
<1>3. left' = <<>> /\ UNCHANGED <<sent, next, recorded, buffer, current>>
  BY <1>1 DEF Deliver
<1>4. /\ Len(requests') = Sent + 1
      /\ \A j \in 1..Sent : requests'[j] = requests[j]
      /\ requests'[Sent + 1].device = Identity(d)
  BY <1>2 DEF InOrder, Sent
<1>5. /\ Sent' = Sent + 1 /\ InHand = 1 /\ InHand' = 0 /\ Sent \in Nat
      /\ Head(left) = d /\ Len(buffer) \in Nat
      /\ WayLength' = WayLength /\ WayLength = Sent + 1 + Len(buffer)
  BY <1>1, <1>3, <1>4, Lengths DEF Sent, InHand, WayLength
<1>6. ASSUME NEW p \in 1..WayLength PROVE Way'[p] = Way[p]
  <2>1. CASE p <= Sent
    <3>1. p <= Sent' /\ p \in 1..Sent
      BY <1>5, <2>1
    <3> QED
      BY <1>4, <1>5, <2>1, <3>1 DEF Way
  <2>2. CASE p = Sent + 1
    <3>1. ~ (p <= Sent) /\ p <= Sent + InHand /\ p <= Sent'
      BY <1>5, <2>2
    <3> QED
      BY <1>4, <1>5, <2>2, <3>1 DEF Way
  <2>3. CASE p > Sent + 1
    <3>1. /\ ~ (p <= Sent) /\ ~ (p <= Sent + InHand) /\ ~ (p <= Sent') /\ ~ (p <= Sent' + InHand')
          /\ p - Sent' - InHand' = p - Sent - InHand
      BY <1>5, <2>3
    <3> QED
      BY <1>3, <1>5, <3>1 DEF Way
  <2> QED
    BY <1>5, <2>1, <2>2, <2>3
<1>7. Stays
  BY <1>5, <1>6 DEF Stays
<1> QED
  BY <1>3, <1>7, StaysKeeps

LEMMA OnTheWayInit == TransferInit => OnTheWay
BY DEF TransferInit, OnTheWay, WayLength, Sent, InHand, Taken

LEMMA OnTheWayStep == InOrder /\ OnTheWay /\ [TransferNext]_TransferVars => OnTheWay'
<1> SUFFICES ASSUME InOrder, OnTheWay, [TransferNext]_TransferVars PROVE OnTheWay'
  OBVIOUS
<1>1. CASE UNCHANGED TransferVars
  BY <1>1 DEF TransferVars, OnTheWay, WayLength, Way, Sent, InHand, Taken, Id, Once
<1> QED
  BY <1>1, QueueOneWay, FetchWay, DeliverWay DEF TransferNext

LEMMA WayIsKept == TransferSpec => []OnTheWay
BY OnTheWayInit, OnTheWayStep, OrderIsKept, PTL DEF TransferSpec

\* In the end, what has been sent is the whole way.
LEMMA WayInTheEnd ==
  ASSUME InOrder, OnTheWay, Delivered
  PROVE  /\ \A i \in DOMAIN sent.devices : \E j \in DOMAIN requests : requests[j].device = Id(i)
         /\ \A i \in DOMAIN sent.devices : Once(i) =>
              \A j, k \in DOMAIN requests :
                requests[j].device = Id(i) /\ requests[k].device = Id(i) => j = k
<1>1. Taken = DOMAIN sent.devices
  BY AddresseesType DEF Taken, InOrder, Delivered
<1>2. DOMAIN requests = 1..WayLength /\ WayLength = Sent
  BY DEF Delivered, WayLength, Sent, InHand, InOrder
<1>3. \A p \in 1..WayLength : Way[p] = requests[p].device
  BY <1>2, Lengths DEF Way
<1> QED
  BY <1>1, <1>2, <1>3 DEF OnTheWay

LEMMA RequestsAnswer ==
  ASSUME InOrder, NEW j \in DOMAIN requests
  PROVE  \E i \in DOMAIN sent.devices : requests[j] = AnswerTo(sent.devices[i])
<1>1. requests[j] \in {AnswerTo(d) : d \in Addressees}
  BY DEF InOrder
<1>2. PICK d \in Addressees : requests[j] = AnswerTo(d)
  BY <1>1
<1>3. \E i \in DOMAIN sent.devices : sent.devices[i] = d
  BY DEF Addressees, Range
<1> QED
  BY <1>2, <1>3

(* Queue mode is transparent: each device gets the request that a direct   *)
(* delivery would have made of the notification, and gets one, unless its  *)
(* count is listed twice (queue_one, enqueue, poll_once, the serialization *)
(* of api.rs).                                                             *)
THEOREM QueueIsTransparent == TransferSpec => []RelayTransparent
<1>1. InOrder /\ OnTheWay => RelayTransparent
  <2> SUFFICES ASSUME InOrder, OnTheWay PROVE RelayTransparent
    OBVIOUS
  <2>1. \A j \in DOMAIN requests : \E i \in DOMAIN sent.devices :
          requests[j] = [device |-> Identity(sent.devices[i]),
                         request |-> RequestFor(sent, sent.devices[i])]
    BY RequestsAnswer DEF AnswerTo
  <2>2. ASSUME Delivered, NEW i \in DOMAIN sent.devices
        PROVE  \E j \in DOMAIN requests :
                 /\ requests[j].device = Identity(sent.devices[i])
                 /\ (HasEvent(sent) \/ \A k \in DOMAIN sent.devices \ {i} :
                                         Identity(sent.devices[k]) # Identity(sent.devices[i])) =>
                      \A k \in DOMAIN requests : requests[k].device = requests[j].device => k = j
    <3>1. PICK j \in DOMAIN requests : requests[j].device = Id(i)
      BY <2>2, WayInTheEnd
    <3>2. Once(i) => \A k \in DOMAIN requests : requests[k].device = requests[j].device => k = j
      BY <2>2, <3>1, WayInTheEnd
    <3> QED
      BY <3>1, <3>2 DEF Id, Once
  <2> QED
    BY <2>1, <2>2 DEF RelayTransparent
<1> QED
  BY <1>1, OrderIsKept, WayIsKept, PTL

-----------------------------------------------------------------------------
\* The comparison from the end is one of labels.
LEMMA CoversByLabel ==
  ASSUME NEW C, NEW host \in Seq(C), NEW entry, NEW D, entry.name \in Seq(D)
  PROVE  Covers(entry, host) <=> NamesHost(entry, host)
<1>1. CASE ~entry.wildcard
  BY <1>1 DEF Covers, NamesHost
<1>2. CASE entry.wildcard
  <2> DEFINE name == entry.name
             s == Len(name)
             h == Len(host)
             T == C \cup D \cup {"."}
  <2>0. host \in Seq(T) /\ name \in Seq(T) /\ <<".">> \in Seq(T) /\ s \in Nat /\ h \in Nat
    OBVIOUS
  <2> HIDE DEF name
  <2>1. ASSUME h > s + 1, SubSeq(host, h - s + 1, h) = name, host[h - s] = "."
        PROVE  \E k \in DOMAIN host : host = SubSeq(host, 1, k) \o <<".">> \o name
    <3> DEFINE k == h - s - 1
               front == SubSeq(host, 1, k)
               whole == front \o <<".">> \o name
    <3>1. k \in 1..h /\ k \in Nat /\ k \in DOMAIN host
      BY <2>0, <2>1
    <3>2. front \in Seq(T) /\ Len(front) = k /\ \A i \in 1..k : front[i] = host[i]
      BY <2>0, <3>1
    <3> HIDE DEF front, k
    <3>3. whole \in Seq(T) /\ Len(whole) = k + 1 + s
      BY <2>0, <3>1, <3>2
    <3>4. Len(whole) = h
      BY <2>0, <3>3 DEF k
    <3>5. ASSUME NEW i \in 1..h PROVE whole[i] = host[i]
      <4>1. CASE i <= k
        BY <2>0, <3>1, <3>2, <3>4, <4>1
      <4>2. CASE i = k + 1
        <5>1. i = h - s
          BY <2>0, <4>2 DEF k
        <5>2. whole[i] = "."
          BY <2>0, <3>1, <3>2, <4>2
        <5> QED
          BY <2>1, <5>1, <5>2
      <4>3. CASE i > k + 1
        <5>1. whole[i] = name[i - k - 1] /\ i - k - 1 \in 1..s
          BY <2>0, <3>1, <3>2, <3>4, <3>3, <4>3
        <5>2. SubSeq(host, h - s + 1, h)[i - k - 1] = host[(h - s + 1) + (i - k - 1) - 1]
          BY <2>0, <2>1, <5>1
        <5>3. (h - s + 1) + (i - k - 1) - 1 = i
          BY <2>0, <3>1 DEF k
        <5> QED
          BY <2>1, <5>1, <5>2, <5>3
      <4>4. i <= k \/ i = k + 1 \/ i > k + 1
        BY <2>0, <3>1
      <4> HIDE DEF whole
      <4> QED
        BY ONLY <4>1, <4>2, <4>3, <4>4
    <3>6. whole = host
      <4> HIDE DEF whole
      <4> QED
        BY <2>0, <3>3, <3>4, <3>5, SeqEqual
    <3> QED
      BY <3>1, <3>6 DEF front
  <2>2. ASSUME NEW k \in DOMAIN host, host = SubSeq(host, 1, k) \o <<".">> \o name
        PROVE  h > s + 1 /\ SubSeq(host, h - s + 1, h) = name /\ host[h - s] = "."
    <3> DEFINE front == SubSeq(host, 1, k)
    <3>1. k \in 1..h
      BY <2>0
    <3>2. front \in Seq(T) /\ Len(front) = k
      BY <2>0, <3>1
    <3>3. host = front \o <<".">> \o name
      BY <2>2
    <3> HIDE DEF front
    <3>4. h = k + 1 + s
      <4>1. Len(front \o <<".">> \o name) = k + 1 + s
        BY <2>0, <3>1, <3>2
      <4> QED
        BY <3>3, <4>1
    <3>5. host[k + 1] = "." /\ \A i \in 1..s : host[k + 1 + i] = name[i]
      BY <2>0, <3>1, <3>2, <3>3
    <3>6. h - s + 1 = k + 2 /\ h - s = k + 1 /\ h > s + 1 /\ k \in Nat
      BY <2>0, <3>1, <3>4
    <3> DEFINE tail == SubSeq(host, k + 2, h)
    <3>7. tail \in Seq(T) /\ Len(tail) = s
      <4>1. tail \in Seq(T) /\ Len(tail) = IF k + 2 <= h THEN h - (k + 2) + 1 ELSE 0
        BY <2>0, <3>1
      <4> QED
        BY <2>0, <3>1, <3>4, <4>1
    <3>8. ASSUME NEW i \in 1..s PROVE tail[i] = name[i]
      <4>1. tail[i] = host[(k + 2) + i - 1]
        BY <2>0, <3>1, <3>4
      <4>2. (k + 2) + i - 1 = k + 1 + i
        BY <2>0, <3>1, <3>4
      <4> QED
        BY <3>5, <4>1, <4>2
    <3>9. tail = name
      <4> HIDE DEF tail
      <4> QED
        BY <2>0, <3>7, <3>8, SeqEqual
    <3> QED
      BY <3>5, <3>6, <3>9
  <2> QED
    BY <1>2, <2>1, <2>2 DEF Covers, NamesHost, name
<1> QED
  BY <1>1, <1>2

\* A request to an endpoint is made for the devices that pass.
LEMMA WebPushReaches ==
  ASSUME NEW n \in Notifications, NEW d \in Range(n.devices),
         Settings[d.app_id].kind = "webpush", Subscribed(d)
  PROVE  (RequestFor(n, d).kind = "webpush" /\ RequestFor(n, d).to = d.endpoint)
           <=> /\ d.endpoint.scheme \in {"http", "https"}
               /\ d.endpoint.scheme = "http" => d.endpoint.host \in Loopback
               /\ \E entry \in Settings[d.app_id].allowed : NamesHost(entry, d.endpoint.host)
<1> DEFINE app == Settings[d.app_id]
<1>1. RequestFor(n, d) = WebPush(n, d, app)
  BY DEF RequestFor
<1>2. RequestFor(n, d).kind = "webpush" /\ RequestFor(n, d).to = d.endpoint
        <=> EndpointAllowed(d.endpoint, app.allowed)
  <2>1. CASE EndpointAllowed(d.endpoint, app.allowed)
    BY <1>1, <2>1 DEF WebPush
  <2>2. CASE ~EndpointAllowed(d.endpoint, app.allowed)
    BY <1>1, <2>2 DEF WebPush, NoRequest
  <2> QED
    BY <2>1, <2>2
<1>3. d.app_id \in DOMAIN Settings /\ d.endpoint.host \in Seq(Range(d.endpoint.host))
  BY NotificationsAssumption, HostsAssumption DEF Subscribed
<1>4. \A entry \in app.allowed : entry.name \in Seq(Range(entry.name))
  BY <1>3, HostsAssumption
<1>5. \A entry \in app.allowed :
        Covers(entry, d.endpoint.host) <=> NamesHost(entry, d.endpoint.host)
  BY <1>3, <1>4, CoversByLabel
<1> HIDE DEF app
<1>6. EndpointAllowed(d.endpoint, app.allowed)
        <=> /\ d.endpoint.scheme \in {"http", "https"}
            /\ d.endpoint.scheme = "http" => d.endpoint.host \in Loopback
            /\ \E entry \in app.allowed : NamesHost(entry, d.endpoint.host)
  BY <1>5 DEF EndpointAllowed
<1> QED
  BY <1>2, <1>6 DEF app

(* A subscription is contacted exactly at the hosts that the allow-list    *)
(* names, label by label, over an encrypted or local transport, for hosts  *)
(* and entries of any length (endpoint_allowed).                           *)
THEOREM EndpointsAreListed == TransferSpec => []EndpointsByLabel
<1>1. InOrder /\ OnTheWay => EndpointsByLabel
  <2> SUFFICES ASSUME InOrder, OnTheWay, Delivered, NEW i \in DOMAIN sent.devices, NEW d,
                      d = sent.devices[i],
                      Settings[d.app_id].kind = "webpush", Subscribed(d),
                      \A k \in DOMAIN sent.devices :
                        Identity(sent.devices[k]) = Identity(d) => sent.devices[k] = d
               PROVE  (\E j \in DOMAIN requests :
                         /\ requests[j].device = Identity(d)
                         /\ requests[j].request.kind = "webpush"
                         /\ requests[j].request.to = d.endpoint)
                      <=> /\ d.endpoint.scheme \in {"http", "https"}
                          /\ d.endpoint.scheme = "http" => d.endpoint.host \in Loopback
                          /\ \E entry \in Settings[d.app_id].allowed :
                               NamesHost(entry, d.endpoint.host)
    BY DEF EndpointsByLabel
  <2>1. \A j \in DOMAIN requests :
          requests[j].device = Identity(d) => requests[j].request = RequestFor(sent, d)
    BY RequestsAnswer DEF AnswerTo
  <2>2. PICK j \in DOMAIN requests : requests[j].device = Identity(d)
    BY WayInTheEnd DEF Id
  <2>3. (\E k \in DOMAIN requests :
           /\ requests[k].device = Identity(d)
           /\ requests[k].request.kind = "webpush"
           /\ requests[k].request.to = d.endpoint)
        <=> RequestFor(sent, d).kind = "webpush" /\ RequestFor(sent, d).to = d.endpoint
    BY <2>1, <2>2
  <2>4. sent \in Notifications /\ d \in Range(sent.devices)
    BY AddresseesType DEF InOrder, Addressees
  <2> QED
    BY <2>3, <2>4, WebPushReaches
<1> QED
  BY <1>1, OrderIsKept, WayIsKept, PTL
=============================================================================
