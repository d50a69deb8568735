---------------------------- MODULE RelayProofs ----------------------------
(***************************************************************************)
(* Proofs about Relay, for any events, devices, numbers of requests,       *)
(* restarts and acknowledgements under way: queue mode loses nothing       *)
(* without a reason, repeats nothing without one, and deletes no pusher    *)
(* without one.                                                            *)
(*                                                                         *)
(* The heart of the invariant is what an acknowledgement may settle.  Ids  *)
(* tell entries apart only within one life of the queue side, so all that  *)
(* is known of an acknowledgement is known of those meant for this life.   *)
(***************************************************************************)
EXTENDS Relay, FiniteSetTheorems, TLAPS

OneSending == \A x, y \in sending : x = y
Typed == TypeOK /\ IsFiniteSet(wire) /\ OneSending

\* Verdicts on pushkeys, wherever they are, are about dead ones, or those of
\* unknown apps that are to be rejected.
VerdictsTrue ==
  /\ reported \subseteq Rejectable /\ reporting \subseteq Rejectable
  /\ ack.rejected \subseteq Rejectable
  /\ \A m \in wire : m.rejected \subseteq Rejectable
  /\ Deleted \subseteq Rejectable

\* What the poll side has recorded was pushed, and what it is sending is not
\* recorded in an open window.
RecordsTrue ==
  /\ \A e \in Events : poll_record[e] # Never => pushes[e] > 0
  /\ Window # 0 => \A e \in Events : pushedAt[e] \in {Never, poll_record[e]}
  /\ \A x \in sending : ~Duplicate(poll_record, x.event)

\* Within one life of the queue side an id tells the event.
InHand == work \cup sending
Numbered ==
  /\ \A x \in Held : x.id < next_id
  /\ \A x, y \in Held : x.id = y.id => x.event = y.event
  /\ ack.boot <= boot /\ \A m \in wire : m.boot <= boot
  /\ ack.boot = boot =>
       \A x \in InHand : x.id < next_id /\ \A y \in Held : y.id = x.id => y.event = x.event
  /\ \A m \in wire \cup {ack} : m.boot = boot => \A i \in m.acked : i < next_id

\* An acknowledgement settles only what it is right to settle.
Speaks(m, e) ==
  pushes[e] > 0 \/ e \in refused \/ (e \in condemned /\ Target[e] \in m.rejected)
AcksSound ==
  \A m \in wire \cup {ack} : m.boot = boot =>
    \A x \in Held : x.id \in m.acked => Speaks(m, x.event)

\* Nothing that was taken on or handed out is forgotten.
Covered(e) == e \in EventsOf(Held) \/ Disposed(e) \/ e \in excused
Accounted ==
  /\ \A e \in Events : answer[e] = "ok" \/ queue_record[e] # Never => Covered(e)
  /\ \A x \in InHand : Covered(x.event)

\* The poll side is done with an entry, without a delivery or after one.
PassesOver(x) == Discard(x) \/ RejectUnknown(x) \/ SkipUnknown(x)
Done(x) ==
  PassesOver(x) \/ Accept(x) \/ AcceptUnheard(x) \/ Fail(x) \/ Reject(x) \/ Skip(x)

Inv == Typed /\ VerdictsTrue /\ RecordsTrue /\ Numbered /\ AcksSound /\ Accounted /\ VerdictSurvives

-----------------------------------------------------------------------------
(***************************************************************************)
(* Types.                                                                  *)
(***************************************************************************)
LEMMA Limits ==
  /\ MaxTime \in Nat /\ MaxId \in Nat /\ MaxWire \in Nat /\ MaxPushes \in Nat
  /\ MaxRestarts \in Nat /\ EntryTTL \in Nat /\ Lease \in Nat /\ Window \in Nat
  /\ Idle \notin Events /\ Target \in [Events -> Devices]
BY TargetAssumption, LimitsAssumption, BoundsAssumption

\* The entries a poll looks at, and those it hands out.
LEMMA LineType ==
  ASSUME TypeOK
  PROVE  Line \subseteq Entry /\ Returned \subseteq Entry /\ Held \subseteq Entry
BY DEF TypeOK, Line, Returned, Expired, Held, Lessee

LEMMA TypedInit == Init => Typed
<1> SUFFICES ASSUME Init PROVE Typed
  OBVIOUS
<1>1. Cardinality({}) = 0 /\ IsFiniteSet({})
  BY FS_EmptySet
<1>2. TypeOK
  BY <1>1, Limits DEF Init, TypeOK, Forgotten, NoAck, Ack, Never
<1> QED
  BY <1>1, <1>2 DEF Typed, OneSending, Init

LEMMA RecordedType ==
  ASSUME TypeOK, NEW e \in Events, NEW r \in [Events -> 0..now \cup {Never}]
  PROVE  Recorded(r, e) \in [Events -> 0..now \cup {Never}]
BY Limits DEF TypeOK, Recorded

\* Whichever way the poll side is done with an entry, it has nothing left to
\* send, and the rest of the system does not notice.
LEMMA DoneType ==
  ASSUME Typed, NEW x \in InHand, Done(x)
  PROVE  /\ x \in Entry /\ x.event \in Events /\ x.id \in Nat
         /\ UNCHANGED environment
         /\ work' \subseteq work /\ sending' = {} /\ InHand' \subseteq InHand
         /\ Acked(x) \in Ack /\ Condemning(x) \in Ack
<1>1. x \in Entry /\ x.event \in Events /\ x.id \in Nat
  BY DEF Typed, TypeOK, InHand, Entry
<1>2. UNCHANGED environment
  BY DEF Done, PassesOver, Discard, RejectUnknown, SkipUnknown, Accept, AcceptUnheard, Fail,
         Reject, Skip
<1>3. work' \subseteq work /\ sending' = {}
  <2>1. CASE PassesOver(x)
    BY <2>1 DEF PassesOver, Discard, RejectUnknown, SkipUnknown, Begun
  <2>2. CASE Accept(x) \/ AcceptUnheard(x) \/ Fail(x) \/ Reject(x) \/ Skip(x)
    BY <2>2 DEF Accept, AcceptUnheard, Fail, Reject, Skip, Sent, Typed, OneSending
  <2> QED
    BY <2>1, <2>2 DEF Done
<1>4. Acked(x) \in Ack /\ Condemning(x) \in Ack
  <2>1. ack \in Ack /\ Target[x.event] \in Devices
    BY <1>1, Limits DEF Typed, TypeOK
  <2>2. Acked(x) \in Ack
    BY <1>1, <2>1 DEF Ack, Acked
  <2> QED
    BY <2>1, <2>2 DEF Ack, Condemning
<1> QED
  BY <1>1, <1>2, <1>3, <1>4 DEF InHand

LEMMA DoneTyped ==
  ASSUME Typed, NEW x \in InHand, Done(x)
  PROVE  Typed'
<1> USE DEF Done, PassesOver, Discard, RejectUnknown, SkipUnknown, Accept, AcceptUnheard, Fail,
            Reject, Skip
<1>1. /\ UNCHANGED environment /\ x.event \in Events
      /\ work' \subseteq work /\ sending' = {}
      /\ Acked(x) \in Ack /\ Condemning(x) \in Ack
  BY DoneType
<1>2. ack' \in Ack
  BY <1>1 DEF AckAfterFailure, AckAfterSkip, Typed, TypeOK
<1>3. poll_record' \in [Events -> 0..now \cup {Never}]
  BY <1>1, RecordedType DEF Typed, TypeOK, fate
<1>4. pushes' \in [Events -> 0..MaxPushes]
  BY <1>1, Limits DEF Pushed, Typed, TypeOK, fate
<1>5. pushedAt' \in [Events -> 0..now \cup {Never}]
  BY <1>1, Limits DEF Typed, TypeOK, fate
<1>6. condemned' \cup refused' \cup excused' \subseteq Events
  BY <1>1 DEF Typed, TypeOK, fate, environment
<1>7. Cardinality(sending') <= 1
  BY <1>1, FS_EmptySet
<1> HIDE DEF Done
<1> QED
  BY ONLY Typed, <1>1, <1>2, <1>3, <1>4, <1>5, <1>6, <1>7
     DEF Typed, TypeOK, OneSending, environment, queueSide, restarts

LEMMA TypedStep ==
  ASSUME Typed, [Next]_vars
  PROVE  Typed'
<1> USE Limits
<1>1. CASE \E h \in Handlers, e \in Events : Notify(h, e)
  BY <1>1 DEF Notify, Answer, Typed, TypeOK, OneSending, pollSide, restarts, fate
<1>2. CASE \E h \in Handlers, e \in Events : Enqueue(h, e)
  <2>1. PICK h \in Handlers, e \in Events : Enqueue(h, e)
    BY <1>2
  <2>2. PICK evicted \in SUBSET waiting :
          /\ waiting' = (waiting \ evicted) \cup
               {[id |-> next_id, event |-> e, enqueued |-> now]}
          /\ excused' = excused \cup EventsOf(evicted)
    BY <2>1 DEF Enqueue
  <2>3. [id |-> next_id, event |-> e, enqueued |-> now] \in Entry
    BY DEF Typed, TypeOK, Entry
  <2>4. waiting' \subseteq Entry /\ excused' \subseteq Events
    BY <2>2, <2>3 DEF Typed, TypeOK, EventsOf, Entry
  <2>5. queue_record' \in [Events -> 0..now \cup {Never}]
    BY <2>1, RecordedType DEF Enqueue, Typed, TypeOK
  <2>6. next_id' \in 0..MaxId /\ answer' \in [Events -> {"none", "ok", "rejected"}]
        /\ handling' \in [Handlers -> Events \cup {Idle}]
    BY <2>1 DEF Enqueue, Answer, Typed, TypeOK
  <2> QED
    BY <2>1, <2>4, <2>5, <2>6 DEF Enqueue, Typed, TypeOK, OneSending, pollSide, restarts, fate
<1>3. CASE Poll
  <2>1. PICK popped \in SUBSET Line :
          LET batch == {x \in popped : ~Outlived(x)}
              aged  == {x \in Returned \cup popped : Outlived(x)}
          IN  /\ waiting' = Line \ popped
              /\ leased' = (leased \ Expired) \cup
                   {[deadline |-> now + Lease, entry |-> x] : x \in batch}
              /\ excused' = excused \cup EventsOf(aged)
              /\ \/ PollerIdle /\ work' = batch /\ ack' = NoAck
                 \/ UNCHANGED <<work, ack>>
              /\ UNCHANGED <<now, answer, dead, handling, next_id, queue_record, reported,
                             reporting, config, sending, poll_record, wire, restarts, fate>>
    BY <1>3 DEF Poll
  <2>2. Line \subseteq Entry /\ Returned \subseteq Entry
    BY LineType DEF Typed
  <2>3. waiting' \subseteq Entry /\ work' \subseteq Entry
    BY <2>1, <2>2 DEF Typed, TypeOK
  <2>4. leased' \subseteq Lessee
    BY <2>1, <2>2 DEF Typed, TypeOK, Lessee
  <2>5. excused' \subseteq Events
    BY <2>1, <2>2 DEF Typed, TypeOK, EventsOf, Entry
  <2>6. ack' \in Ack
    BY <2>1 DEF Typed, TypeOK, NoAck, Ack
  <2> QED
    BY <2>1, <2>3, <2>4, <2>5, <2>6 DEF Typed, TypeOK, OneSending, restarts, fate
<1>4. CASE \E x \in InHand : Begin(x)
  <2>1. PICK x \in InHand : Begin(x)
    BY <1>4
  <2>2. x \in Entry /\ x.id \in Nat
    BY <2>1 DEF Begin, Begun, Typed, TypeOK, Entry
  <2>3. ack' \in Ack
    BY <2>1, <2>2 DEF Begin, Typed, TypeOK, Acked, Ack
  <2>4. sending' \in {{}, {x}} /\ work' = work \ {x}
    BY <2>1 DEF Begin, Begun
  <2>5. Cardinality(sending') <= 1
    <3>1. Cardinality({}) = 0 /\ Cardinality({x}) = 1
      BY FS_EmptySet, FS_Singleton
    <3> QED
      BY <2>4, <3>1
  <2> QED
    BY <2>1, <2>2, <2>3, <2>4, <2>5
       DEF Begin, environment, Typed, TypeOK, OneSending, queueSide, restarts, fate
<1>5. CASE \E x \in InHand : Done(x)
  BY <1>5, DoneTyped
<1>6. CASE Acknowledge
  <2>1. wire' \subseteq Ack /\ Cardinality(wire') <= MaxWire /\ IsFiniteSet(wire')
    <3>1. CASE wire' = wire
      BY <3>1 DEF Typed, TypeOK
    <3>2. CASE Cardinality(wire) < MaxWire /\ wire' = wire \cup {ack}
      <4>1. /\ IsFiniteSet(wire \cup {ack})
            /\ Cardinality(wire \cup {ack}) =
                 IF ack \in wire THEN Cardinality(wire) ELSE Cardinality(wire) + 1
            /\ Cardinality(wire) \in Nat
        BY FS_AddElement, FS_CardinalityType DEF Typed
      <4> QED
        BY <3>2, <4>1 DEF Typed, TypeOK
    <3> QED
      BY <1>6, <3>1, <3>2 DEF Acknowledge
  <2> QED
    BY <1>6, <2>1
       DEF Acknowledge, Typed, TypeOK, OneSending, NoAck, Ack, queueSide, restarts, fate
<1>7. CASE Report
  BY <1>7 DEF Report, Typed, TypeOK, OneSending, pollSide, restarts, fate
<1>8. CASE \E m \in wire : Settle(m)
  <2>1. PICK m \in wire : Settle(m)
    BY <1>8
  <2>2. wire' = wire \ {m} /\ m \in Ack
    BY <2>1 DEF Settle, Typed, TypeOK
  <2>3. IsFiniteSet(wire') /\ Cardinality(wire') <= MaxWire
    <3>1. /\ IsFiniteSet(wire \ {m})
          /\ Cardinality(wire \ {m}) <= Cardinality(wire)
          /\ Cardinality(wire \ {m}) \in Nat /\ Cardinality(wire) \in Nat
      <4>1. IsFiniteSet(wire) /\ wire \ {m} \in SUBSET wire
        BY DEF Typed
      <4> QED
        BY ONLY <4>1, FS_Subset, FS_CardinalityType
    <3>2. Cardinality(wire) <= MaxWire
      BY DEF Typed, TypeOK
    <3>3. Cardinality(wire \ {m}) <= MaxWire
      BY ONLY <3>1, <3>2, Limits
    <3> QED
      BY <2>2, <3>1, <3>3
  <2>4. leased' \subseteq leased /\ reporting' = m.rejected /\ m.rejected \subseteq Devices
    BY <2>1, <2>2 DEF Settle, Listed, Ack
  <2>5. excused' \subseteq Events
    <3>1. \A l \in leased : l.entry.event \in Events
      BY DEF Typed, TypeOK, Lessee, Entry
    <3> QED
      BY <2>1, <3>1 DEF Settle, Typed, TypeOK
  <2> QED
    BY <2>1, <2>2, <2>3, <2>4, <2>5
       DEF Settle, Typed, TypeOK, OneSending, pollSide, restarts, fate
<1>9. CASE QueueRestart
  <2>1. EventsOf(Held) \subseteq Events
    BY LineType DEF Typed, EventsOf, Entry
  <2> QED
    BY <1>9, <2>1
       DEF QueueRestart, Typed, TypeOK, OneSending, Forgotten, pollSide, fate
<1>10. CASE PollRestart
  <2>1. Cardinality({}) = 0
    BY FS_EmptySet
  <2> QED
    BY <1>10, <2>1
       DEF PollRestart, Typed, TypeOK, OneSending, Forgotten, NoAck, Ack, queueSide
<1>11. CASE Tick
  <2>1. now' \in 0..MaxTime /\ 0..now \subseteq 0..now'
    BY <1>11 DEF Tick, Typed, TypeOK
  <2> QED
    BY <1>11, <2>1
       DEF Tick, Typed, TypeOK, OneSending, queueSide, pollSide, restarts, fate
<1>12. CASE \E d \in Devices : Invalidate(d)
  BY <1>12 DEF Invalidate, Typed, TypeOK, OneSending, queueSide, pollSide, restarts, fate
<1>13. CASE UNCHANGED vars
  BY <1>13 DEF vars, Typed, TypeOK, OneSending, queueSide, pollSide, restarts, fate
<1> QED
  BY <1>1, <1>2, <1>3, <1>4, <1>5, <1>6, <1>7, <1>8, <1>9, <1>10, <1>11, <1>12, <1>13
     DEF Next, InHand, Done, PassesOver

-----------------------------------------------------------------------------
(***************************************************************************)
(* Verdicts and records.                                                   *)
(***************************************************************************)

LEMMA VerdictsStep ==
  ASSUME Typed, VerdictsTrue, [Next]_vars
  PROVE  VerdictsTrue'
<1> USE Limits DEF VerdictsTrue, Rejectable
<1>1. CASE \E h \in Handlers, e \in Events : Notify(h, e)
  <2>1. PICK h \in Handlers, e \in Events : Notify(h, e)
    BY <1>1
  <2>2. Deleted' \subseteq Deleted \cup reported
    BY <2>1 DEF Notify, Answer, Deleted, Typed, TypeOK
  <2> QED
    BY <2>1, <2>2 DEF Notify, pollSide
<1>2. CASE \E h \in Handlers, e \in Events : Enqueue(h, e)
  <2>1. PICK h \in Handlers, e \in Events : Enqueue(h, e)
    BY <1>2
  <2>2. Deleted' \subseteq Deleted
    BY <2>1 DEF Enqueue, Answer, Deleted, Typed, TypeOK
  <2> QED
    BY <2>1, <2>2 DEF Enqueue, pollSide
<1>3. CASE Poll
  BY <1>3 DEF Poll, NoAck, Deleted
<1>4. CASE \E x \in InHand : Begin(x)
  BY <1>4 DEF Begin, environment, Acked, queueSide, Deleted, Typed, TypeOK, Ack
<1>5. CASE \E x \in InHand : Done(x)
  <2>1. PICK x \in InHand : Done(x)
    BY <1>5
  <2>2. ack'.rejected \subseteq Rejectable
    <3>1. ack \in Ack
      BY DEF Typed, TypeOK
    <3>2. Acked(x).rejected = ack.rejected
      BY <3>1 DEF Acked, Ack
    <3>3. Condemning(x).rejected = ack.rejected \cup {Target[x.event]}
      BY <3>1, <3>2 DEF Condemning, Acked, Ack
    <3> QED
      BY <2>1, <3>2, <3>3
         DEF Done, PassesOver, Discard, RejectUnknown, SkipUnknown, Accept, AcceptUnheard,
             Fail, Reject, Skip, Known, AckAfterFailure, AckAfterSkip
  <2>3. UNCHANGED environment
    BY <2>1, DoneType
  <2> QED
    BY <2>2, <2>3 DEF environment, queueSide, Deleted
<1>6. CASE Acknowledge
  BY <1>6 DEF Acknowledge, NoAck, queueSide, Deleted
<1>7. CASE Report
  BY <1>7 DEF Report, pollSide, Deleted
<1>8. CASE \E m \in wire : Settle(m)
  BY <1>8 DEF Settle, Listed, pollSide, Deleted
<1>9. CASE QueueRestart
  BY <1>9 DEF QueueRestart, pollSide, Deleted
<1>10. CASE PollRestart
  BY <1>10 DEF PollRestart, NoAck, queueSide, Deleted
<1>11. CASE Tick
  BY <1>11 DEF Tick, queueSide, pollSide, Deleted
<1>12. CASE \E d \in Devices : Invalidate(d)
  BY <1>12 DEF Invalidate, queueSide, pollSide, Deleted
<1>13. CASE UNCHANGED vars
  BY <1>13 DEF vars, queueSide, pollSide, Deleted
<1> QED
  BY <1>1, <1>2, <1>3, <1>4, <1>5, <1>6, <1>7, <1>8, <1>9, <1>10, <1>11, <1>12, <1>13
     DEF Next, InHand, Done, PassesOver

\* What becomes of the fate of events.
LEMMA FateGrows ==
  ASSUME Typed, [Next]_vars
  PROVE  /\ \A e \in Events : pushes[e] > 0 => pushes'[e] > 0
         /\ refused \subseteq refused' /\ condemned \subseteq condemned'
         /\ excused \subseteq excused'
<1>1. CASE \E x \in InHand : Done(x)
  <2>1. PICK x \in InHand : Done(x)
    BY <1>1
  <2>2. x.event \in Events /\ UNCHANGED environment
    BY <2>1, DoneType
  <2> QED
    BY <2>1, <2>2, Limits
       DEF Done, PassesOver, Discard, RejectUnknown, SkipUnknown, Accept, AcceptUnheard, Fail,
           Reject, Skip, Pushed, environment, fate, Typed, TypeOK
<1>2. CASE ~\E x \in InHand : Done(x)
  BY <1>2 DEF Next, InHand, Done, PassesOver, Notify, Enqueue, Poll, Begin, Acknowledge, Settle,
              Report, QueueRestart, PollRestart, Tick, Invalidate, vars, environment, fate
<1> QED
  BY <1>1, <1>2

LEMMA RecordsStep ==
  ASSUME Typed, RecordsTrue, [Next]_vars
  PROVE  RecordsTrue'
<1> USE Limits DEF RecordsTrue
<1>1. CASE \E x \in InHand : Done(x)
  <2>1. PICK x \in InHand : Done(x)
    BY <1>1
  <2>2. Accept(x) => x \in sending
    BY DEF Accept, Sent
  <2>3. sending' = {} /\ x.event \in Events
    BY <2>1, DoneType
  <2>4. CASE Accept(x)
    <3>1. \/ Window # 0 /\ poll_record' = [poll_record EXCEPT ![x.event] = now]
          \/ Window = 0 /\ poll_record' = poll_record
      BY <2>2, <2>4 DEF Accept, Recorded
    <3>2. CASE Window # 0 /\ poll_record' = [poll_record EXCEPT ![x.event] = now]
      BY <2>3, <2>4, <3>2 DEF Accept, Pushed, Typed, TypeOK
    <3>3. CASE Window = 0 /\ poll_record' = poll_record
      <4>1. \A e \in Events : pushes[e] > 0 => pushes'[e] > 0
        BY <2>3, <2>4 DEF Accept, Pushed, Typed, TypeOK
      <4> QED
        BY <2>3, <3>3, <4>1
    <3> QED
      BY <3>1, <3>2, <3>3
  <2>5. CASE AcceptUnheard(x)
    BY <2>3, <2>5 DEF AcceptUnheard, Pushed, Typed, TypeOK
  <2>6. CASE PassesOver(x) \/ Fail(x) \/ Reject(x) \/ Skip(x)
    BY <2>3, <2>6 DEF PassesOver, Discard, RejectUnknown, SkipUnknown, Fail, Reject, Skip, fate
  <2> QED
    BY <2>1, <2>4, <2>5, <2>6 DEF Done
<1>2. CASE \E x \in InHand : Begin(x)
  BY <1>2 DEF Begin, environment, fate, Duplicate
<1>3. CASE PollRestart
  BY <1>3 DEF PollRestart, Forgotten
<1>4. CASE Tick
  <2>1. \A x \in sending : x.event \in Events
    BY DEF Typed, TypeOK, Entry
  <2>2. \A e \in Events : ~Duplicate(poll_record, e) => ~Duplicate(poll_record, e)'
    BY <1>4 DEF Tick, pollSide, Duplicate, Typed, TypeOK, Never
  <2> QED
    BY <1>4, <2>1, <2>2 DEF Tick, fate, pollSide
<1>5. CASE \/ \E h \in Handlers, e \in Events : Notify(h, e) \/ Enqueue(h, e)
           \/ Poll \/ Acknowledge \/ Report \/ \E m \in wire : Settle(m)
           \/ QueueRestart \/ (\E d \in Devices : Invalidate(d)) \/ UNCHANGED vars
  <2>1. UNCHANGED <<now, sending, poll_record, fate>>
    BY <1>5 DEF Notify, Enqueue, Poll, Acknowledge, Report, Settle, QueueRestart,
                Invalidate, vars, pollSide
  <2> QED
    BY <2>1 DEF fate, Duplicate
<1> QED
  BY <1>1, <1>2, <1>3, <1>4, <1>5 DEF Next, InHand, Done, PassesOver

-----------------------------------------------------------------------------
(***************************************************************************)
(* Ids.                                                                    *)
(***************************************************************************)

\* What an acknowledgement says once the poll side is done with an entry.
LEMMA AckGrows ==
  ASSUME Typed, NEW x \in InHand, Done(x)
  PROVE  /\ ack'.boot = ack.boot
         /\ ack.rejected \subseteq ack'.rejected
         /\ ack'.acked \in {ack.acked, ack.acked \cup {x.id}}
         /\ ack'.acked # ack.acked =>
              \/ pushes'[x.event] > 0 \/ x.event \in refused'
              \/ x.event \in condemned' /\ Target[x.event] \in ack'.rejected
<1>1. ack \in Ack /\ x.event \in Events
  BY DEF Typed, TypeOK, InHand, Entry
<1>2. /\ Acked(x).rejected = ack.rejected /\ Acked(x).boot = ack.boot
      /\ Acked(x).acked = ack.acked \cup {x.id}
  BY <1>1 DEF Acked, Ack
<1>3. /\ Condemning(x).rejected = ack.rejected \cup {Target[x.event]}
      /\ Condemning(x).boot = ack.boot
      /\ Condemning(x).acked = ack.acked \cup {x.id}
  BY <1>1, <1>2 DEF Condemning, Acked, Ack
<1>4. CASE Accept(x)
  <2>1. pushes'[x.event] > 0
    BY <1>1, <1>4, Limits DEF Accept, Pushed, Typed, TypeOK
  <2> QED
    BY <1>2, <1>4, <2>1 DEF Accept
<1>5. CASE AcceptUnheard(x) \/ Fail(x)
  BY <1>5 DEF AcceptUnheard, Fail, AckAfterFailure
<1>6. CASE Reject(x) \/ RejectUnknown(x)
  BY <1>3, <1>6 DEF Reject, RejectUnknown
<1>7. CASE Skip(x) \/ SkipUnknown(x) \/ Discard(x)
  BY <1>2, <1>7 DEF Skip, SkipUnknown, Discard, AckAfterSkip
<1> QED
  BY <1>4, <1>5, <1>6, <1>7 DEF Done, PassesOver

\* Only Enqueue adds an entry.
LEMMA HeldStep ==
  ASSUME Typed, [Next]_vars, ~\E h \in Handlers, e \in Events : Enqueue(h, e)
  PROVE  Held' \subseteq Held /\ (boot' = boot => next_id' = next_id)
<1>1. CASE Poll
  BY <1>1 DEF Poll, Held, Line, Returned, Expired, restarts
<1>2. CASE \E m \in wire : Settle(m)
  BY <1>2 DEF Settle, Held, restarts
<1>3. CASE QueueRestart
  BY <1>3 DEF QueueRestart, Held, Typed, TypeOK
<1>4. CASE ~Poll /\ ~(\E m \in wire : Settle(m)) /\ ~QueueRestart
  <2>1. UNCHANGED <<waiting, leased, next_id>>
    <3>1. CASE \E h \in Handlers, e \in Events : Notify(h, e)
      BY <3>1 DEF Notify
    <3>2. CASE \E x \in InHand : Begin(x) \/ Done(x)
      BY <3>2, DoneType DEF Begin, environment, queueSide
    <3>3. CASE \/ Acknowledge \/ Report \/ PollRestart \/ Tick
               \/ (\E d \in Devices : Invalidate(d)) \/ UNCHANGED vars
      BY <3>3 DEF Acknowledge, Report, PollRestart, Tick, Invalidate, vars, queueSide
    <3> QED
      BY <1>4, <3>1, <3>2, <3>3 DEF Next, InHand, Done, PassesOver
  <2> QED
    BY <2>1 DEF Held
<1> QED
  BY <1>1, <1>2, <1>3, <1>4

LEMMA EnqueueHeld ==
  ASSUME NEW h \in Handlers, NEW e \in Events, Enqueue(h, e)
  PROVE  Held' \subseteq Held \cup {[id |-> next_id, event |-> e, enqueued |-> now]}
BY DEF Enqueue, Held

LEMMA NumberedStep ==
  ASSUME Typed, Numbered, [Next]_vars
  PROVE  Numbered'
<1> USE DEF Numbered
<1>0. /\ next_id \in Nat /\ boot \in Nat /\ ack \in Ack /\ wire \subseteq Ack
      /\ \A x \in Held : x \in Entry
  BY LineType, Limits DEF Typed, TypeOK
<1>1. CASE \E h \in Handlers, e \in Events : Enqueue(h, e)
  <2>1. PICK h \in Handlers, e \in Events : Enqueue(h, e)
    BY <1>1
  <2>2. Held' \subseteq Held \cup {[id |-> next_id, event |-> e, enqueued |-> now]}
    BY <2>1, EnqueueHeld
  <2>3. next_id' = next_id + 1 /\ UNCHANGED <<boot, wire, ack, work, sending>>
    BY <2>1 DEF Enqueue, pollSide, restarts
  <2>4. \A x \in InHand : x.id \in Nat
    BY DEF InHand, Typed, TypeOK, Entry
  <2>5. /\ \A x \in Held' : x.id < next_id'
        /\ \A x, y \in Held' : x.id = y.id => x.event = y.event
    <3>1. \A x \in Held' : x \in Held \/ (x.id = next_id /\ x.event = e)
      BY <2>2
    <3>2. \A x \in Held : x.id \in Nat
      BY <1>0 DEF Entry
    <3> QED
      BY <1>0, <2>3, <3>1, <3>2
  <2>6. ack.boot = boot =>
          \A x \in InHand : x.id < next_id' /\ \A y \in Held' : y.id = x.id => y.event = x.event
    BY <1>0, <2>2, <2>3, <2>4
  <2>7. \A m \in wire \cup {ack} : m.boot = boot => \A i \in m.acked : i < next_id'
    BY <1>0, <2>3 DEF Ack
  <2>8. InHand' = InHand /\ ack' = ack /\ wire' = wire /\ boot' = boot
    BY <2>3 DEF InHand
  <2> QED
    BY <2>5, <2>6, <2>7, <2>8
<1>2. CASE Poll
  <2>1. Held' \subseteq Held /\ UNCHANGED <<next_id, wire, boot, sending>>
    BY <1>2 DEF Poll, Held, Line, Returned, Expired, restarts
  <2>2. \/ work' \subseteq Held /\ sending = {} /\ ack' = NoAck
        \/ UNCHANGED <<work, ack>>
    BY <1>2 DEF Poll, PollerIdle, Held, Line, Returned, Expired
  <2>3. CASE UNCHANGED <<work, ack>>
    BY <2>1, <2>3 DEF InHand
  <2>4. CASE work' \subseteq Held /\ sending = {} /\ ack' = NoAck
    <3>1. InHand' \subseteq Held /\ ack'.acked = {} /\ ack'.boot = boot
      BY <2>1, <2>4 DEF InHand, NoAck
    <3>2. \A x \in InHand' : x.id < next_id' /\ \A y \in Held' : y.id = x.id => y.event = x.event
      BY <2>1, <3>1
    <3>3. \A m \in wire' \cup {ack'} : m.boot = boot' => \A i \in m.acked : i < next_id'
      BY <2>1, <3>1
    <3> QED
      BY <1>0, <2>1, <3>1, <3>2, <3>3
  <2> QED
    BY <2>2, <2>3, <2>4
<1>3. CASE \E x \in InHand : Begin(x)
  <2>1. PICK x \in InHand : Begin(x)
    BY <1>3
  <2>2. UNCHANGED <<waiting, leased, next_id, boot, wire>> /\ InHand' \subseteq InHand
    BY <2>1 DEF Begin, Begun, environment, InHand, queueSide, restarts
  <2>3. ack'.boot = ack.boot /\ ack'.acked \in {ack.acked, ack.acked \cup {x.id}}
    BY <1>0, <2>1 DEF Begin, Acked, Ack
  <2> QED
    BY <2>2, <2>3 DEF Held
<1>4. CASE \E x \in InHand : Done(x)
  <2>1. PICK x \in InHand : Done(x)
    BY <1>4
  <2>2. UNCHANGED <<waiting, leased, next_id, boot, wire>> /\ InHand' \subseteq InHand
    BY <2>1, DoneType DEF environment, queueSide, restarts
  <2>3. ack'.boot = ack.boot /\ ack'.acked \in {ack.acked, ack.acked \cup {x.id}}
    BY <2>1, AckGrows
  <2> QED
    BY <2>2, <2>3 DEF Held
<1>5. CASE Acknowledge
  <2>1. /\ UNCHANGED <<waiting, leased, next_id, boot>> /\ InHand' = {} /\ ack' = NoAck
        /\ wire' \subseteq wire \cup {ack}
    BY <1>5 DEF Acknowledge, InHand, queueSide, restarts
  <2> QED
    BY <1>0, <2>1 DEF Held, NoAck
<1>6. CASE \E m \in wire : Settle(m)
  <2>1. Held' \subseteq Held /\ wire' \subseteq wire
        /\ UNCHANGED <<next_id, boot, ack, work, sending>>
    BY <1>6 DEF Settle, Held, pollSide, restarts
  <2> QED
    BY <2>1 DEF InHand
<1>7. CASE QueueRestart
  <2>1. Held' = {} /\ boot' = boot + 1 /\ UNCHANGED <<wire, ack>>
    BY <1>7 DEF QueueRestart, Held, pollSide
  <2>2. \A m \in wire \cup {ack} : m.boot \in Nat /\ m.boot <= boot
    BY <1>0 DEF Ack
  <2>3. \A m \in wire \cup {ack} : m.boot < boot'
    BY <1>0, <2>1, <2>2
  <2>4. \A m \in wire \cup {ack} : m.boot <= boot' /\ m.boot # boot'
    BY <1>0, <2>1, <2>2, <2>3
  <2> QED
    BY <2>1, <2>4
<1>8. CASE PollRestart
  BY <1>0, <1>8 DEF PollRestart, queueSide, Held, InHand, NoAck
<1>9. CASE \/ \E h \in Handlers, e \in Events : Notify(h, e)
           \/ Report \/ Tick \/ (\E d \in Devices : Invalidate(d)) \/ UNCHANGED vars
  <2>1. UNCHANGED <<waiting, leased, next_id, boot, wire, ack, work, sending>>
    BY <1>9 DEF Notify, Report, Tick, Invalidate, vars, queueSide, pollSide, restarts
  <2> QED
    BY <2>1 DEF Held, InHand
<1> QED
  BY <1>1, <1>2, <1>3, <1>4, <1>5, <1>6, <1>7, <1>8, <1>9 DEF Next, InHand, Done, PassesOver

-----------------------------------------------------------------------------
(***************************************************************************)
(* Acknowledgements.                                                       *)
(***************************************************************************)

\* What may be said of an event may be said for good.
LEMMA SpeaksGrows ==
  ASSUME Typed, [Next]_vars, NEW m, NEW e \in Events, Speaks(m, e)
  PROVE  pushes'[e] > 0 \/ e \in refused' \/ (e \in condemned' /\ Target[e] \in m.rejected)
BY FateGrows DEF Speaks

\* An acknowledgement that stays sound: one for the process before, or one
\* that lists nothing new.
LEMMA AcksStep ==
  ASSUME Typed, RecordsTrue, Numbered, AcksSound, [Next]_vars
  PROVE  AcksSound'
<1>0. /\ next_id \in Nat /\ boot \in Nat /\ ack \in Ack /\ wire \subseteq Ack
      /\ \A x \in Held : x \in Entry /\ x.event \in Events
  BY LineType, Limits DEF Typed, TypeOK, Entry
<1>1. ASSUME UNCHANGED boot, Held' \subseteq Held
      PROVE  \A m \in wire \cup {ack} : m.boot = boot =>
               \A x \in Held' : x.id \in m.acked => Speaks(m, x.event)'
  BY <1>0, <1>1, SpeaksGrows DEF AcksSound, Speaks
<1>2. CASE \E h \in Handlers, e \in Events : Enqueue(h, e)
  <2>1. PICK h \in Handlers, e \in Events : Enqueue(h, e)
    BY <1>2
  <2>2. \A x \in Held' : x \in Held \/ x.id = next_id
    BY <2>1, EnqueueHeld
  <2>3. UNCHANGED <<boot, wire, ack, fate>>
    BY <2>1 DEF Enqueue, pollSide, restarts
  <2>4. \A m \in wire \cup {ack} : m.boot = boot => next_id \notin m.acked
    BY <1>0 DEF Numbered
  <2> QED
    BY <2>2, <2>3, <2>4 DEF AcksSound, Speaks, fate
<1>3. CASE Poll
  <2>1. Held' \subseteq Held /\ UNCHANGED <<wire, boot>>
    BY <1>3, HeldStep DEF Poll, Held, Line, Returned, Expired, restarts
  <2>2. ack' = ack \/ ack'.acked = {}
    BY <1>3 DEF Poll, NoAck
  <2> QED
    BY <1>1, <2>1, <2>2 DEF AcksSound
<1>4. CASE \E x \in InHand : Begin(x)
  <2>1. PICK x \in InHand : Begin(x)
    BY <1>4
  <2>2. UNCHANGED <<waiting, leased, boot, wire, fate>>
    BY <2>1 DEF Begin, environment, queueSide, restarts
  <2>3. CASE ack' = ack
    BY <2>2, <2>3 DEF AcksSound, Speaks, Held, fate
  <2>4. CASE Duplicate(poll_record, x.event) /\ ack' = Acked(x)
    <3>1. x.event \in Events /\ pushes[x.event] > 0
      BY <2>4 DEF RecordsTrue, Duplicate, InHand, Typed, TypeOK, Entry
    <3>2. /\ ack'.boot = ack.boot /\ ack'.rejected = ack.rejected
          /\ ack'.acked = ack.acked \cup {x.id}
      BY <1>0, <2>4 DEF Acked, Ack
    <3>3. ack.boot = boot => \A y \in Held : y.id = x.id => y.event = x.event
      BY DEF Numbered
    <3>4. ack'.boot = boot =>
            \A y \in Held : y.id \in ack'.acked => Speaks(ack', y.event)
      BY <1>0, <3>1, <3>2, <3>3 DEF AcksSound, Speaks
    <3> QED
      BY <2>2, <3>4 DEF AcksSound, Speaks, Held, fate
  <2> QED
    BY <2>1, <2>3, <2>4 DEF Begin
<1>5. CASE \E x \in InHand : Done(x)
  <2>1. PICK x \in InHand : Done(x)
    BY <1>5
  <2>2. Held' = Held /\ UNCHANGED <<boot, wire>>
    BY <2>1, DoneType DEF environment, Held, queueSide, restarts
  <2>3. /\ ack'.boot = ack.boot
        /\ ack.rejected \subseteq ack'.rejected
        /\ ack'.acked \in {ack.acked, ack.acked \cup {x.id}}
        /\ ack'.acked # ack.acked =>
             \/ pushes'[x.event] > 0 \/ x.event \in refused'
             \/ x.event \in condemned' /\ Target[x.event] \in ack'.rejected
    BY <2>1, AckGrows
  <2>4. ack.boot = boot => \A y \in Held : y.id = x.id => y.event = x.event
    BY DEF Numbered
  <2>5. ack'.boot = boot => \A y \in Held : y.id \in ack'.acked =>
          \/ pushes'[y.event] > 0 \/ y.event \in refused'
          \/ y.event \in condemned' /\ Target[y.event] \in ack'.rejected
    BY <1>1, <2>2, <2>3, <2>4 DEF Speaks
  <2> QED
    BY <1>1, <2>2, <2>5 DEF AcksSound, Speaks
<1>6. CASE Acknowledge
  <2>1. Held' = Held /\ UNCHANGED boot /\ wire' \subseteq wire \cup {ack} /\ ack'.acked = {}
    BY <1>6 DEF Acknowledge, Held, queueSide, restarts, NoAck
  <2> QED
    BY <1>1, <2>1 DEF AcksSound
<1>7. CASE \E m \in wire : Settle(m)
  <2>1. Held' \subseteq Held /\ wire' \subseteq wire /\ UNCHANGED <<boot, ack>>
    BY <1>7 DEF Settle, Held, pollSide, restarts
  <2> QED
    BY <1>1, <2>1 DEF AcksSound
<1>8. CASE QueueRestart
  BY <1>8 DEF QueueRestart, Held, AcksSound
<1>9. CASE PollRestart
  <2>1. Held' = Held /\ UNCHANGED <<boot, wire>> /\ ack'.acked = {}
    BY <1>9 DEF PollRestart, Held, queueSide, NoAck
  <2> QED
    BY <1>1, <2>1 DEF AcksSound
<1>10. CASE \/ \E h \in Handlers, e \in Events : Notify(h, e)
            \/ Report \/ Tick \/ (\E d \in Devices : Invalidate(d)) \/ UNCHANGED vars
  <2>1. UNCHANGED <<waiting, leased, boot, wire, ack>>
    BY <1>10 DEF Notify, Report, Tick, Invalidate, vars, queueSide, pollSide, restarts
  <2> QED
    BY <1>1, <2>1 DEF AcksSound, Held
<1> QED
  BY <1>2, <1>3, <1>4, <1>5, <1>6, <1>7, <1>8, <1>9, <1>10 DEF Next, InHand, Done, PassesOver

-----------------------------------------------------------------------------
(***************************************************************************)
(* What leaves the buffer.                                                 *)
(***************************************************************************)

\* An entry leaves the buffer for a reason the design accepts, or because an
\* acknowledgement that may do so settles it.
LEMMA LeavesForReason ==
  ASSUME Typed, AcksSound, [Next]_vars, NEW e \in EventsOf(Held)
  PROVE  \/ e \in EventsOf(Held)' \/ e \in excused'
         \/ \E m \in wire : Settle(m) /\ Speaks(m, e)
<1>0. PICK x \in Held : x.event = e
  BY DEF EventsOf
<1>1. CASE \E h \in Handlers, f \in Events : Enqueue(h, f)
  BY <1>0, <1>1 DEF Enqueue, EventsOf, Held
<1>2. CASE Poll
  <2>1. PICK popped \in SUBSET Line :
          /\ waiting' = Line \ popped
          /\ leased' = (leased \ Expired) \cup
               {[deadline |-> now + Lease, entry |-> y] : y \in {z \in popped : ~Outlived(z)}}
          /\ excused' = excused \cup EventsOf({y \in Returned \cup popped : Outlived(y)})
    BY <1>2 DEF Poll
  <2>2. CASE x \in Line \ popped
    BY <1>0, <2>1, <2>2 DEF EventsOf, Held
  <2>3. CASE x \in popped /\ ~Outlived(x)
    <3>1. [deadline |-> now + Lease, entry |-> x] \in leased'
      BY <2>1, <2>3
    <3>2. x \in Held'
      BY <3>1 DEF Held
    <3> QED
      BY <1>0, <3>2 DEF EventsOf
  <2>4. CASE x \in Returned \cup popped /\ Outlived(x)
    BY <1>0, <2>1, <2>4 DEF EventsOf
  <2>5. CASE \E l \in leased \ Expired : l.entry = x
    BY <1>0, <2>1, <2>5 DEF EventsOf, Held
  <2> QED
    BY <2>2, <2>3, <2>4, <2>5 DEF Held, Line, Returned
<1>3. CASE \E m \in wire : Settle(m)
  <2>1. PICK m \in wire : Settle(m)
    BY <1>3
  <2>2. CASE x \in waiting \/ \E l \in leased : l.entry = x /\ x.id \notin m.acked
    <3>1. x \in Held'
      BY <2>1, <2>2 DEF Settle, Held
    <3> QED
      BY <1>0, <3>1 DEF EventsOf
  <2>3. CASE \E l \in leased : l.entry = x /\ x.id \in m.acked
    <3>1. CASE m.boot = boot
      BY <1>0, <2>1, <2>3, <3>1 DEF AcksSound
    <3>2. CASE m.boot # boot
      BY <1>0, <2>1, <2>3, <3>2 DEF Settle
    <3> QED
      BY <3>1, <3>2
  <2> QED
    BY <2>2, <2>3 DEF Held
<1>4. CASE QueueRestart
  BY <1>4 DEF QueueRestart
<1>5. CASE \E h \in Handlers, f \in Events : Notify(h, f)
  BY <1>0, <1>5 DEF Notify, EventsOf, Held
<1>6. CASE \E y \in InHand : Begin(y) \/ Done(y)
  <2>1. UNCHANGED <<waiting, leased>>
    BY <1>6, DoneType DEF Begin, environment, queueSide
  <2> QED
    BY <1>0, <2>1 DEF EventsOf, Held
<1>7. CASE \/ Acknowledge \/ Report \/ PollRestart \/ Tick
           \/ (\E d \in Devices : Invalidate(d)) \/ UNCHANGED vars
  <2>1. UNCHANGED <<waiting, leased>>
    BY <1>7 DEF Acknowledge, Report, PollRestart, Tick, Invalidate, vars, queueSide
  <2> QED
    BY <1>0, <2>1 DEF EventsOf, Held
<1> QED
  BY <1>1, <1>2, <1>3, <1>4, <1>5, <1>6, <1>7 DEF Next, InHand, Done, PassesOver

LEMMA CoveredStays ==
  ASSUME Typed, AcksSound, [Next]_vars, NEW e \in Events, Covered(e)
  PROVE  Covered(e)'
<1>1. CASE e \in EventsOf(Held)
  <2>1. CASE \E m \in wire : Settle(m) /\ Speaks(m, e)
    BY <2>1, SpeaksGrows DEF Covered, Disposed
  <2> QED
    BY <1>1, <2>1, LeavesForReason DEF Covered
<1>2. CASE Disposed(e) \/ e \in excused
  BY <1>2, FateGrows DEF Covered, Disposed
<1> QED
  BY <1>1, <1>2 DEF Covered

LEMMA AccountedStep ==
  ASSUME Typed, AcksSound, Accounted, [Next]_vars
  PROVE  Accounted'
<1>0. /\ \A e \in Events : Covered(e) => Covered(e)'
      /\ \A x \in InHand : x.event \in Events
      /\ \A x \in Held : x.event \in Events
  BY CoveredStays, LineType DEF InHand, Typed, TypeOK, Entry
<1>1. ASSUME \A e \in Events : answer'[e] = "ok" \/ queue_record'[e] # Never =>
               answer[e] = "ok" \/ queue_record[e] # Never \/ Covered(e)',
             \A x \in InHand' : x \in InHand \/ x \in Held
      PROVE  Accounted'
  <2>1. \A x \in Held : Covered(x.event)
    BY DEF Covered, EventsOf
  <2> QED
    BY <1>0, <1>1, <2>1 DEF Accounted
<1>2. CASE \E h \in Handlers, e \in Events : Notify(h, e)
  <2>1. PICK h \in Handlers, e \in Events : Notify(h, e)
    BY <1>2
  <2>2. UNCHANGED <<queue_record, work, sending>>
    BY <2>1 DEF Notify, pollSide
  <2>3. \A f \in Events : answer'[f] = "ok" => answer[f] = "ok" \/ queue_record[f] # Never
    BY <2>1 DEF Notify, Answer, Duplicate, Typed, TypeOK
  <2> QED
    BY <1>1, <2>2, <2>3 DEF InHand
<1>3. CASE \E h \in Handlers, e \in Events : Enqueue(h, e)
  <2>1. PICK h \in Handlers, e \in Events : Enqueue(h, e)
    BY <1>3
  <2>2. Covered(e)'
    <3>1. [id |-> next_id, event |-> e, enqueued |-> now] \in Held'
      BY <2>1 DEF Enqueue, Held
    <3> QED
      BY <3>1 DEF Covered, EventsOf
  <2>3. \A f \in Events : f # e =>
          answer'[f] = answer[f] /\ queue_record'[f] = queue_record[f]
    BY <2>1 DEF Enqueue, Answer, Recorded, Typed, TypeOK
  <2> QED
    BY <1>1, <2>1, <2>2, <2>3 DEF InHand, Enqueue, pollSide
<1>4. CASE Poll
  <2>1. UNCHANGED <<answer, queue_record, sending>> /\ (work' \subseteq Held \/ work' = work)
    BY <1>4 DEF Poll, Line, Returned, Expired, Held
  <2> QED
    BY <1>1, <2>1 DEF InHand
<1>5. CASE \E x \in InHand : Begin(x) \/ Done(x)
  <2>1. UNCHANGED <<answer, queue_record>> /\ InHand' \subseteq InHand
    BY <1>5, DoneType DEF Begin, Begun, environment, InHand, queueSide
  <2> QED
    BY <1>1, <2>1
<1>6. CASE QueueRestart
  BY <1>1, <1>6 DEF QueueRestart, Forgotten, pollSide, InHand
<1>7. CASE PollRestart
  BY <1>1, <1>7 DEF PollRestart, queueSide, InHand
<1>8. CASE \/ Acknowledge \/ Report \/ Tick \/ (\E m \in wire : Settle(m))
           \/ (\E d \in Devices : Invalidate(d)) \/ UNCHANGED vars
  <2>1. UNCHANGED <<answer, queue_record, work, sending>>
    BY <1>8 DEF Acknowledge, Report, Tick, Settle, Invalidate, vars, queueSide, pollSide
  <2> QED
    BY <1>1, <2>1 DEF InHand
<1> QED
  BY <1>2, <1>3, <1>4, <1>5, <1>6, <1>7, <1>8 DEF Next, InHand, Done, PassesOver

\* Only the poll side condemns, and only what it has in hand.
LEMMA VerdictStep ==
  ASSUME Typed, AcksSound, Accounted, VerdictSurvives, [Next]_vars
  PROVE  VerdictSurvives'
<1>0. condemned \subseteq Events /\ condemned' \subseteq Events
  BY TypedStep DEF Typed, TypeOK
<1> SUFFICES ASSUME NEW e \in condemned'
             PROVE  \/ Target[e] \in reported' \cup reporting'
                    \/ e \in EventsOf(Held)' \/ e \in excused'
                    \/ pushes'[e] > 0 \/ e \in refused'
  BY DEF VerdictSurvives
<1>1. ASSUME Covered(e), e \notin condemned
      PROVE  e \in EventsOf(Held)' \/ e \in excused' \/ pushes'[e] > 0 \/ e \in refused'
  <2>1. e \in EventsOf(Held) \/ e \in excused \/ pushes[e] > 0 \/ e \in refused
    BY <1>1 DEF Covered, Disposed
  <2>2. \A m \in wire : Speaks(m, e) => pushes'[e] > 0 \/ e \in refused'
    BY <1>0, <1>1, FateGrows DEF Speaks
  <2> QED
    BY <1>0, <2>1, <2>2, FateGrows, LeavesForReason
<1>2. CASE e \notin condemned
  <2>1. PICK x \in InHand : Reject(x) \/ RejectUnknown(x)
    BY <1>2 DEF Next, InHand, Notify, Enqueue, Poll, Discard, SkipUnknown, Begin, Accept,
                AcceptUnheard, Fail, Skip, Acknowledge, Settle, Report, QueueRestart,
                PollRestart, Tick, Invalidate, vars, fate
  <2>2. x.event = e /\ Covered(e)
    BY <1>2, <2>1 DEF Reject, RejectUnknown, Accounted
  <2> QED
    BY <1>1, <1>2, <2>2
<1>3. CASE e \in condemned
  <2>1. \/ Target[e] \in reported \cup reporting \/ e \in EventsOf(Held)
        \/ e \in excused \/ pushes[e] > 0 \/ e \in refused
    BY <1>3 DEF VerdictSurvives
  <2>2. CASE e \in excused \/ pushes[e] > 0 \/ e \in refused
    BY <1>0, <2>2, FateGrows
  <2>3. CASE Target[e] \in reported \cup reporting
    <3>1. CASE QueueRestart
      BY <1>3, <3>1 DEF QueueRestart
    <3>2. CASE \E m \in wire : Settle(m)
      BY <2>3, <3>2 DEF Settle
    <3>3. CASE Report
      BY <2>3, <3>3 DEF Report
    <3>4. CASE ~QueueRestart /\ ~Report /\ ~\E m \in wire : Settle(m)
      <4>1. UNCHANGED <<reported, reporting>>
        <5>1. CASE \E x \in InHand : Begin(x) \/ Done(x)
          BY <5>1, DoneType DEF Begin, environment, queueSide
        <5>2. CASE ~\E x \in InHand : Begin(x) \/ Done(x)
          BY <3>4, <5>2 DEF Next, InHand, Done, PassesOver, Notify, Enqueue, Poll, Acknowledge,
                            PollRestart, Tick, Invalidate, vars, queueSide
        <5> QED
          BY <5>1, <5>2
      <4> QED
        BY <2>3, <4>1
    <3> QED
      BY <3>1, <3>2, <3>3, <3>4
  <2>4. CASE e \in EventsOf(Held)
    <3>1. CASE \E m \in wire : Settle(m) /\ Speaks(m, e)
      <4>1. PICK m \in wire : Settle(m) /\ Speaks(m, e)
        BY <3>1
      <4>2. CASE Target[e] \in m.rejected
        BY <4>1, <4>2 DEF Settle, Listed
      <4>3. CASE pushes[e] > 0 \/ e \in refused
        BY <1>0, <4>3, FateGrows
      <4> QED
        BY <4>1, <4>2, <4>3 DEF Speaks
    <3> QED
      BY <2>4, <3>1, LeavesForReason
  <2> QED
    BY <2>1, <2>2, <2>3, <2>4
<1> QED
  BY <1>2, <1>3

-----------------------------------------------------------------------------
(***************************************************************************)
(* The theorems.                                                           *)
(***************************************************************************)

LEMMA Initial == Init => Inv
<1> SUFFICES ASSUME Init PROVE Inv
  OBVIOUS
<1>1. Typed
  BY TypedInit
<1>2. ack = [acked |-> {}, rejected |-> {}, boot |-> 0] /\ boot = 0
  BY DEF Init, NoAck
<1>3. Deleted = {} /\ Held = {} /\ InHand = {}
  BY DEF Init, Deleted, Held, InHand
<1>4. VerdictsTrue /\ RecordsTrue /\ VerdictSurvives
  BY <1>2, <1>3 DEF Init, VerdictsTrue, RecordsTrue, VerdictSurvives, Forgotten
<1>5. Numbered /\ AcksSound
  BY <1>2, <1>3 DEF Init, Numbered, AcksSound
<1>6. Accounted
  BY <1>3 DEF Init, Accounted, Forgotten
<1> QED
  BY <1>1, <1>4, <1>5, <1>6 DEF Inv

LEMMA Invariance == Spec => []Inv
<1>1. Inv /\ [Next]_vars => Inv'
  BY TypedStep, VerdictsStep, RecordsStep, NumberedStep, AcksStep, AccountedStep, VerdictStep
     DEF Inv
<1> QED
  BY Initial, <1>1, PTL DEF Spec

(* In every reachable state each variable is of its type, and the bounds   *)
(* on restarts, ids, pushes and acknowledgements under way are kept.       *)
THEOREM TypeCorrect == Spec => []TypeOK
<1>1. Inv => TypeOK
  BY DEF Inv, Typed
<1> QED
  BY <1>1, Invariance, PTL

(* At-least-once from the homeserver's "200" to the push service: what     *)
(* queue_one has answered for is in the buffer until it has been pushed,   *)
(* refused or condemned, or is lost for a reason the design accepts.       *)
THEOREM NothingIsForgotten == Spec => []NothingForgotten
<1>1. Inv => NothingForgotten
  BY DEF Inv, Accounted, Covered, NothingForgotten
<1> QED
  BY <1>1, Invariance, PTL

(* A verdict on a pushkey reaches the queue side (poll_once, queue_ack),   *)
(* however acknowledgements are lost, delayed or reordered.                *)
THEOREM VerdictsReachTheQueue == Spec => []VerdictSurvives
<1>1. Inv => VerdictSurvives
  BY DEF Inv
<1> QED
  BY <1>1, Invariance, PTL

(* A pusher is deleted only for a pushkey that the push service has        *)
(* declared dead or, with reject_unknown_apps, one of an app for which the *)
(* poll side has no provider (deliver_one, queue_ack, queue_one).          *)
THEOREM DeletedForGoodReason == Spec => []OnlyDeadRejected
<1>1. Inv => OnlyDeadRejected
  BY DEF Inv, VerdictsTrue, OnlyDeadRejected
<1> QED
  BY <1>1, Invariance, PTL

(* No push is repeated without a reason (deliver_one, which looks at its   *)
(* record first, and DedupCache.record), whatever repeats the entry.       *)
THEOREM NoRepeatWithoutReason == Spec => RepeatsHaveReasons
<1>1. ASSUME Inv, Next, NEW e \in Events, pushes'[e] > pushes[e], pushedAt[e] # Never
      PROVE  now - pushedAt[e] >= Window
  <2>1. PICK x \in InHand : Accept(x) \/ AcceptUnheard(x)
    <3>1. pushes' # pushes
      BY <1>1, Limits DEF Inv, Typed, TypeOK
    <3> QED
      BY <1>1, <3>1
         DEF Next, InHand, Notify, Enqueue, Poll, Discard, RejectUnknown, SkipUnknown, Begin,
             Fail, Reject, Skip, Acknowledge, Settle, Report, QueueRestart, PollRestart, Tick,
             Invalidate, fate
  <2>2. x \in sending /\ x.event = e
    BY <1>1, <2>1, Limits DEF Accept, AcceptUnheard, Sent, Pushed, Inv, Typed, TypeOK
  <2>3. ~Duplicate(poll_record, e) /\ (Window = 0 \/ pushedAt[e] = poll_record[e])
    BY <1>1, <2>2 DEF Inv, RecordsTrue
  <2>4. now \in Nat /\ pushedAt[e] \in 0..now
    BY <1>1, Limits DEF Inv, Typed, TypeOK
  <2> QED
    BY <1>1, <2>3, <2>4, Limits DEF Duplicate
<1>2. ASSUME Inv, Next, NEW e \in Events
      PROVE  pushes'[e] > pushes[e] /\ pushedAt[e] # Never => now - pushedAt[e] >= Window
  BY <1>1, <1>2
<1>3. Inv /\ [Next]_vars =>
        [\A e \in Events : pushes'[e] > pushes[e] /\ pushedAt[e] # Never
           => now - pushedAt[e] >= Window]_vars
  BY <1>2
<1> QED
  BY <1>3, Invariance, PTL DEF Spec, RepeatsHaveReasons

-----------------------------------------------------------------------------
(***************************************************************************)
(* The two records are what DedupCache implements, too, as long as there   *)
(* is room for every event.                                                *)
(***************************************************************************)
QueueDeliveries == INSTANCE DeliveryRecord
  WITH Keys <- Events, TTL <- Window, Capacity <- Cardinality(Events), Lateness <- 0,
       opened <- queue_record
PollDeliveries == INSTANCE DeliveryRecord
  WITH Keys <- Events, TTL <- Window, Capacity <- Cardinality(Events), Lateness <- 0,
       opened <- poll_record

LEMMA CountsAgree ==
  \A S : QueueDeliveries!Cardinality(S) = Cardinality(S)
      /\ PollDeliveries!Cardinality(S) = Cardinality(S)
BY DEF QueueDeliveries!Cardinality, PollDeliveries!Cardinality, Cardinality

\* Recording an event in a record that has room for it.
LEMMA RoomForAll ==
  ASSUME IsFiniteSet(Events), NEW S \in SUBSET Events
  PROVE  Cardinality(S) <= Cardinality(Events)
BY FS_Subset

LEMMA RecordedByQueue ==
  ASSUME IsFiniteSet(Events), TypeOK, NEW e \in Events, UNCHANGED now,
         queue_record' = Recorded(queue_record, e)
  PROVE  QueueDeliveries!Record(e) \/ UNCHANGED queue_record
<1>1. /\ queue_record \in [Events -> 0..now \cup {Never}]
      /\ now \in Nat /\ Window \in Nat
  BY Limits DEF TypeOK
<1>2. CASE Window = 0 \/ Duplicate(queue_record, e)
  BY <1>2 DEF Recorded
<1>3. CASE Window # 0 /\ ~Duplicate(queue_record, e)
  <2> DEFINE known == QueueDeliveries!Known
             all   == known \cup {e}
  <2>1. known = {f \in Events : queue_record[f] # Never}
    BY DEF QueueDeliveries!Known, QueueDeliveries!Never, Never
  <2>2. queue_record' = [f \in Events |->
          IF f \in all THEN IF f = e THEN now ELSE queue_record[f] ELSE QueueDeliveries!Never]
    BY <1>1, <1>3, <2>1 DEF Recorded, QueueDeliveries!Never, Never
  <2>3. now \in QueueDeliveries!Stamps /\ known \in QueueDeliveries!Kept(now)
    BY <1>1 DEF QueueDeliveries!Stamps, QueueDeliveries!Kept
  <2>4. ~QueueDeliveries!Open(now, e)
    BY <1>1, <1>3 DEF Duplicate, QueueDeliveries!Open, QueueDeliveries!Never, Never
  <2>5. QueueDeliveries!Cardinality(all) <= Cardinality(Events)
    BY <2>1, CountsAgree, RoomForAll
  <2>6. \E l \in SUBSET (known \cup {e}) :
          /\ IF QueueDeliveries!Cardinality(known \cup {e}) <= Cardinality(Events)
               THEN l = known \cup {e} ELSE QueueDeliveries!Cardinality(l) = Cardinality(Events)
          /\ \A j \in (known \cup {e}) \ l, i \in l :
               (IF j = e THEN now ELSE queue_record[j]) - 0 <= (IF i = e THEN now ELSE queue_record[i])
          /\ queue_record' = [f \in Events |->
               IF f \in l THEN IF f = e THEN now ELSE queue_record[f] ELSE QueueDeliveries!Never]
    <3> WITNESS all \in SUBSET (known \cup {e})
    <3> QED
      BY <2>2, <2>5
  <2> HIDE DEF known
  <2>7. QueueDeliveries!Begin(e)
    BY ONLY <2>3, <2>4, <2>6, Zenon DEF QueueDeliveries!Begin
  <2> QED
    BY <1>3, <2>7 DEF QueueDeliveries!Record
<1> QED
  BY <1>2, <1>3

LEMMA RecordedByPollSide ==
  ASSUME IsFiniteSet(Events), TypeOK, NEW e \in Events, UNCHANGED now,
         poll_record' = Recorded(poll_record, e)
  PROVE  PollDeliveries!Record(e) \/ UNCHANGED poll_record
<1>1. /\ poll_record \in [Events -> 0..now \cup {Never}]
      /\ now \in Nat /\ Window \in Nat
  BY Limits DEF TypeOK
<1>2. CASE Window = 0 \/ Duplicate(poll_record, e)
  BY <1>2 DEF Recorded
<1>3. CASE Window # 0 /\ ~Duplicate(poll_record, e)
  <2> DEFINE known == PollDeliveries!Known
             all   == known \cup {e}
  <2>1. known = {f \in Events : poll_record[f] # Never}
    BY DEF PollDeliveries!Known, PollDeliveries!Never, Never
  <2>2. poll_record' = [f \in Events |->
          IF f \in all THEN IF f = e THEN now ELSE poll_record[f] ELSE PollDeliveries!Never]
    BY <1>1, <1>3, <2>1 DEF Recorded, PollDeliveries!Never, Never
  <2>3. now \in PollDeliveries!Stamps /\ known \in PollDeliveries!Kept(now)
    BY <1>1 DEF PollDeliveries!Stamps, PollDeliveries!Kept
  <2>4. ~PollDeliveries!Open(now, e)
    BY <1>1, <1>3 DEF Duplicate, PollDeliveries!Open, PollDeliveries!Never, Never
  <2>5. PollDeliveries!Cardinality(all) <= Cardinality(Events)
    BY <2>1, CountsAgree, RoomForAll
  <2>6. \E l \in SUBSET (known \cup {e}) :
          /\ IF PollDeliveries!Cardinality(known \cup {e}) <= Cardinality(Events)
               THEN l = known \cup {e} ELSE PollDeliveries!Cardinality(l) = Cardinality(Events)
          /\ \A j \in (known \cup {e}) \ l, i \in l :
               (IF j = e THEN now ELSE poll_record[j]) - 0 <= (IF i = e THEN now ELSE poll_record[i])
          /\ poll_record' = [f \in Events |->
               IF f \in l THEN IF f = e THEN now ELSE poll_record[f] ELSE PollDeliveries!Never]
    <3> WITNESS all \in SUBSET (known \cup {e})
    <3> QED
      BY <2>2, <2>5
  <2> HIDE DEF known
  <2>7. PollDeliveries!Begin(e)
    BY ONLY <2>3, <2>4, <2>6, Zenon DEF PollDeliveries!Begin
  <2> QED
    BY <1>3, <2>7 DEF PollDeliveries!Record
<1> QED
  BY <1>2, <1>3

(* The record of the queue side is a record of deliveries as DedupCache    *)
(* keeps one, for any finite number of events: it is written where         *)
(* queue_one records, and emptied by a restart.                            *)
THEOREM QueueKeepsTheRecord ==
  ASSUME IsFiniteSet(Events)
  PROVE  Spec => QueueDeliveries!SpecWithRestarts
<1>1. Init => QueueDeliveries!Init
  BY DEF Init, Forgotten, Never, QueueDeliveries!Init, QueueDeliveries!Nothing,
         QueueDeliveries!Never
<1>2. Inv /\ [Next]_vars
        => [QueueDeliveries!Next \/ QueueDeliveries!Restart]_(QueueDeliveries!vars)
  <2> SUFFICES ASSUME Inv, [Next]_vars
               PROVE  [QueueDeliveries!Next \/ QueueDeliveries!Restart]_(QueueDeliveries!vars)
    OBVIOUS
  <2>1. ASSUME NEW h \in Handlers, NEW e \in Events, Enqueue(h, e)
        PROVE  QueueDeliveries!Record(e) \/ UNCHANGED QueueDeliveries!vars
    <3>1. UNCHANGED now /\ queue_record' = Recorded(queue_record, e)
      BY <2>1 DEF Enqueue
    <3> QED
      BY <3>1, RecordedByQueue DEF Inv, Typed, QueueDeliveries!vars
  <2>2. CASE QueueRestart
    BY <2>2 DEF QueueRestart, Forgotten, Never, QueueDeliveries!Restart,
                QueueDeliveries!Nothing, QueueDeliveries!Never
  <2>3. CASE Tick
    BY <2>3 DEF Tick, queueSide, QueueDeliveries!Tick, QueueDeliveries!Next
  <2>4. CASE \/ \E h \in Handlers, e \in Events : Notify(h, e)
             \/ Poll
             \/ \E x \in InHand : Begin(x) \/ Done(x)
             \/ Acknowledge \/ Report
             \/ \E m \in wire : Settle(m)
             \/ PollRestart
             \/ (\E d \in Devices : Invalidate(d))
             \/ UNCHANGED vars
    <3>1. UNCHANGED <<now, queue_record>>
      BY <2>4, DoneType DEF Notify, Poll, Begin, Acknowledge, Report, Settle, PollRestart,
                            Invalidate, vars, environment, queueSide, Inv
    <3> QED
      BY <3>1 DEF QueueDeliveries!vars
  <2> QED
    BY <2>1, <2>2, <2>3, <2>4 DEF Next, InHand, Done, PassesOver, QueueDeliveries!Next
<1> QED
  BY <1>1, <1>2, Invariance, PTL DEF Spec, QueueDeliveries!SpecWithRestarts

(* So is that of the poll side, which records what a push service has      *)
(* accepted (deliver_one).                                                 *)
THEOREM PollSideKeepsTheRecord ==
  ASSUME IsFiniteSet(Events)
  PROVE  Spec => PollDeliveries!SpecWithRestarts
<1>1. Init => PollDeliveries!Init
  BY DEF Init, Forgotten, Never, PollDeliveries!Init, PollDeliveries!Nothing,
         PollDeliveries!Never
<1>2. Inv /\ [Next]_vars
        => [PollDeliveries!Next \/ PollDeliveries!Restart]_(PollDeliveries!vars)
  <2> SUFFICES ASSUME Inv, [Next]_vars
               PROVE  [PollDeliveries!Next \/ PollDeliveries!Restart]_(PollDeliveries!vars)
    OBVIOUS
  <2>1. ASSUME NEW x \in InHand, Accept(x)
        PROVE  PollDeliveries!Record(x.event) \/ UNCHANGED PollDeliveries!vars
    <3>1. UNCHANGED now /\ poll_record' = Recorded(poll_record, x.event)
      BY <2>1 DEF Accept, environment
    <3>2. x.event \in Events
      BY DEF Inv, Typed, TypeOK, InHand, Entry
    <3> QED
      BY <3>1, <3>2, RecordedByPollSide DEF Inv, Typed, PollDeliveries!vars
  <2>2. CASE PollRestart
    BY <2>2 DEF PollRestart, Forgotten, Never, PollDeliveries!Restart,
                PollDeliveries!Nothing, PollDeliveries!Never
  <2>3. CASE Tick
    BY <2>3 DEF Tick, pollSide, PollDeliveries!Tick, PollDeliveries!Next
  <2>4. CASE \/ \E h \in Handlers, e \in Events : Notify(h, e) \/ Enqueue(h, e)
             \/ Poll
             \/ \E x \in InHand :
                  \/ PassesOver(x) \/ Begin(x) \/ AcceptUnheard(x) \/ Fail(x) \/ Reject(x)
                  \/ Skip(x)
             \/ Acknowledge \/ Report
             \/ \E m \in wire : Settle(m)
             \/ QueueRestart
             \/ (\E d \in Devices : Invalidate(d))
             \/ UNCHANGED vars
    <3>1. UNCHANGED <<now, poll_record>>
      BY <2>4 DEF Notify, Enqueue, Poll, PassesOver, Discard, RejectUnknown, SkipUnknown, Begin,
                  AcceptUnheard, Fail, Reject, Skip, Acknowledge, Report, Settle, QueueRestart,
                  Invalidate, vars, environment, pollSide
    <3> QED
      BY <3>1 DEF PollDeliveries!vars
  <2>5. ASSUME NEW x \in InHand, Accept(x)
        PROVE  [PollDeliveries!Next \/ PollDeliveries!Restart]_(PollDeliveries!vars)
    <3>1. x.event \in Events
      BY DEF Inv, Typed, TypeOK, InHand, Entry
    <3> QED
      BY <2>1, <2>5, <3>1 DEF PollDeliveries!Next
  <2> QED
    BY <2>2, <2>3, <2>4, <2>5 DEF Next, InHand, Done, PassesOver
<1> QED
  BY <1>1, <1>2, Invariance, PTL DEF Spec, PollDeliveries!SpecWithRestarts
=============================================================================
