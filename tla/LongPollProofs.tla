--------------------------- MODULE LongPollProofs ---------------------------
(***************************************************************************)
(* Proofs about LongPoll, for any number of pollers and entries.  That no  *)
(* arrival is missed rests on two facts: a poll that looks at the buffer   *)
(* or awaits has its future among the waiters, and a poll only awaits      *)
(* after a look at a buffer with nothing in it.                            *)
(***************************************************************************)
EXTENDS LongPoll, FiniteSetTheorems, TLAPS

Registered == \A p \in Pollers : pc[p] \in {"check", "await"} => p \in waiters

\* An entry that can be leased again has a lease left.
LeasesLeft ==
  \A e \in Entries :
    status[e] \notin {"overdue", "acked", "dropped"} => lapses[e] \in 0..MaxLapses

Inv == TypeOK /\ Registered /\ LeasesLeft /\ NoMissedArrival

-----------------------------------------------------------------------------
\* A look that finds nothing to hand out has seen an empty buffer.
LEMMA NothingWaiting ==
  ASSUME NEW st, {} \in Batches(st)
  PROVE  \A e \in Entries : st[e] \notin {"fresh", "returned"}
<1> DEFINE waiting == {e \in Entries : st[e] = "returned"} \cup {e \in Entries : st[e] = "fresh"}
<1>1. IsFiniteSet(waiting) /\ IsFiniteSet({})
  BY LimitsAssumption, FS_Subset, FS_EmptySet
<1>2. Cardinality(waiting) \in Nat /\ Cardinality({}) = 0
  BY <1>1, FS_CardinalityType, FS_EmptySet
<1>3. Cardinality({}) = IF Cardinality(waiting) < Max THEN Cardinality(waiting) ELSE Max
  BY DEF Batches
<1>4. Cardinality(waiting) = 0
  BY <1>2, <1>3, LimitsAssumption
<1>5. waiting = {}
  BY <1>1, <1>4, FS_EmptySet
<1> QED
  BY <1>5

LEMMA BatchesWait ==
  ASSUME NEW st, NEW B \in Batches(st), NEW e \in B
  PROVE  e \in Entries /\ st[e] \in {"fresh", "returned"}
BY DEF Batches

LEMMA ReclaimedType ==
  ASSUME Inv
  PROVE  /\ Reclaimed \in [Entries -> Statuses]
         /\ \A e \in Entries :
              /\ Reclaimed[e] \notin {"overdue", "acked", "dropped"} => lapses[e] \in 0..MaxLapses
              /\ Reclaimed[e] = "fresh" <=> status[e] = "fresh"
BY LimitsAssumption DEF Inv, TypeOK, LeasesLeft, Reclaimed, Requeue, Statuses

LEMMA InitInv == Init => Inv
BY LimitsAssumption
   DEF Init, Inv, TypeOK, Statuses, Registered, LeasesLeft, NoMissedArrival, In

-----------------------------------------------------------------------------
LEMMA CheckInv ==
  ASSUME Inv, NEW p \in Pollers, Check(p)
  PROVE  Inv'
<1> USE DEF Inv
<1>1. PICK B \in Batches(Reclaimed) :
        /\ status' = [e \in Entries |-> IF e \in B THEN "leased" ELSE Reclaimed[e]]
        /\ IF B = {}
             THEN Goto(p, After("check")) /\ UNCHANGED <<waiters, woken>>
             ELSE /\ Goto(p, "idle")
                  /\ waiters' = waiters \ {p}
                  /\ woken' = woken \ {p}
  BY DEF Check
<1>2. pc[p] = "check" /\ UNCHANGED <<due, notifying, lapses>> /\ After("check") = "await"
  BY DEF Check, After, Round
<1>3. TypeOK'
  BY <1>1, <1>2, ReclaimedType DEF TypeOK, Goto, Statuses
<1>4. Registered'
  BY <1>1, <1>2 DEF Registered, TypeOK, Goto
<1>5. LeasesLeft'
  BY <1>1, <1>2, BatchesWait, ReclaimedType DEF LeasesLeft
<1>6. In("fresh")' \subseteq In("fresh")
  BY <1>1, ReclaimedType DEF In
<1>7. NoMissedArrival'
  <2> SUFFICES ASSUME NEW q \in Pollers, (pc[q] = "await" /\ q \notin woken)'
               PROVE  In("fresh")' \subseteq notifying'
    BY DEF NoMissedArrival
  <2>1. CASE B = {}
    <3>1. \A e \in Entries : status'[e] # "fresh"
      BY <1>1, <2>1, NothingWaiting
    <3> QED
      BY <3>1 DEF In
  <2>2. CASE B # {}
    <3>1. pc[q] = "await" /\ q \notin woken
      BY <1>1, <1>2, <2>2 DEF Goto, TypeOK
    <3> QED
      BY <1>2, <1>6, <3>1 DEF NoMissedArrival
  <2> QED
    BY <2>1, <2>2
<1> QED
  BY <1>3, <1>4, <1>5, <1>7

LEMMA StepInv == Inv /\ [Next]_vars => Inv'
<1> SUFFICES ASSUME Inv, [Next]_vars PROVE Inv'
  OBVIOUS
<1> USE LimitsAssumption DEF Inv, TypeOK, Statuses, Registered, LeasesLeft, NoMissedArrival, In
<1>1. ASSUME NEW e \in Entries, Push(e) PROVE Inv'
  BY <1>1 DEF Push
<1>2. ASSUME NEW e \in Entries, NotifyWaiters(e) PROVE Inv'
  BY <1>2 DEF NotifyWaiters
<1>3. ASSUME NEW e \in Entries, LeaseExpires(e) PROVE Inv'
  BY <1>3 DEF LeaseExpires
<1>4. ASSUME NEW e \in Entries, Ack(e) PROVE Inv'
  BY <1>4 DEF Ack
<1>5. ASSUME NEW p \in Pollers, Arrive(p) PROVE Inv'
  BY <1>5 DEF Arrive, Goto, Round
<1>6. ASSUME NEW p \in Pollers, Register(p) PROVE Inv'
  BY <1>6 DEF Register, Goto, After, Round
<1>7. ASSUME NEW p \in Pollers, Check(p) PROVE Inv'
  BY <1>7, CheckInv
<1>8. ASSUME NEW p \in Pollers, Wake(p) PROVE Inv'
  BY <1>8 DEF Wake, Goto, Round
<1>9. ASSUME NEW p \in Pollers, Timeout(p) \/ Cancel(p) PROVE Inv'
  BY <1>9 DEF Timeout, Cancel, Leave, Goto
<1>10. ASSUME NEW p \in Pollers, DeadlinePasses(p) PROVE Inv'
  BY <1>10 DEF DeadlinePasses
<1>11. CASE UNCHANGED vars
  BY <1>11 DEF vars
<1> QED
  BY <1>1, <1>2, <1>3, <1>4, <1>5, <1>6, <1>7, <1>8, <1>9, <1>10, <1>11 DEF Next

THEOREM Invariance == Spec => []Inv
<1>1. Init => Inv
  BY InitInv
<1>2. Inv /\ [Next]_vars => Inv'
  BY StepInv
<1> QED
  BY <1>1, <1>2, PTL DEF Spec

-----------------------------------------------------------------------------
(* Type correctness; woken futures are among those that exist.             *)
THEOREM TypeCorrect == Spec => []TypeOK
<1>1. Inv => TypeOK
  BY DEF Inv
<1> QED
  BY <1>1, Invariance, PTL

(* No arrival is missed by a poll that awaits, whatever the interleaving   *)
(* of enqueues and polls (poll_wait, enqueue).                             *)
THEOREM ArrivalsAreNotMissed == Spec => []NoMissedArrival
<1>1. Inv => NoMissedArrival
  BY DEF Inv
<1> QED
  BY <1>1, Invariance, PTL
=============================================================================
