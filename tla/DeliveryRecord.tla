--------------------------- MODULE DeliveryRecord ---------------------------
(***************************************************************************)
(* What the record of recent deliveries promises (module documentation of  *)
(* src/src/dedup.rs), whatever it keeps to find what to forget: a delivery *)
(* opens a window, which is fixed from the first recording; a window that  *)
(* has run its time may be forgotten whenever something is recorded; and   *)
(* if there is no room for one more, the oldest make room, as many as have *)
(* to.  A restart of the process forgets everything.                       *)
(*                                                                         *)
(* DedupCache implements this module, see DedupCache!DeliverySpec; so do   *)
(* the two records of Relay, see RelayProofs.                              *)
(***************************************************************************)
EXTENDS Integers, FiniteSets

CONSTANTS
  Keys,       \* what can be recorded
  TTL,        \* how long a window stays open; with zero, nothing is recorded
  Capacity,   \* how many windows there is room for
  Lateness    \* how old a stamp may be when it is recorded

VARIABLES
  now,        \* the clock
  opened      \* when the window of a key was opened, or Never

vars == <<now, opened>>

Never == -1
Nothing == [k \in Keys |-> Never]

Init == now = 0 /\ opened = Nothing

Known == {k \in Keys : opened[k] # Never}
Stamps == {t \in 0..now : now - t <= Lateness}
Open(t, k) == opened[k] # Never /\ t < opened[k] + TTL

\* The windows that may be left when those that have run their time may go.
Kept(t) == {kept \in SUBSET Known : \A k \in Known \ kept : ~Open(t, k)}

\* A delivery within the window of an earlier one leaves that window alone.
Repeat(k) ==
  \E t \in Stamps : \E kept \in Kept(t) :
    /\ k \in kept /\ Open(t, k)
    /\ opened' = [j \in Keys |-> IF j \in kept THEN opened[j] ELSE Never]

\* Any other opens a window, and the oldest make room if there is none.
Begin(k) ==
  \E t \in Stamps : \E kept \in Kept(t) :
    LET all      == kept \cup {k}
        stamp(j) == IF j = k THEN t ELSE opened[j]
    IN  /\ ~Open(t, k)
        /\ \E left \in SUBSET all :
             /\ IF Cardinality(all) <= Capacity THEN left = all ELSE Cardinality(left) = Capacity
             /\ \A j \in all \ left, l \in left : stamp(j) - Lateness <= stamp(l)
             /\ opened' = [j \in Keys |-> IF j \in left THEN stamp(j) ELSE Never]

Record(k) == TTL # 0 /\ UNCHANGED now /\ (Repeat(k) \/ Begin(k))

Tick == now' = now + 1 /\ UNCHANGED opened

Next == Tick \/ \E k \in Keys : Record(k)

Spec == Init /\ [][Next]_vars

\* The record of a process that may restart.
Restart == opened' = Nothing /\ UNCHANGED now

SpecWithRestarts == Init /\ [][Next \/ Restart]_vars
=============================================================================
