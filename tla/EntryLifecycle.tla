--------------------------- MODULE EntryLifecycle ---------------------------
(***************************************************************************)
(* What the queue side of the relay promises about one queued entry,       *)
(* whatever the buffer does with the others (module documentation of       *)
(* src/src/queue.rs).  An entry is accepted once, waits, is handed out     *)
(* (perhaps several times: delivery is at-least-once) and ends for good,   *)
(* either settled by an acknowledgement or dropped.  Only an entry that is *)
(* out can be settled, and nothing leaves a final status.                  *)
(*                                                                         *)
(* RelayQueue implements this module; see RelayQueue!LifecycleSpec.        *)
(***************************************************************************)
EXTENDS Naturals

CONSTANT Ids          \* the ids entries can be given: an initial part of Nat

VARIABLE status       \* what became of each id

Statuses == {"new", "queued", "out", "settled", "dropped"}

Init == status = [i \in Ids |-> "new"]

(***************************************************************************)
(* The moves each operation may make, as pairs <<from, to>>.               *)
(***************************************************************************)
Stays == {<<s, s>> : s \in Statuses}

\* Making room for an arrival drops waiting entries, never one that is out.
Evicts == Stays \cup {<<"queued", "dropped">>}

\* A poll moves entries between waiting and out, and drops obsolete ones.
Polls == Stays \cup ({"queued", "out"} \X {"queued", "out", "dropped"})

\* An acknowledgement settles entries that are out, and nothing else.
Settles == Stays \cup {<<"out", "settled">>}

Move(i) == <<status[i], status'[i]>>

\* Ids are given out in order.
Accept ==
  \E i \in Ids :
    /\ Move(i) = <<"new", "queued">>
    /\ \A j \in Ids : j < i => status[j] # "new"
    /\ \A j \in Ids \ {i} : Move(j) \in Evicts

HandOut == \A i \in Ids : Move(i) \in Polls

Settle == \A i \in Ids : Move(i) \in Settles

Next ==
  /\ DOMAIN status' = Ids
  /\ Accept \/ HandOut \/ Settle

Spec == Init /\ [][Next]_status
=============================================================================
