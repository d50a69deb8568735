------------------------------ MODULE LongPoll ------------------------------
(***************************************************************************)
(* The waiting side of a poll: poll_wait against enqueue, in               *)
(* src/src/queue.rs.  The contents of the buffer are RelayQueue's matter;  *)
(* here an entry is only fresh, leased, overdue (its lease has expired),   *)
(* returned (requeued, waiting again), acked or dropped, and its TTL only  *)
(* bounds how many leases it can outlive.  What is modelled is every point *)
(* at which another task can run: between creating the Notified future,    *)
(* looking at the buffer and awaiting, and between pushing an entry and    *)
(* notify_waiters.                                                         *)
(***************************************************************************)
EXTENDS Naturals, FiniteSets

CONSTANTS
  Pollers,   \* poll requests that may be open at a time
  Entries,   \* entries that arrive, each enqueued by one call
  Max,       \* the `max` of a poll
  MaxLapses  \* leases an entry can outlive: entry_ttl over lease

ASSUME LimitsAssumption == Max \in Nat \ {0} /\ MaxLapses \in Nat /\ IsFiniteSet(Entries)

VARIABLES
  pc,        \* where a poll is: idle, register, check, await
  waiters,   \* pollers whose Notified future exists
  woken,     \* pollers whose future has been notified
  due,       \* pollers whose deadline has passed
  status,    \* what became of an entry
  lapses,    \* how many leases of an entry have expired
  notifying  \* entries pushed whose enqueue has not notified yet

vars == <<pc, waiters, woken, due, status, lapses, notifying>>

Statuses == {"unborn", "fresh", "leased", "overdue", "returned", "acked", "dropped"}

TypeOK ==
  /\ pc \in [Pollers -> {"idle", "register", "check", "await"}]
  /\ waiters \subseteq Pollers
  /\ woken \subseteq waiters
  /\ due \subseteq Pollers
  /\ status \in [Entries -> Statuses]
  /\ lapses \in [Entries -> 0..MaxLapses + 1]
  /\ notifying \subseteq Entries

Init ==
  /\ pc = [p \in Pollers |-> "idle"]
  /\ waiters = {}
  /\ woken = {}
  /\ due = {}
  /\ status = [e \in Entries |-> "unborn"]
  /\ lapses = [e \in Entries |-> 0]
  /\ notifying = {}

In(s) == {e \in Entries : status[e] = s}
Goto(p, where) == pc' = [pc EXCEPT ![p] = where]

-----------------------------------------------------------------------------
(***************************************************************************)
(* enqueue: push under the mutex, then wake the waiters.                   *)
(***************************************************************************)
Push(e) ==
  /\ status[e] = "unborn"
  /\ status' = [status EXCEPT ![e] = "fresh"]
  /\ notifying' = notifying \cup {e}
  /\ UNCHANGED <<pc, waiters, woken, due, lapses>>

\* Mistake: one waiter is woken, which may be one that gives up.
NotifyOne(e) ==
  /\ e \in notifying
  /\ notifying' = notifying \ {e}
  /\ \/ \E p \in waiters : woken' = woken \cup {p}
     \/ waiters = {} /\ UNCHANGED woken
  /\ UNCHANGED <<pc, waiters, due, status, lapses>>

\* tokio's notify_waiters: every future that exists, and no permit is kept.
NotifyWaiters(e) ==
  /\ e \in notifying
  /\ notifying' = notifying \ {e}
  /\ woken' = woken \cup waiters
  /\ UNCHANGED <<pc, waiters, due, status, lapses>>

-----------------------------------------------------------------------------
(***************************************************************************)
(* poll_wait.  A definition after "Mistake:" is not part of the model.     *)
(***************************************************************************)

\* Mistake: the future is created after the check.
CheckFirst == <<"check", "register">>

\* The order of the two halves of a round.
Round == <<"register", "check">>

After(step) == IF step = Round[1] THEN Round[2] ELSE "await"

Arrive(p) ==
  /\ pc[p] = "idle"
  /\ Goto(p, Round[1])
  /\ due' = due \ {p}
  /\ UNCHANGED <<waiters, woken, status, notifying, lapses>>

\* A new future replaces that of the round before.
Register(p) ==
  /\ pc[p] = "register"
  /\ Goto(p, After("register"))
  /\ waiters' = waiters \cup {p}
  /\ woken' = woken \ {p}
  /\ UNCHANGED <<due, status, notifying, lapses>>

\* Mistake: expired leases are not reclaimed.
ReclaimsNone == [e \in Entries |-> status[e]]

\* take_at first returns the overdue entries to the buffer, unless the TTL
\* has run out meanwhile.
Requeue(e) == IF lapses[e] <= MaxLapses THEN "returned" ELSE "dropped"
Reclaimed ==
  [e \in Entries |-> IF status[e] = "overdue" THEN Requeue(e) ELSE status[e]]

\* take_at hands out up to Max waiting entries, returned ones first.
Batches(st) ==
  LET returned == {e \in Entries : st[e] = "returned"}
      waiting  == returned \cup {e \in Entries : st[e] = "fresh"}
      size     == IF Cardinality(waiting) < Max THEN Cardinality(waiting) ELSE Max
  IN  {B \in SUBSET waiting :
         Cardinality(B) = size /\ (B \subseteq returned \/ returned \subseteq B)}

\* A batch ends the poll and drops its future; an empty buffer awaits.
Check(p) ==
  /\ pc[p] = "check"
  /\ \E B \in Batches(Reclaimed) :
       /\ status' = [e \in Entries |-> IF e \in B THEN "leased" ELSE Reclaimed[e]]
       /\ IF B = {}
            THEN Goto(p, After("check")) /\ UNCHANGED <<waiters, woken>>
            ELSE /\ Goto(p, "idle")
                 /\ waiters' = waiters \ {p}
                 /\ woken' = woken \ {p}
  /\ UNCHANGED <<due, notifying, lapses>>

Wake(p) ==
  /\ pc[p] = "await"
  /\ p \in woken
  /\ Goto(p, Round[1])
  /\ waiters' = waiters \ {p}
  /\ woken' = woken \ {p}
  /\ UNCHANGED <<due, status, notifying, lapses>>

Leave(p) ==
  /\ pc[p] = "await"
  /\ Goto(p, "idle")
  /\ waiters' = waiters \ {p}
  /\ woken' = woken \ {p}
  /\ UNCHANGED <<due, status, notifying, lapses>>

\* Mistake: the deadline starts another round instead of answering.
TimeoutContinues(p) ==
  /\ p \in due
  /\ pc[p] = "await"
  /\ Goto(p, Round[1])
  /\ waiters' = waiters \ {p}
  /\ woken' = woken \ {p}
  /\ UNCHANGED <<due, status, notifying, lapses>>

\* select! may take this branch although the future is notified as well.
Timeout(p) == p \in due /\ Leave(p)

\* The client hangs up: the handler is dropped where it awaits.
Cancel(p) == Leave(p)

-----------------------------------------------------------------------------
(***************************************************************************)
(* Time and the other operations of the buffer.                            *)
(***************************************************************************)
DeadlinePasses(p) ==
  /\ pc[p] # "idle"
  /\ p \notin due
  /\ due' = due \cup {p}
  /\ UNCHANGED <<pc, waiters, woken, status, notifying, lapses>>

LeaseExpires(e) ==
  /\ status[e] = "leased"
  /\ status' = [status EXCEPT ![e] = "overdue"]
  /\ lapses' = [lapses EXCEPT ![e] = @ + 1]
  /\ UNCHANGED <<pc, waiters, woken, due, notifying>>

\* ack finds an entry in `leased`, expired or not.
Ack(e) ==
  /\ status[e] \in {"leased", "overdue"}
  /\ status' = [status EXCEPT ![e] = "acked"]
  /\ UNCHANGED <<pc, waiters, woken, due, notifying, lapses>>

Next ==
  \/ \E e \in Entries : Push(e) \/ NotifyWaiters(e) \/ LeaseExpires(e) \/ Ack(e)
  \/ \E p \in Pollers :
       \/ Arrive(p) \/ Register(p) \/ Check(p) \/ Wake(p)
       \/ Timeout(p) \/ Cancel(p) \/ DeadlinePasses(p)

(***************************************************************************)
(* The runtime keeps running tasks that can run, and a poll side polls     *)
(* again when a poll is answered.  No deadline is fair here: what follows  *)
(* from Responsive does not wait for a timeout.                            *)
(***************************************************************************)
Responsive ==
  /\ \A e \in Entries : WF_vars(NotifyWaiters(e))
  /\ \A p \in Pollers :
       WF_vars(Arrive(p)) /\ WF_vars(Register(p)) /\ WF_vars(Check(p)) /\ WF_vars(Wake(p))

\* Time passes: deadlines are reached and the runtime's timers fire.
Timed == \A p \in Pollers : WF_vars(DeadlinePasses(p)) /\ WF_vars(Timeout(p))

Spec == Init /\ [][Next]_vars /\ Responsive

-----------------------------------------------------------------------------
(***************************************************************************)
(* Properties.                                                             *)
(***************************************************************************)

(* No arrival is missed: while a poll awaits with a future nobody has      *)
(* notified, a never handed-out entry can be in the buffer only if the     *)
(* enqueue that pushed it is still about to notify.  An enqueue between    *)
(* the look at the buffer and the await would break it, had the future not *)
(* been created before (poll_wait).                                        *)
NoMissedArrival ==
  \A p \in Pollers :
    pc[p] = "await" /\ p \notin woken => In("fresh") \subseteq notifying

(* An arrival goes out even if no deadline ever passes: the wake-up alone  *)
(* gets it handed to one of the open polls, and what keeps coming back     *)
(* ahead of it cannot do so for ever (enqueue, poll_wait, take_at).        *)
ArrivalsGoOut == \A e \in Entries : status[e] = "fresh" ~> status[e] # "fresh"

(* Every poll is answered once timers fire, however often it is woken for  *)
(* entries that another poll takes away (the fixed deadline of poll_wait). *)
EveryPollAnswered == Timed => \A p \in Pollers : pc[p] # "idle" ~> pc[p] = "idle"

(* Nobody is woken when a lease expires or when a batch leaves returned    *)
(* entries behind; still such an entry goes out again, or is acknowledged  *)
(* late, or has outlived its TTL, because timers end the waiting polls and *)
(* they start anew (take_at).                                              *)
RedeliveryHappens ==
  Timed => \A e \in Entries :
    status[e] \in {"overdue", "returned"} ~> status[e] \in {"leased", "acked", "dropped"}
=============================================================================
