--------------------------- MODULE PollLoopProofs ---------------------------
(***************************************************************************)
(* Proofs about PollLoop, for any timeouts, any number of entries and any  *)
(* longest sleep.  The invariant is an account of time: what has passed    *)
(* since the last poll is at most what the phases before took, plus the    *)
(* time in this one; and a poll that nothing disturbed has been on its way *)
(* for at most MaxLag and held for at most Hold.                           *)
(***************************************************************************)
EXTENDS PollLoop, WellFoundedInduction, TLAPS

Phases == {"checking", "polling", "delivering", "acking", "sleeping"}

Typed ==
  /\ phase \in Phases
  /\ request \in {"out", "held", "back"}
  /\ elapsed \in Nat /\ backoff \in Nat /\ lag \in Nat /\ batch \in Nat
  /\ waiting \in Nat /\ arrived \in Nat /\ streak \in Nat /\ quiet \in Nat
  /\ up \in BOOLEAN /\ disturbed \in BOOLEAN

\* Every phase keeps to its limit, and takes over what the ones before it spent.
OnTime ==
  /\ backoff <= MaxBackoff
  /\ phase = "checking" => elapsed <= CheckTimeout /\ quiet <= elapsed
  /\ phase = "polling" => elapsed <= PollTimeout /\ quiet <= elapsed
  /\ phase = "delivering" => elapsed <= DeliverTime /\ quiet <= PollTimeout + elapsed
  /\ phase = "acking" => elapsed <= AckTimeout /\ quiet <= PollTimeout + DeliverTime + elapsed
  /\ phase = "sleeping" =>
       elapsed <= backoff /\ quiet <= PollTimeout + DeliverTime + AckTimeout + elapsed

\* The lag and the hold of a poll that nothing has disturbed.
Steady ==
  phase = "polling" /\ ~disturbed =>
    /\ up
    /\ lag <= MaxLag
    /\ lag <= elapsed
    /\ elapsed - lag <= Hold
    /\ request = "out" => elapsed = lag

Inv == Typed /\ OnTime /\ Steady

-----------------------------------------------------------------------------
LEMMA Times ==
  /\ Timeout \in Nat /\ MaxBatch \in Nat /\ HoldCap \in Nat /\ Slack \in Nat
  /\ CheckTimeout \in Nat /\ AckTimeout \in Nat /\ DeliverTime \in Nat /\ MaxLag \in Nat
  /\ BatchCap \in Nat \ {0} /\ FirstBackoff \in Nat \ {0} /\ MaxBackoff \in Nat \ {0}
  /\ FirstBackoff <= MaxBackoff /\ MaxLag < Slack
  /\ Hold \in Nat /\ Hold <= Timeout
  /\ PollTimeout = Timeout + Slack
  /\ BatchSize \in Nat \ {0}
BY TimesAssumption DEF Hold, PollTimeout, BatchSize, Least, Greatest

LEMMA InitInv == Init => Inv
<1> SUFFICES ASSUME Init PROVE Inv
  OBVIOUS
<1>1. Typed
  BY Times DEF Init, Typed, Phases
<1>2. OnTime
  BY Times DEF Init, OnTime
<1>3. Steady
  BY DEF Init, Steady
<1> QED
  BY <1>1, <1>2, <1>3 DEF Inv

\* A poll is sent: the account begins anew.
LEMMA SendInv ==
  ASSUME Inv, SendPoll, up' = up,
         backoff' \in Nat, backoff' <= MaxBackoff, streak' \in Nat,
         batch' \in Nat, waiting' \in Nat, arrived' \in Nat
  PROVE  Inv'
<1>1. Typed'
  BY DEF SendPoll, GoTo, Inv, Typed, Phases
<1>2. OnTime'
  BY Times DEF SendPoll, GoTo, OnTime
<1>3. Steady'
  <2>1. (~disturbed)' => up'
    BY DEF SendPoll, Inv, Typed
  <2>2. elapsed' = 0 /\ lag' = 0
    BY DEF SendPoll, GoTo
  <2> QED
    BY <2>1, <2>2, Times DEF Steady
<1> QED
  BY <1>1, <1>2, <1>3 DEF Inv

LEMMA SucceedInv ==
  ASSUME Inv, Succeed, up' = up, waiting' \in Nat, arrived' \in Nat
  PROVE  Inv'
<1>1. backoff' \in Nat /\ backoff' <= MaxBackoff /\ streak' = 0 /\ batch' = 0 /\ SendPoll
  BY Times DEF Succeed, BackoffAfterSuccess
<1> QED
  BY <1>1, SendInv

\* An error in time: the sleep takes over the account.
LEMMA ErrInv ==
  ASSUME Inv, Err, phase \in {"polling", "acking"}
  PROVE  Inv'
<1>1. quiet <= PollTimeout + DeliverTime + AckTimeout
  BY Times DEF Inv, Typed, OnTime
<1> QED
  BY <1>1, Times DEF Err, GoTo, poll, Inv, Typed, OnTime, Steady, Phases

\* The poll moves on without time passing.
LEMMA RequestInv ==
  ASSUME Inv, phase = "polling", request' \in {"held", "back"},
         UNCHANGED <<loop, lag, disturbed, quiet, arrived, up>>,
         HandOut \/ UNCHANGED <<batch, waiting>>
  PROVE  Inv'
<1>1. batch' \in Nat /\ waiting' \in Nat
  BY Times DEF HandOut, Least, Inv, Typed
<1> QED
  BY <1>1 DEF loop, Inv, Typed, OnTime, Steady, Phases

LEMMA TickInv ==
  ASSUME Inv, Tick
  PROVE  Inv'
<1>1. /\ elapsed' = elapsed + 1
      /\ lag' = IF Underway THEN lag + 1 ELSE lag
      /\ quiet' \in Nat /\ quiet' <= quiet + 1
      /\ UNCHANGED <<phase, backoff, streak, request, disturbed, batch, upstream, up>>
  BY Times DEF Tick, QuietCap, Round, Greatest, Inv, Typed
<1>2. Typed'
  BY <1>1 DEF Inv, Typed, upstream
<1>3. OnTime'
  <2>1. elapsed + 1 <= Limit[phase]
    BY Times DEF Tick, Limit, Inv, Typed, Phases
  <2> QED
    BY <1>1, <2>1, Times DEF Inv, Typed, OnTime, Limit
<1>4. Steady'
  <2> SUFFICES ASSUME phase = "polling", ~disturbed
               PROVE  /\ lag' <= MaxLag
                      /\ lag' <= elapsed'
                      /\ elapsed' - lag' <= Hold
                      /\ request = "out" => elapsed' = lag'
    BY <1>1 DEF Inv, Steady
  <2>1. /\ up /\ lag <= MaxLag /\ lag <= elapsed /\ elapsed - lag <= Hold
        /\ request = "out" => elapsed = lag
    BY DEF Inv, Steady
  <2>2. CASE Underway
    <3>1. lag < MaxLag
      BY <2>1, <2>2 DEF Tick
    <3> QED
      BY <1>1, <2>1, <2>2, <3>1, Times DEF Inv, Typed
  <2>3. CASE ~Underway
    <3>1. request = "held" /\ elapsed - lag < Hold
      BY <2>3 DEF Underway, Tick, HeldFor, Inv, Typed
    <3> QED
      BY <1>1, <2>1, <2>3, <3>1, Times DEF Inv, Typed
  <2> QED
    BY <2>2, <2>3
<1> QED
  BY <1>2, <1>3, <1>4 DEF Inv

LEMMA StepInv == Inv /\ [Next]_vars => Inv'
<1> SUFFICES ASSUME Inv, [Next]_vars PROVE Inv'
  OBVIOUS
<1> USE DEF upstream
<1>1. CASE Tick
  BY <1>1, TickInv
<1>2. CASE Checked
  BY <1>2, SendInv DEF Checked, Inv, Typed, OnTime
<1>3. CASE WakeUp
  <2>1. backoff' \in Nat /\ backoff' <= MaxBackoff /\ streak' \in Nat
    BY <1>3, Times DEF WakeUp, BackoffAfterError, Least, Inv, Typed
  <2> QED
    BY <1>3, <2>1, SendInv DEF WakeUp, Inv, Typed
<1>4. CASE PollArrives
  BY <1>4, RequestInv DEF PollArrives, HandOut
<1>5. CASE HoldEnds
  BY <1>5, RequestInv DEF HoldEnds, HandOut
<1>6. CASE AnswerEmpty
  BY <1>6, SucceedInv DEF AnswerEmpty, Inv, Typed
<1>7. CASE AnswerBatch
  BY <1>7, Times DEF AnswerBatch, GoTo, poll, Inv, Typed, OnTime, Steady, Phases
<1>8. CASE PollFails
  BY <1>8, ErrInv DEF PollFails
<1>9. CASE PollTimesOut
  BY <1>9, ErrInv DEF PollTimesOut
<1>10. CASE DeliveredNone
  BY <1>10, SucceedInv DEF DeliveredNone, Inv, Typed
<1>11. CASE DeliveredSome
  <2>1. batch' \in Nat /\ waiting' \in Nat
    BY <1>11 DEF DeliveredSome, Inv, Typed
  <2> QED
    BY <1>11, <2>1, Times DEF DeliveredSome, GoTo, poll, Inv, Typed, OnTime, Steady, Phases
<1>12. CASE Acknowledged
  BY <1>12, SucceedInv DEF Acknowledged, Inv, Typed
<1>13. CASE AckFails
  BY <1>13, ErrInv DEF AckFails
<1>14. CASE AckTimesOut
  BY <1>14, ErrInv DEF AckTimesOut
<1>15. CASE Arrive
  BY <1>15 DEF Arrive, loop, poll, Inv, Typed, OnTime, Steady
<1>16. CASE GoDown
  BY <1>16 DEF GoDown, loop, Inv, Typed, OnTime, Steady
<1>17. CASE ComeUp
  BY <1>17 DEF ComeUp, loop, poll, Inv, Typed, OnTime, Steady
<1>18. CASE UNCHANGED vars
  BY <1>18 DEF vars, loop, poll, Inv, Typed, OnTime, Steady
<1> QED
  BY <1>1, <1>2, <1>3, <1>4, <1>5, <1>6, <1>7, <1>8, <1>9, <1>10, <1>11, <1>12, <1>13, <1>14,
     <1>15, <1>16, <1>17, <1>18 DEF Next, Step

THEOREM Invariance == Spec => []Inv
<1>1. Init => Inv
  BY InitInv
<1>2. Inv /\ [Next]_vars => Inv'
  BY StepInv
<1> QED
  BY <1>1, <1>2, PTL DEF Spec

-----------------------------------------------------------------------------
(* Type correctness of the loop and of its account of time.                *)
THEOREM TypeCorrect == Spec => []TypeOK
<1>1. Inv => TypeOK
  BY DEF Inv, Typed, TypeOK, Limit, Phases
<1> QED
  BY <1>1, Invariance, PTL

(* The poll side never falls silent for longer than a round takes, whatever *)
(* fails in it (run and poll_once).                                         *)
THEOREM NeverSilent == Spec => []PolledPromptly
<1>1. Inv => PolledPromptly
  BY Times DEF Inv, Typed, OnTime, Phases, PolledPromptly, Round, Greatest
<1> QED
  BY <1>1, Invariance, PTL

(* The poll side does not back off from an upstream that is idle: the hold *)
(* of queue_poll ends within the timeout of poll_once as long as the       *)
(* network keeps within the slack.                                         *)
THEOREM IdleUpstreamIsPolledOn == Spec => IdleIsNoError
<1>1. Inv /\ [Next]_vars => [phase = "polling" /\ phase' = "sleeping" => disturbed]_vars
  <2> SUFFICES ASSUME Inv, Next, phase = "polling", phase' = "sleeping", ~disturbed
               PROVE  FALSE
    OBVIOUS
  <2>1. elapsed < PollTimeout
    BY Times DEF Inv, Typed, Steady
  <2>2. ~PollTimesOut
    BY <2>1, Times DEF PollTimesOut, Inv, Typed
  <2> QED
    BY <2>2 DEF Next, Step, Tick, Checked, WakeUp, PollArrives, HoldEnds, AnswerEmpty,
         AnswerBatch, PollFails, DeliveredNone, DeliveredSome, Acknowledged, AckFails,
         AckTimesOut, Arrive, GoDown, ComeUp, Succeed, SendPoll, GoTo, loop
<1> QED
  BY <1>1, Invariance, PTL DEF Spec, IdleIsNoError

-----------------------------------------------------------------------------
(***************************************************************************)
(* The backoff.  That the recursive function Power exists at all, and what *)
(* it is, is shown from its finite beginnings; a least counterexample      *)
(* stands in for induction.                                                *)
(***************************************************************************)
LEMMA LeastNat ==
  ASSUME NEW S \in SUBSET Nat, S # {}
  PROVE  \E m \in S : \A k \in S : m <= k
<1>1. PICK m \in S : \A k \in S : ~ (<<k, m>> \in OpToRel(<, Nat))
  BY NatLessThanWellFounded, WFMin
<1>2. \A k \in S : ~ (k < m)
  BY <1>1 DEF OpToRel
<1> QED
  BY <1>2

\* The first powers, as a function that is surely there.
Powers(g, n) ==
  /\ g \in [0..n -> Nat]
  /\ g[0] = 1
  /\ \A i \in 1..n : g[i] = 2 * g[i - 1]

\* Two beginnings agree as far as both go.
LEMMA PowersUnique ==
  ASSUME NEW m \in Nat, NEW n \in Nat, NEW g, NEW h, Powers(g, m), Powers(h, n)
  PROVE  \A i \in Nat : i <= m /\ i <= n => g[i] = h[i]
<1> DEFINE Bad == {i \in Nat : i <= m /\ i <= n /\ g[i] # h[i]}
<1> SUFFICES ASSUME Bad # {} PROVE FALSE
  OBVIOUS
<1>1. PICK i \in Bad : \A k \in Bad : i <= k
  <2> HIDE DEF Bad
  <2>1. Bad \subseteq Nat
    BY DEF Bad
  <2> QED
    BY <2>1, LeastNat
<1>2. i # 0
  BY <1>1 DEF Powers
<1>3. i - 1 \in Nat /\ i - 1 \notin Bad
  BY <1>1, <1>2
<1>4. g[i - 1] = h[i - 1]
  BY <1>3
<1>5. i \in 1..m /\ i \in 1..n
  BY <1>2
<1>6. g[i] = 2 * g[i - 1] /\ h[i] = 2 * h[i - 1]
  BY <1>5 DEF Powers
<1> QED
  BY <1>4, <1>6

LEMMA PowersExist ==
  ASSUME NEW n \in Nat
  PROVE  \E g : Powers(g, n)
<1> DEFINE Bad == {i \in Nat : ~ \E g : Powers(g, i)}
<1> SUFFICES ASSUME Bad # {} PROVE FALSE
  OBVIOUS
<1>1. PICK i \in Bad : \A k \in Bad : i <= k
  <2> HIDE DEF Bad
  <2>1. Bad \subseteq Nat
    BY DEF Bad
  <2> QED
    BY <2>1, LeastNat
<1>2. i # 0
  <2>1. Powers([j \in 0..0 |-> 1], 0)
    BY DEF Powers
  <2> QED
    BY <2>1, <1>1
<1>3. i - 1 \in Nat /\ i - 1 \notin Bad
  BY <1>1, <1>2
<1>4. PICK g : Powers(g, i - 1)
  BY <1>3
<1> DEFINE h == [j \in 0..i |-> IF j = i THEN 2 * g[i - 1] ELSE g[j]]
<1>5. h \in [0..i -> Nat]
  <2>1. g[i - 1] \in Nat
    BY <1>3, <1>4 DEF Powers
  <2>2. \A j \in 0..i : j # i => g[j] \in Nat
    BY <1>3, <1>4 DEF Powers
  <2>3. 2 * g[i - 1] \in Nat
    BY <2>1
  <2> QED
    BY <2>2, <2>3
<1>6. h[0] = 1
  BY <1>2, <1>4 DEF Powers
<1>7. ASSUME NEW j \in 1..i PROVE h[j] = 2 * h[j - 1]
  <2>1. h[j - 1] = g[j - 1]
    BY <1>7
  <2>2. CASE j = i
    BY <2>1, <2>2
  <2>3. CASE j # i
    <3>1. j \in 1..(i - 1)
      BY <2>3
    <3>2. h[j] = g[j] /\ g[j] = 2 * g[j - 1]
      BY <2>3, <3>1, <1>4 DEF Powers
    <3> QED
      BY <2>1, <3>2
  <2> QED
    BY <2>2, <2>3
<1>8. Powers(h, i)
  <2> HIDE DEF h
  <2> QED
    BY <1>5, <1>6, <1>7 DEF Powers
<1> QED
  BY <1>1, <1>8

LEMMA PowerUnfolds ==
  /\ Power[0] = 1
  /\ \A n \in Nat : Power[n] \in Nat /\ Power[n + 1] = 2 * Power[n]
<1> DEFINE first(n) == CHOOSE g : Powers(g, n)
           F == [n \in Nat |-> first(n)[n]]
<1>1. \A n \in Nat : Powers(first(n), n)
  BY PowersExist
<1> HIDE DEF first
<1>2. F[0] = 1
  BY <1>1 DEF Powers
<1>3. ASSUME NEW n \in Nat PROVE F[n] \in Nat /\ F[n + 1] = 2 * F[n]
  <2>1. Powers(first(n), n) /\ Powers(first(n + 1), n + 1)
    BY <1>1
  <2>2. first(n + 1)[n] = first(n)[n]
    BY <2>1, PowersUnique
  <2>3. first(n + 1)[n + 1] = 2 * first(n + 1)[n]
    BY <2>1 DEF Powers
  <2>4. first(n)[n] \in Nat
    BY <2>1 DEF Powers
  <2> QED
    BY <2>2, <2>3, <2>4
<1>4. \A n \in Nat : F[n] = IF n = 0 THEN 1 ELSE 2 * F[n - 1]
  <2> SUFFICES ASSUME NEW n \in Nat, n # 0 PROVE F[n] = 2 * F[n - 1]
    BY <1>2
  <2>1. n - 1 \in Nat /\ (n - 1) + 1 = n
    OBVIOUS
  <2> QED
    BY <2>1, <1>3
<1>5. F = [n \in Nat |-> IF n = 0 THEN 1 ELSE 2 * F[n - 1]]
  <2>1. F = [n \in Nat |-> F[n]]
    OBVIOUS
  <2> HIDE DEF F
  <2> QED
    BY <1>4, <2>1
<1> HIDE DEF F
<1>6. Power = [n \in Nat |-> IF n = 0 THEN 1 ELSE 2 * Power[n - 1]]
  BY <1>5 DEF Power
<1>7. Power[0] = 1 /\ \A n \in Nat : Power[n + 1] = 2 * Power[n]
  BY <1>6
<1> DEFINE Bad == {n \in Nat : Power[n] \notin Nat}
<1>8. Bad = {}
  <2> SUFFICES ASSUME Bad # {} PROVE FALSE
    OBVIOUS
  <2>1. PICK i \in Bad : \A k \in Bad : i <= k
    <3> HIDE DEF Bad
    <3>1. Bad \subseteq Nat
      BY DEF Bad
    <3> QED
      BY <3>1, LeastNat
  <2>2. i # 0
    BY <1>7
  <2>3. i - 1 \in Nat /\ i - 1 \notin Bad /\ (i - 1) + 1 = i
    BY <2>1, <2>2
  <2>4. Power[i - 1] \in Nat
    BY <2>3
  <2>5. Power[i] = 2 * Power[i - 1]
    BY <1>7, <2>3
  <2> QED
    BY <2>4, <2>5
<1> QED
  BY <1>7, <1>8

-----------------------------------------------------------------------------
\* What WakeUp does to a backoff of twice as often as it has doubled.
LEMMA Doubling ==
  ASSUME NEW f \in Nat, NEW n \in Nat, NEW m \in Nat
  PROVE  Least(2 * Least(f * Power[n], m), m) = Least(f * Power[n + 1], m)
<1>1. PICK p \in Nat : p = Power[n] /\ Power[n + 1] = 2 * p
  BY PowerUnfolds
<1>2. PICK x \in Nat : x = f * p
  OBVIOUS
<1>3. f * (2 * p) = 2 * x
  BY <1>2
<1>4. Least(2 * Least(x, m), m) = Least(2 * x, m)
  BY DEF Least
<1> QED
  BY <1>1, <1>2, <1>3, <1>4

\* Beyond the last error that is counted the sleep is the longest one.
Backed == streak \in 0..MaxStreak /\ BackoffDoubles

LEMMA BackedInit == Init => Backed
<1>1. FirstBackoff * 1 = FirstBackoff
  BY Times
<1> QED
  BY <1>1, PowerUnfolds, Times, BoundsAssumption DEF Init, Backed, BackoffDoubles, Least

LEMMA BackedStep == Backed /\ [Next]_vars => Backed'
<1> SUFFICES ASSUME Backed, [Next]_vars PROVE Backed'
  OBVIOUS
<1>1. CASE WakeUp
  <2>1. backoff = Least(FirstBackoff * Power[streak], MaxBackoff) /\ streak \in 0..MaxStreak
    BY DEF Backed, BackoffDoubles
  <2>2. backoff' = Least(FirstBackoff * Power[streak + 1], MaxBackoff)
    BY <1>1, <2>1, Doubling, Times, BoundsAssumption DEF WakeUp, BackoffAfterError
  <2>3. CASE streak < MaxStreak
    <3>1. streak' = streak + 1 /\ streak' \in 0..MaxStreak
      BY <1>1, <2>1, <2>3, BoundsAssumption DEF WakeUp
    <3> QED
      BY <2>2, <3>1 DEF Backed, BackoffDoubles
  <2>4. CASE streak = MaxStreak
    <3>1. streak' = streak
      BY <1>1, <2>4, BoundsAssumption DEF WakeUp
    <3>2. PICK x \in Nat : x = FirstBackoff * Power[MaxStreak] /\ x >= MaxBackoff
      BY PowerUnfolds, Times, BoundsAssumption
    <3>3. backoff = MaxBackoff
      BY <2>1, <2>4, <3>2, Times DEF Least
    <3>4. backoff' = MaxBackoff
      BY <1>1, <3>3, Times DEF WakeUp, BackoffAfterError, Least
    <3> QED
      BY <2>1, <3>1, <3>3, <3>4 DEF Backed, BackoffDoubles
  <2> QED
    BY <2>1, <2>3, <2>4, BoundsAssumption
<1>2. CASE Succeed
  <2>1. backoff' = FirstBackoff /\ streak' = 0
    BY <1>2 DEF Succeed, BackoffAfterSuccess
  <2>2. FirstBackoff * 1 = FirstBackoff
    BY Times
  <2> QED
    BY <2>1, <2>2, PowerUnfolds, Times, BoundsAssumption DEF Backed, BackoffDoubles, Least
<1>3. WakeUp \/ Succeed \/ UNCHANGED <<backoff, streak>>
  BY DEF Next, Step, vars, loop, Tick, Checked, PollArrives, HoldEnds, AnswerEmpty, AnswerBatch,
         PollFails, PollTimesOut, DeliveredNone, DeliveredSome, Acknowledged, AckFails,
         AckTimesOut, Arrive, GoDown, ComeUp, Err
<1> QED
  BY <1>1, <1>2, <1>3 DEF Backed, BackoffDoubles

(* The sleep after an error is the first one doubled once for each error   *)
(* in a row, up to the longest, whatever the two are; any success starts   *)
(* it anew (run).                                                          *)
THEOREM BackoffIsExponential == Spec => []BackoffDoubles
<1>1. Backed => BackoffDoubles
  BY DEF Backed
<1> QED
  BY <1>1, BackedInit, BackedStep, PTL DEF Spec
=============================================================================
