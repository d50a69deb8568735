--------------------------- MODULE GatewayProofs ---------------------------
(***************************************************************************)
(* Proofs about Gateway, for any devices, listings and numbers of attempts *)
(* and mishaps: the answer of notify tells the homeserver the truth.  The  *)
(* invariant says what each place of deliver_one knows of its device.      *)
(***************************************************************************)
EXTENDS Gateway, FiniteSetTheorems, TLAPS

\* What may be reported as fine, and what may be reported as dead.
Settled(d) == pushes[d] > 0 \/ d \in skipped \/ (d \in Unknown /\ ~RejectUnknown)
Dead(d) == d \in invalid \/ (d \in Unknown /\ RejectUnknown)

Known(where, d) ==
  /\ where = "Rejected" => d \in invalid
  /\ where = "Reject" => Dead(d)
  /\ where = "Delivered" => pushes[d] > 0
  /\ where = "Skipped" => d \in skipped
  /\ where = "Fine" => Settled(d)
  /\ where \in {"sending"} \cup Outcomes => d \notin Unknown

Inv ==
  /\ TypeOK
  /\ \A a \in Attempts, i \in Positions : Known(stage[a][i], listing[i])
  /\ \A d \in recorded : pushes[d] > 0
  /\ OnlyDeadRejected
  /\ SuccessIsComplete

-----------------------------------------------------------------------------
LEMMA ListingType ==
  ASSUME listing \in Listings
  PROVE  /\ listing \in Seq(Devices)
         /\ \A i \in Positions : listing[i] \in Devices
         /\ \A d \in Range(listing) : \E i \in Positions : listing[i] = d
BY DevicesAssumption DEF Positions, Range

LEMMA CapPositive ==
  ASSUME listing \in Listings, NEW d
  PROVE  Cap(d) \in Nat /\ Cap(d) > 0
<1>1. IsFiniteSet(Positions)
  BY ListingType, FS_Interval DEF Positions
<1>2. Listed(d) \in Nat
  BY <1>1, FS_Subset, FS_CardinalityType DEF Listed
<1>3. 1 + MaxMishaps + MaxGiveUps \in Nat
  BY BoundsAssumption
<1>4. \A m, n \in Nat : m * n + 1 \in Nat /\ m * n + 1 > 0
  OBVIOUS
<1> QED
  BY <1>2, <1>3, <1>4 DEF Cap

\* A push counts, and never makes another push undone.
LEMMA CountedPositive ==
  ASSUME TypeOK, NEW d \in Devices
  PROVE  /\ Counted(d) \in [Devices -> Nat]
         /\ Counted(d)[d] > 0
         /\ \A e \in Devices : Counted(d)[e] <= Cap(e)
         /\ \A e \in Devices : pushes[e] > 0 => Counted(d)[e] > 0
BY CapPositive DEF Counted, TypeOK

LEMMA InitInv == Init => Inv
<1> SUFFICES ASSUME Init PROVE Inv
  OBVIOUS
<1>1. TypeOK
  <2>1. stage \in [Attempts -> [Positions -> Stages]]
    BY DEF Init, Fresh, Stages
  <2>2. \A d \in Devices : pushes[d] \in Nat /\ pushes[d] <= Cap(d)
    BY CapPositive DEF Init
  <2>3. pushes \in [Devices -> Nat] /\ mishaps \in [Devices -> Nat] /\ giveUps \in 0..MaxGiveUps
    BY BoundsAssumption DEF Init
  <2>4. attempt \in [Attempts -> {"idle", "awaited", "abandoned"}]
    BY DEF Init
  <2> QED
    BY <2>1, <2>2, <2>3, <2>4, Zenon DEF Init, TypeOK
<1>2. \A a \in Attempts, i \in Positions : Known(stage[a][i], listing[i])
  BY DEF Init, Fresh, Known, Outcomes
<1> QED
  BY <1>1, <1>2 DEF Init, Inv, OnlyDeadRejected, SuccessIsComplete

-----------------------------------------------------------------------------
(***************************************************************************)
(* Steps that move one device on, and leave everything else alone but the  *)
(* records of what has happened to it, which only grow.                    *)
(***************************************************************************)
Grows ==
  /\ UNCHANGED <<listing, answered, rejected, attempt>>
  /\ invalid \subseteq invalid'
  /\ skipped \subseteq skipped'
  /\ \A d \in Devices : pushes[d] > 0 => pushes'[d] > 0

LEMMA KnownStays ==
  ASSUME Grows, NEW where, NEW d \in Devices, Known(where, d)
  PROVE  Known(where, d)'
BY DEF Grows, Known, Settled, Dead

LEMMA MoveInv ==
  ASSUME Inv, TypeOK', Grows, NEW a \in Attempts, NEW i \in Positions, NEW where,
         Goto(a, i, where), Known(where, listing[i])',
         \A d \in recorded' : pushes'[d] > 0
  PROVE  Inv'
<1>1. listing[i] \in Devices /\ listing \in Listings /\ listing' = listing
  BY ListingType DEF Inv, TypeOK, Grows
<1>2. \A b \in Attempts, j \in Positions : Known(stage[b][j], listing[j])'
  <2> SUFFICES ASSUME NEW b \in Attempts, NEW j \in Positions
               PROVE  Known(stage[b][j], listing[j])'
    OBVIOUS
  <2>1. stage \in [Attempts -> [Positions -> Stages]]
    BY DEF Inv, TypeOK
  <2>2. CASE a = b /\ i = j
    <3>1. stage'[b][j] = where
      BY <2>1, <2>2 DEF Goto
    <3> QED
      BY <2>2, <3>1 DEF Known, Settled, Dead
  <2>3. CASE ~(a = b /\ i = j)
    <3>1. stage'[b][j] = stage[b][j]
      BY <2>1, <2>3 DEF Goto
    <3>2. Known(stage[b][j], listing[j]) /\ listing[j] \in Devices
      BY <1>1, ListingType DEF Inv
    <3> QED
      BY <1>1, <3>1, <3>2, KnownStays DEF Known, Settled, Dead, Grows
  <2> QED
    BY <2>2, <2>3
<1>3. OnlyDeadRejected'
  BY DEF Inv, Grows, OnlyDeadRejected
<1>4. SuccessIsComplete'
  BY ListingType DEF Inv, TypeOK, Grows, SuccessIsComplete
<1>5. Positions' = Positions
  BY <1>1 DEF Positions
<1> QED
  BY <1>2, <1>3, <1>4, <1>5 DEF Inv

LEMMA GotoType ==
  ASSUME TypeOK, NEW a \in Attempts, NEW i \in Positions, NEW where \in Stages,
         Goto(a, i, where), listing' = listing
  PROVE  (stage \in [Attempts -> [Positions -> Stages]])'
BY DEF TypeOK, Goto, Positions

LEMMA BeginInv ==
  ASSUME Inv, NEW a \in Attempts, NEW i \in Positions, Begin(a, i)
  PROVE  Inv'
<1> DEFINE d == listing[i]
           where == CASE d \in Unknown -> IF RejectUnknown THEN "Reject" ELSE "Fine"
                      [] d \notin Unknown /\ Suppressed(d) -> "Fine"
                      [] OTHER -> "sending"
<1>1. Goto(a, i, where) /\ UNCHANGED <<environment, recorded, pushes, skipped, mishaps>>
  BY DEF Begin
<1>2. where \in Stages
  BY DEF Stages, Dispositions
<1>3. TypeOK'
  BY <1>1, <1>2, GotoType DEF Inv, TypeOK, environment, Positions, Cap, Listed
<1>4. Known(where, d)
  BY FlagsAssumption DEF Known, Settled, Dead, Outcomes, Suppressed, Inv
<1> HIDE DEF where
<1>5. PICK w : w = where
  OBVIOUS
<1>6. Known(w, d)' /\ Grows
  BY <1>1, <1>4, <1>5 DEF Known, Settled, Dead, Grows, environment
<1>7. \A e \in recorded' : pushes'[e] > 0
  BY <1>1 DEF Inv
<1> QED
  BY <1>1, <1>3, <1>5, <1>6, <1>7, MoveInv

LEMMA ResumeInv ==
  ASSUME Inv, NEW a \in Attempts, NEW i \in Positions, Resume(a, i)
  PROVE  Inv'
<1> DEFINE d == listing[i]
           outcome == stage[a][i]
           where == DispositionOf(outcome)
<1>1. /\ outcome \in Outcomes
      /\ recorded' = RecordedAfter(outcome, d)
      /\ Goto(a, i, where)
      /\ UNCHANGED <<environment, pushes, skipped, mishaps>>
  BY DEF Resume
<1>2. Known(outcome, d) /\ d \in Devices
  BY ListingType DEF Inv, TypeOK
<1>3. where \in Stages /\ Known(where, d)
  BY <1>1, <1>2 DEF DispositionOf, Outcomes, Known, Settled, Dead, Stages, Dispositions
<1>4. recorded' \subseteq Devices \ Unknown /\ \A e \in recorded' : pushes[e] > 0
  BY <1>1, <1>2 DEF RecordedAfter, Known, Inv, TypeOK
<1> HIDE DEF where
<1>5. TypeOK'
  BY <1>1, <1>3, <1>4, GotoType DEF Inv, TypeOK, environment, Positions, Cap, Listed
<1>6. PICK w : w = where
  OBVIOUS
<1>7. Known(w, d)' /\ Grows
  BY <1>1, <1>3, <1>6 DEF Known, Settled, Dead, environment, Grows
<1>8. \A e \in recorded' : pushes'[e] > 0
  BY <1>1, <1>4
<1> QED
  BY <1>1, <1>5, <1>6, <1>7, <1>8, MoveInv

LEMMA PushInv ==
  ASSUME Inv, NEW a \in Attempts, NEW i \in Positions, Accept(a, i) \/ AcceptUnheard(a, i)
  PROVE  Inv'
<1> DEFINE d == listing[i]
           where == IF Accept(a, i) THEN "Delivered" ELSE "Failed"
<1>1. /\ stage[a][i] = "sending"
      /\ pushes' = Counted(d)
      /\ Goto(a, i, where)
      /\ UNCHANGED <<environment, recorded, skipped>>
      /\ mishaps' = mishaps \/ mishaps' = [mishaps EXCEPT ![d] = @ + 1]
  BY DEF Accept, AcceptUnheard, At
<1>2. d \in Devices /\ Known("sending", d)
  BY <1>1, ListingType DEF Inv, TypeOK
<1>3. where \in Stages /\ where \in {"Delivered", "Failed"}
  BY DEF Stages, Outcomes
<1> HIDE DEF where
<1>4. /\ pushes' \in [Devices -> Nat] /\ pushes'[d] > 0
      /\ \A e \in Devices : pushes'[e] <= Cap(e)
      /\ \A e \in Devices : pushes[e] > 0 => pushes'[e] > 0
  BY <1>1, <1>2, CountedPositive DEF Inv
<1>5. mishaps' \in [Devices -> Nat]
  BY <1>1 DEF Inv, TypeOK
<1>6. (\A e \in Devices : pushes[e] <= Cap(e))'
  BY <1>1, <1>4 DEF Cap, Listed, Positions, environment
<1>7. TypeOK'
  BY <1>1, <1>3, <1>4, <1>5, <1>6, GotoType DEF Inv, TypeOK, environment, Positions
<1>8. PICK w : w = where
  OBVIOUS
<1>9. Known(w, d)' /\ Grows
  BY <1>1, <1>2, <1>3, <1>4, <1>8 DEF Known, Settled, Dead, environment, Outcomes, Grows
<1>10. \A e \in recorded' : pushes'[e] > 0
  BY <1>1, <1>4 DEF Inv, TypeOK
<1> QED
  BY <1>1, <1>7, <1>8, <1>9, <1>10, MoveInv

LEMMA AnswerInv ==
  ASSUME Inv, NEW a \in Attempts, NEW i \in Positions,
         Reject(a, i) \/ Skip(a, i) \/ Fail(a, i)
  PROVE  Inv'
<1> DEFINE d == listing[i]
<1>1. PICK where \in Outcomes :
        /\ Goto(a, i, where)
        /\ where # "Delivered"
        /\ where = "Rejected" => d \in invalid
        /\ where = "Skipped" => d \in skipped'
  BY DEF Reject, Skip, Fail, Outcomes
<1>2. /\ stage[a][i] = "sending"
      /\ skipped' \in {skipped, skipped \cup {d}}
      /\ UNCHANGED <<environment, recorded, pushes, mishaps>>
  BY DEF Reject, Skip, Fail, At
<1>3. d \in Devices /\ Known("sending", d)
  BY <1>2, ListingType DEF Inv, TypeOK
<1>4. TypeOK'
  BY <1>1, <1>2, <1>3, GotoType DEF Inv, TypeOK, environment, Positions, Cap, Listed, Stages
<1>5. Known(where, d)' /\ Grows
  BY <1>1, <1>2, <1>3 DEF Known, Settled, Dead, environment, Outcomes, Grows
<1> QED
  BY <1>1, <1>2, <1>4, <1>5, MoveInv DEF Inv, environment

-----------------------------------------------------------------------------
(***************************************************************************)
(* Steps of an attempt as a whole.                                         *)
(***************************************************************************)
LEMMA FreshKnows ==
  ASSUME TypeOK, NEW a \in Attempts, NEW b \in Attempts, NEW i \in Positions,
         stage' = [stage EXCEPT ![a] = Fresh]
  PROVE  /\ stage' \in [Attempts -> [Positions -> Stages]]
         /\ stage'[b][i] \in {stage[b][i], "start"}
BY DEF TypeOK, Fresh, Stages

LEMMA AttemptInv ==
  ASSUME Inv, NEW a \in Attempts, Notify(a) \/ GiveUp(a) \/ Cancel(a)
  PROVE  Inv'
<1>1. /\ UNCHANGED <<listing, answered, rejected, recorded, invalid, pushes, skipped, mishaps>>
      /\ stage' = stage \/ stage' = [stage EXCEPT ![a] = Fresh]
      /\ attempt' \in [Attempts -> {"idle", "awaited", "abandoned"}]
      /\ giveUps' \in 0..MaxGiveUps
  BY BoundsAssumption, SMTT(30) DEF Notify, GiveUp, Cancel, Inv, TypeOK
<1>2. stage' \in [Attempts -> [Positions -> Stages]]
  BY <1>1 DEF Inv, TypeOK, Fresh, Stages
<1>3. TypeOK'
  BY <1>1, <1>2 DEF Inv, TypeOK, Positions, Cap, Listed
<1>4. \A b \in Attempts, i \in Positions : Known(stage[b][i], listing[i])'
  BY <1>1, FreshKnows DEF Inv, Known, Settled, Dead, Outcomes
<1> QED
  BY <1>1, <1>3, <1>4 DEF Inv, OnlyDeadRejected, SuccessIsComplete, Positions

LEMMA RespondInv ==
  ASSUME Inv, NEW a \in Attempts, Respond(a)
  PROVE  Inv'
<1>1. /\ UNCHANGED <<listing, recorded, invalid, pushes, skipped, mishaps, giveUps>>
      /\ stage' = [stage EXCEPT ![a] = Fresh]
      /\ attempt' = [attempt EXCEPT ![a] = "idle"]
      /\ \A i \in Positions : stage[a][i] \in Dispositions
      /\ \/ answered' = TRUE /\ rejected' = {listing[i] : i \in Disposed(a, "Reject")}
            /\ ~BadGateway(a)
         \/ UNCHANGED <<answered, rejected>>
  BY DEF Respond
<1>2. stage' \in [Attempts -> [Positions -> Stages]]
  BY <1>1 DEF Inv, TypeOK, Fresh, Stages
<1>3. \A d \in rejected' : d \in Devices /\ (d \in rejected \/ Dead(d))
  <2>1. CASE UNCHANGED <<answered, rejected>>
    BY <2>1 DEF Inv, TypeOK
  <2>2. CASE rejected' = {listing[i] : i \in Disposed(a, "Reject")}
    <3> SUFFICES ASSUME NEW i \in Positions, stage[a][i] = "Reject"
                 PROVE  listing[i] \in Devices /\ Dead(listing[i])
      BY <2>2 DEF Disposed
    <3>1. Known("Reject", listing[i])
      BY DEF Inv
    <3> QED
      BY <3>1, ListingType DEF Inv, TypeOK, Known
  <2> QED
    BY <1>1, <2>1, <2>2
<1>4. answered' \in BOOLEAN
  BY <1>1 DEF Inv, TypeOK
<1>5. attempt' \in [Attempts -> {"idle", "awaited", "abandoned"}]
  BY <1>1 DEF Inv, TypeOK
<1>6. TypeOK'
  BY <1>1, <1>2, <1>3, <1>4, <1>5 DEF Inv, TypeOK, Positions, Cap, Listed
<1>7. \A b \in Attempts, i \in Positions : Known(stage[b][i], listing[i])'
  <2> SUFFICES ASSUME NEW b \in Attempts, NEW i \in Positions
               PROVE  Known(stage[b][i], listing[i])'
    OBVIOUS
  <2>1. stage'[b][i] \in {stage[b][i], "start"} /\ Known(stage[b][i], listing[i])
    BY <1>1, FreshKnows DEF Inv
  <2> QED
    BY <1>1, <2>1 DEF Known, Settled, Dead, Outcomes
<1>8. OnlyDeadRejected'
  BY <1>1, <1>3 DEF Inv, OnlyDeadRejected, Dead
<1>9. SuccessIsComplete'
  <2>1. CASE UNCHANGED <<answered, rejected>>
    BY <1>1, <2>1 DEF Inv, SuccessIsComplete
  <2>2. CASE rejected' = {listing[i] : i \in Disposed(a, "Reject")} /\ ~BadGateway(a)
    <3> SUFFICES ASSUME NEW d \in Range(listing)
                 PROVE  d \in rejected' \/ Settled(d)
      BY <1>1 DEF SuccessIsComplete, Settled
    <3>1. PICK i \in Positions : listing[i] = d
      BY ListingType DEF Inv, TypeOK
    <3>2. stage[a][i] \in {"Fine", "Reject"}
      BY <1>1, <2>2, <3>1 DEF Dispositions, BadGateway, Disposed
    <3>3. Known(stage[a][i], d)
      BY <3>1 DEF Inv
    <3> QED
      BY <2>2, <3>1, <3>2, <3>3 DEF Known, Disposed
  <2> QED
    BY <1>1, <2>1, <2>2
<1> QED
  BY <1>1, <1>6, <1>7, <1>8, <1>9 DEF Inv, Positions

-----------------------------------------------------------------------------
LEMMA EnvironmentInv ==
  ASSUME Inv, NEW d \in Devices, Invalidate(d) \/ Forget(d)
  PROVE  Inv'
<1>1. /\ UNCHANGED <<listing, answered, rejected, attempt, stage, pushes, skipped, giveUps>>
      /\ recorded' \subseteq recorded
      /\ invalid \subseteq invalid' /\ invalid' \subseteq Devices
      /\ mishaps' \in [Devices -> Nat]
  BY DEF Invalidate, Forget, environment, Inv, TypeOK
<1>2. TypeOK'
  BY <1>1 DEF Inv, TypeOK, Positions, Cap, Listed
<1>3. \A b \in Attempts, i \in Positions : Known(stage[b][i], listing[i])'
  BY <1>1 DEF Inv, Known, Settled, Dead
<1> QED
  BY <1>1, <1>2, <1>3 DEF Inv, OnlyDeadRejected, SuccessIsComplete, Positions

LEMMA StepInv == Inv /\ [Next]_vars => Inv'
<1> SUFFICES ASSUME Inv, [Next]_vars PROVE Inv'
  OBVIOUS
<1>1. CASE UNCHANGED vars
  <2>1. TypeOK'
    BY <1>1 DEF vars, Inv, TypeOK, Positions, Cap, Listed
  <2>2. \A b \in Attempts, i \in Positions : Known(stage[b][i], listing[i])'
    BY <1>1 DEF vars, Inv, Known, Settled, Dead
  <2> QED
    BY <1>1, <2>1, <2>2 DEF vars, Inv, OnlyDeadRejected, SuccessIsComplete, Positions
<1> QED
  BY <1>1, AttemptInv, RespondInv, BeginInv, ResumeInv, PushInv, AnswerInv, EnvironmentInv DEF Next

THEOREM Invariance == Spec => []Inv
<1>1. Init => Inv
  BY InitInv
<1>2. Inv /\ [Next]_vars => Inv'
  BY StepInv
<1> QED
  BY <1>1, <1>2, PTL DEF Spec

-----------------------------------------------------------------------------
(* Type correctness; nothing is recorded for an app without a provider.    *)
THEOREM TypeCorrect == Spec => []TypeOK
<1>1. Inv => TypeOK
  BY DEF Inv
<1> QED
  BY <1>1, Invariance, PTL

(* The rejected list names dead pushkeys only, and unknown apps only if so *)
(* configured, whatever fails and however attempts overlap (notify,        *)
(* deliver_one).                                                           *)
THEOREM RejectedAreDead == Spec => []OnlyDeadRejected
<1>1. Inv => OnlyDeadRejected
  BY DEF Inv
<1> QED
  BY <1>1, Invariance, PTL

(* A 200 settles the notification for every device that is listed (notify, *)
(* deliver_one).                                                           *)
THEOREM SuccessSettlesAll == Spec => []SuccessIsComplete
<1>1. Inv => SuccessIsComplete
  BY DEF Inv
<1> QED
  BY <1>1, Invariance, PTL

-----------------------------------------------------------------------------
(***************************************************************************)
(* Repeated pushes.  The invariant is an account, kept per device: what    *)
(* has been pushed and what may still be pushed without another mishap or  *)
(* abandoned attempt.  An abandoned attempt may still push where it has    *)
(* not come to the end (Loose).  The awaited attempt, and those after it,  *)
(* may push at every position of the device (Open), until one push there   *)
(* has been recorded, or is about to be.                                   *)
(***************************************************************************)
Spots(d) == {i \in Positions : listing[i] = d}
Loose(d) ==
  {w \in Attempts \X Positions :
     /\ attempt[w[1]] = "abandoned" /\ listing[w[2]] = d
     /\ stage[w[1]][w[2]] \in {"start", "sending"}}
AwaitedAt(d, where) ==
  {i \in Spots(d) : \E a \in Attempts : attempt[a] = "awaited" /\ stage[a][i] \in where}
Open(d) ==
  IF d \in recorded THEN AwaitedAt(d, {"sending"})
  ELSE IF AwaitedAt(d, {"Delivered"}) # {} THEN AwaitedAt(d, {"start", "sending"})
  ELSE Spots(d)

Allowance(d) == Listed(d) * (1 + mishaps[d] + giveUps)
Balanced(d) ==
  /\ IsFiniteSet(Loose(d))
  /\ pushes[d] + Cardinality(Loose(d)) + Cardinality(Open(d)) <= Allowance(d)

OneAwaited == \A a, b \in Attempts : attempt[a] = "awaited" /\ attempt[b] = "awaited" => a = b
Account == OneAwaited /\ (HasEventId => \A d \in Devices : Balanced(d))

LEMMA SpotsFinite ==
  ASSUME listing \in Listings, NEW d
  PROVE  /\ IsFiniteSet(Spots(d)) /\ Listed(d) = Cardinality(Spots(d)) /\ Listed(d) \in Nat
         /\ \A S \in SUBSET Spots(d) : IsFiniteSet(S) /\ Cardinality(S) <= Listed(d)
         /\ Open(d) \subseteq Spots(d) /\ AwaitedAt(d, {"sending"}) \subseteq Open(d)
<1>1. IsFiniteSet(Positions)
  BY ListingType, FS_Interval DEF Positions
<1>2. IsFiniteSet(Spots(d)) /\ Listed(d) = Cardinality(Spots(d))
  BY <1>1, FS_Subset DEF Spots, Listed
<1>3. Listed(d) \in Nat /\ \A S \in SUBSET Spots(d) : IsFiniteSet(S) /\ Cardinality(S) <= Listed(d)
  BY <1>2, FS_Subset, FS_CardinalityType
<1>4. Open(d) \subseteq Spots(d) /\ AwaitedAt(d, {"sending"}) \subseteq Open(d)
  BY DEF Open, AwaitedAt
<1> QED
  BY <1>2, <1>3, <1>4

\* The allowance, as the reasons for repeats add up.
AllowanceTyped ==
  \A d \in Devices : /\ Allowance(d) \in Nat
                     /\ mishaps[d] \in Nat /\ giveUps \in Nat /\ pushes[d] \in Nat

LEMMA AllowanceType == TypeOK => AllowanceTyped
BY SpotsFinite, BoundsAssumption DEF TypeOK, Allowance, AllowanceTyped

LEMMA AllowanceTypeAfter == TypeOK' => AllowanceTyped'
BY AllowanceType, PTL

LEMMA AllowanceGrows ==
  ASSUME TypeOK, TypeOK', listing' = listing, NEW d \in Devices
  PROVE  /\ mishaps'[d] + giveUps' >= mishaps[d] + giveUps => Allowance(d)' >= Allowance(d)
         /\ mishaps'[d] + giveUps' = mishaps[d] + giveUps + 1 =>
              Allowance(d)' = Allowance(d) + Listed(d)
<1>1. \A n, r, q \in Nat :
        /\ q >= r => n * (1 + q) >= n * (1 + r)
        /\ n * (1 + (r + 1)) = n * (1 + r) + n
  OBVIOUS
<1>2. Listed(d)' = Listed(d)
  BY DEF Listed, Positions
<1>3. Listed(d) \in Nat
  BY SpotsFinite DEF TypeOK
<1>4. mishaps[d] \in Nat /\ giveUps \in Nat
  BY AllowanceType DEF AllowanceTyped
<1>5. mishaps'[d] \in Nat /\ giveUps' \in Nat
  BY AllowanceTypeAfter DEF AllowanceTyped
<1>6. /\ Allowance(d) = Listed(d) * (1 + (mishaps[d] + giveUps))
      /\ mishaps[d] + giveUps \in Nat
  <2>1. 1 + mishaps[d] + giveUps = 1 + (mishaps[d] + giveUps)
    BY <1>4
  <2> QED
    BY <1>4, <2>1 DEF Allowance
<1>7. /\ Allowance(d)' = Listed(d) * (1 + (mishaps'[d] + giveUps'))
      /\ mishaps'[d] + giveUps' \in Nat
  <2>1. 1 + mishaps'[d] + giveUps' = 1 + (mishaps'[d] + giveUps')
    BY <1>5
  <2> QED
    BY <1>2, <1>5, <2>1 DEF Allowance
<1> QED
  BY <1>1, <1>3, <1>6, <1>7

\* A step for which the sum does not grow, and one that has a reason to let it
\* grow by a push at each position.
LEMMA Carried ==
  ASSUME TypeOK, TypeOK', listing' = listing, NEW d \in Devices, Balanced(d),
         mishaps'[d] + giveUps' >= mishaps[d] + giveUps,
         Loose(d)' \subseteq Loose(d), Open(d)' \subseteq Open(d),
         \/ pushes'[d] <= pushes[d]
         \/ pushes'[d] <= pushes[d] + 1 /\ (Loose(d)' # Loose(d) \/ Open(d)' # Open(d))
  PROVE  Balanced(d)'
<1>1. IsFiniteSet(Open(d)) /\ IsFiniteSet(Loose(d))
  BY SpotsFinite DEF TypeOK, Balanced
<1>2. \A S, T : IsFiniteSet(S) /\ T \subseteq S =>
        /\ IsFiniteSet(T) /\ Cardinality(T) \in Nat /\ Cardinality(S) \in Nat
        /\ Cardinality(T) <= Cardinality(S)
        /\ T # S => Cardinality(T) < Cardinality(S)
  BY FS_Subset, FS_CardinalityType
<1>3. /\ IsFiniteSet(Loose(d)') /\ Cardinality(Loose(d)') \in Nat /\ Cardinality(Loose(d)) \in Nat
      /\ Cardinality(Loose(d)') <= Cardinality(Loose(d))
      /\ Loose(d)' # Loose(d) => Cardinality(Loose(d)') < Cardinality(Loose(d))
  BY <1>1, <1>2
<1>4. /\ Cardinality(Open(d)') \in Nat /\ Cardinality(Open(d)) \in Nat
      /\ Cardinality(Open(d)') <= Cardinality(Open(d))
      /\ Open(d)' # Open(d) => Cardinality(Open(d)') < Cardinality(Open(d))
  BY <1>1, <1>2
<1>5. Allowance(d) \in Nat /\ Allowance(d)' >= Allowance(d)
  BY AllowanceType, AllowanceGrows DEF AllowanceTyped
<1>6. Allowance(d)' \in Nat /\ pushes'[d] \in Nat /\ pushes[d] \in Nat
  BY AllowanceType, AllowanceTypeAfter DEF AllowanceTyped
<1>7. pushes[d] + Cardinality(Loose(d)) + Cardinality(Open(d)) <= Allowance(d)
  BY DEF Balanced
<1>8. pushes'[d] + Cardinality(Loose(d)') + Cardinality(Open(d)') <= Allowance(d)'
  BY <1>3, <1>4, <1>5, <1>6, <1>7
<1> QED
  BY <1>3, <1>8 DEF Balanced

LEMMA Excused ==
  ASSUME TypeOK, TypeOK', listing' = listing, NEW d \in Devices, Balanced(d),
         mishaps'[d] + giveUps' = mishaps[d] + giveUps + 1,
         Loose(d)' \subseteq Loose(d),
         \/ pushes'[d] <= pushes[d]
         \/ pushes'[d] <= pushes[d] + 1 /\ (Loose(d)' # Loose(d) \/ Open(d) # {})
  PROVE  Balanced(d)'
<1>1. IsFiniteSet(Open(d)) /\ IsFiniteSet(Loose(d)) /\ Listed(d) \in Nat
  BY SpotsFinite DEF TypeOK, Balanced
<1>2. /\ IsFiniteSet(Loose(d)') /\ Cardinality(Loose(d)') \in Nat /\ Cardinality(Loose(d)) \in Nat
      /\ Cardinality(Loose(d)') <= Cardinality(Loose(d))
      /\ Loose(d)' # Loose(d) => Cardinality(Loose(d)') < Cardinality(Loose(d))
  BY <1>1, FS_Subset, FS_CardinalityType
<1>3. Cardinality(Open(d)) \in Nat /\ (Open(d) # {} => Cardinality(Open(d)) > 0)
  BY <1>1, FS_EmptySet, FS_CardinalityType
<1>4. Cardinality(Open(d)') \in Nat /\ Cardinality(Open(d)') <= Listed(d)
  <2>1. Open(d)' \subseteq Spots(d)' /\ Spots(d)' = Spots(d)
    BY DEF Open, AwaitedAt, Spots, Positions
  <2> QED
    BY <2>1, SpotsFinite, FS_CardinalityType DEF TypeOK
<1>5. Allowance(d) \in Nat /\ Allowance(d)' = Allowance(d) + Listed(d)
  BY AllowanceType, AllowanceGrows DEF AllowanceTyped
<1>6. pushes'[d] \in Nat /\ pushes[d] \in Nat
  BY AllowanceType, AllowanceTypeAfter DEF AllowanceTyped
<1>7. pushes[d] + Cardinality(Loose(d)) + Cardinality(Open(d)) <= Allowance(d)
  BY DEF Balanced
<1>8. pushes'[d] + Cardinality(Loose(d)') + Cardinality(Open(d)') <= Allowance(d)'
  BY <1>1, <1>2, <1>3, <1>4, <1>5, <1>6, <1>7
<1> QED
  BY <1>2, <1>8 DEF Balanced

-----------------------------------------------------------------------------
LEMMA OpenShrinks ==
  ASSUME TypeOK, listing' = listing, NEW d \in Devices, d \in recorded => d \in recorded',
         d \in recorded' => AwaitedAt(d, {"sending"})' \subseteq AwaitedAt(d, {"sending"}),
         d \notin recorded' /\ AwaitedAt(d, {"Delivered"}) # {} =>
           /\ AwaitedAt(d, {"Delivered"})' # {}
           /\ AwaitedAt(d, {"start", "sending"})' \subseteq AwaitedAt(d, {"start", "sending"})
  PROVE  Open(d)' \subseteq Open(d)
<1>1. Spots(d)' = Spots(d) /\ Open(d)' \subseteq Spots(d)'
  BY DEF Spots, Positions, Open, AwaitedAt
<1>2. CASE d \in recorded'
  BY <1>2, SpotsFinite DEF Open, TypeOK
<1>3. CASE d \notin recorded' /\ AwaitedAt(d, {"Delivered"}) # {}
  BY <1>3 DEF Open
<1>4. CASE d \notin recorded' /\ AwaitedAt(d, {"Delivered"}) = {}
  BY <1>1, <1>4 DEF Open
<1> QED
  BY <1>2, <1>3, <1>4

LEMMA Moved ==
  ASSUME TypeOK, NEW a \in Attempts, NEW i \in Positions, NEW where, Goto(a, i, where)
  PROVE  /\ stage'[a][i] = where
         /\ \A b \in Attempts, j \in Positions : b # a \/ j # i => stage'[b][j] = stage[b][j]
BY DEF TypeOK, Goto

\* One device moves on: no position opens again.
LEMMA MoveShrinks ==
  ASSUME TypeOK, NEW a \in Attempts, NEW i \in Positions, NEW where, Goto(a, i, where),
         UNCHANGED <<listing, attempt>>, NEW d \in Devices, recorded \subseteq recorded',
         stage[a][i] = "Delivered" => listing[i] # d \/ d \in recorded',
         where # "start",
         where = "sending" => stage[a][i] = "start" /\ (listing[i] # d \/ d \notin recorded')
  PROVE  Loose(d)' \subseteq Loose(d) /\ Open(d)' \subseteq Open(d)
<1>1. Positions' = Positions /\ Spots(d)' = Spots(d)
  BY DEF Positions, Spots
<1>2. Loose(d)' \subseteq Loose(d)
  BY <1>1, Moved DEF Loose
<1>3. ASSUME d \in recorded'
      PROVE  AwaitedAt(d, {"sending"})' \subseteq AwaitedAt(d, {"sending"})
  BY <1>1, <1>3, Moved DEF AwaitedAt, Spots
<1>4. ASSUME d \notin recorded', AwaitedAt(d, {"Delivered"}) # {}
      PROVE  /\ AwaitedAt(d, {"Delivered"})' # {}
             /\ AwaitedAt(d, {"start", "sending"})' \subseteq AwaitedAt(d, {"start", "sending"})
  <2>1. PICK j \in Spots(d) :
          \E b \in Attempts : attempt[b] = "awaited" /\ stage[b][j] \in {"Delivered"}
    BY <1>4 DEF AwaitedAt
  <2>2. PICK b \in Attempts : attempt[b] = "awaited" /\ stage[b][j] = "Delivered"
    BY <2>1
  <2>3. stage'[b][j] = "Delivered"
    BY <1>4, <2>2, Moved DEF Spots
  <2>4. AwaitedAt(d, {"Delivered"})' # {}
    BY <1>1, <2>2, <2>3 DEF AwaitedAt
  <2>5. AwaitedAt(d, {"start", "sending"})' \subseteq AwaitedAt(d, {"start", "sending"})
    BY <1>1, Moved DEF AwaitedAt, Spots
  <2> QED
    BY <2>4, <2>5
<1> QED
  BY <1>2, <1>3, <1>4, OpenShrinks

LEMMA BeginAccount ==
  ASSUME Inv, TypeOK', HasEventId, NEW a \in Attempts, NEW i \in Positions, Begin(a, i),
         NEW d \in Devices, Balanced(d)
  PROVE  Balanced(d)'
<1>1. PICK where \in {"Reject", "Fine", "sending"} :
        /\ Goto(a, i, where)
        /\ where = "sending" => listing[i] \notin recorded
  BY DEF Begin, Suppressed
<1>2. stage[a][i] = "start" /\ UNCHANGED <<environment, recorded, pushes, skipped, mishaps>>
  BY DEF Begin, At
<1>3. Loose(d)' \subseteq Loose(d) /\ Open(d)' \subseteq Open(d)
  BY <1>1, <1>2, MoveShrinks DEF Inv, environment
<1> QED
  BY <1>2, <1>3, Carried, AllowanceType DEF Inv, environment, AllowanceTyped

LEMMA ResumeAccount ==
  ASSUME Inv, TypeOK', HasEventId, NEW a \in Attempts, NEW i \in Positions, Resume(a, i),
         NEW d \in Devices, Balanced(d)
  PROVE  Balanced(d)'
<1>1. /\ Goto(a, i, DispositionOf(stage[a][i]))
      /\ stage[a][i] \in Outcomes
      /\ recorded' = RecordedAfter(stage[a][i], listing[i])
      /\ UNCHANGED <<environment, pushes, skipped, mishaps>>
  BY DEF Resume
<1>2. DispositionOf(stage[a][i]) \in Dispositions
  BY <1>1 DEF DispositionOf, Outcomes, Dispositions
<1>3. PICK where \in Dispositions : Goto(a, i, where)
  BY <1>1, <1>2
<1>4. recorded \subseteq recorded' /\ (stage[a][i] = "Delivered" => listing[i] \in recorded')
  BY <1>1 DEF RecordedAfter
<1>5. Loose(d)' \subseteq Loose(d) /\ Open(d)' \subseteq Open(d)
  BY <1>1, <1>3, <1>4, MoveShrinks DEF Inv, environment, Dispositions
<1> QED
  BY <1>1, <1>5, Carried, AllowanceType DEF Inv, environment, AllowanceTyped

LEMMA AnswerAccount ==
  ASSUME Inv, TypeOK', NEW a \in Attempts, NEW i \in Positions,
         Reject(a, i) \/ Skip(a, i) \/ Fail(a, i), NEW d \in Devices, Balanced(d)
  PROVE  Balanced(d)'
<1>1. PICK where \in {"Rejected", "Skipped", "Failed"} : Goto(a, i, where)
  BY DEF Reject, Skip, Fail
<1>2. stage[a][i] = "sending" /\ UNCHANGED <<environment, recorded, pushes, mishaps>>
  BY DEF Reject, Skip, Fail, At
<1>3. Loose(d)' \subseteq Loose(d) /\ Open(d)' \subseteq Open(d)
  BY <1>1, <1>2, MoveShrinks DEF Inv, environment
<1> QED
  BY <1>2, <1>3, Carried, AllowanceType DEF Inv, environment, AllowanceTyped

\* A push counts once, and only for its device.
LEMMA CountedOnce ==
  ASSUME TypeOK, NEW e \in Devices, NEW d \in Devices
  PROVE  /\ Counted(e)[d] <= pushes[d] + 1
         /\ e # d => Counted(e)[d] = pushes[d]
BY DEF Counted, TypeOK

\* A push uses up a position that was open or loose.
LEMMA PushCloses ==
  ASSUME Inv, OneAwaited, NEW a \in Attempts, NEW i \in Positions, attempt[a] # "idle",
         stage[a][i] = "sending", NEW where \in {"Delivered", "Failed"}, Goto(a, i, where),
         UNCHANGED <<environment, recorded>>, NEW d \in Devices, listing[i] = d
  PROVE  \/ Loose(d)' # Loose(d)
         \/ Open(d) # {} /\ (where = "Delivered" => Open(d)' # Open(d))
<1>1. Positions' = Positions /\ Spots(d)' = Spots(d) /\ listing' = listing
         /\ attempt' = attempt /\ recorded' = recorded
  BY DEF Positions, Spots, environment
<1>2. CASE attempt[a] = "abandoned"
  <2>1. <<a, i>> \in Loose(d)
    BY <1>2 DEF Loose
  <2>2. <<a, i>> \notin Loose(d)'
    BY Moved DEF Loose, Inv
  <2> QED
    BY <2>1, <2>2
<1>3. CASE attempt[a] = "awaited"
  <2>1. i \in AwaitedAt(d, {"sending"})
    BY <1>3 DEF AwaitedAt, Spots
  <2>2. i \in Open(d)
    BY <2>1, SpotsFinite DEF Inv, TypeOK
  <2>3. \A b \in Attempts : attempt[b] = "awaited" => stage'[b][i] = where
    BY <1>3, Moved DEF OneAwaited, Inv
  <2>4. i \notin AwaitedAt(d, {"sending"})' /\ i \notin AwaitedAt(d, {"start", "sending"})'
    BY <1>1, <2>3 DEF AwaitedAt
  <2>5. where = "Delivered" => AwaitedAt(d, {"Delivered"})' # {}
    BY <1>1, <1>3, <2>3 DEF AwaitedAt, Spots
  <2>6. where = "Delivered" => i \notin Open(d)'
    BY <2>4, <2>5 DEF Open
  <2> QED
    BY <2>2, <2>6
<1> QED
  BY <1>2, <1>3 DEF Inv, TypeOK

LEMMA AcceptAccount ==
  ASSUME Inv, TypeOK', OneAwaited, NEW a \in Attempts, NEW i \in Positions, Accept(a, i),
         NEW d \in Devices, Balanced(d)
  PROVE  Balanced(d)'
<1>1. /\ stage[a][i] = "sending" /\ attempt[a] # "idle" /\ Goto(a, i, "Delivered")
      /\ pushes' = Counted(listing[i])
      /\ UNCHANGED <<environment, recorded, skipped, mishaps>>
  BY DEF Accept, At, Running
<1>2. listing[i] \in Devices
  BY ListingType DEF Inv, TypeOK
<1>3. Loose(d)' \subseteq Loose(d) /\ Open(d)' \subseteq Open(d)
  BY <1>1, MoveShrinks DEF Inv, environment
<1>4. pushes'[d] <= pushes[d] + 1 /\ (listing[i] # d => pushes'[d] = pushes[d])
  BY <1>1, <1>2, CountedOnce DEF Inv
<1>5. listing[i] = d => Loose(d)' # Loose(d) \/ Open(d)' # Open(d)
  BY <1>1, PushCloses
<1>6. mishaps'[d] + giveUps' >= mishaps[d] + giveUps /\ listing' = listing
  BY <1>1, AllowanceType DEF Inv, environment, AllowanceTyped
<1>7. pushes[d] \in Nat /\ pushes'[d] \in Nat
  BY AllowanceType, AllowanceTypeAfter DEF Inv, AllowanceTyped
<1>8. \/ pushes'[d] <= pushes[d]
      \/ pushes'[d] <= pushes[d] + 1 /\ (Loose(d)' # Loose(d) \/ Open(d)' # Open(d))
  BY <1>4, <1>5, <1>7
<1> QED
  BY <1>3, <1>6, <1>8, Carried DEF Inv

LEMMA AcceptUnheardAccount ==
  ASSUME Inv, TypeOK', OneAwaited, NEW a \in Attempts, NEW i \in Positions,
         AcceptUnheard(a, i), NEW d \in Devices, Balanced(d)
  PROVE  Balanced(d)'
<1>1. /\ stage[a][i] = "sending" /\ attempt[a] # "idle" /\ Goto(a, i, "Failed")
      /\ pushes' = Counted(listing[i])
      /\ mishaps' = [mishaps EXCEPT ![listing[i]] = @ + 1]
      /\ UNCHANGED <<environment, recorded, skipped>>
  BY DEF AcceptUnheard, At, Running
<1>2. listing[i] \in Devices
  BY ListingType DEF Inv, TypeOK
<1>3. Loose(d)' \subseteq Loose(d) /\ Open(d)' \subseteq Open(d)
  BY <1>1, MoveShrinks DEF Inv, environment
<1>4. pushes'[d] <= pushes[d] + 1 /\ (listing[i] # d => pushes'[d] = pushes[d])
  BY <1>1, <1>2, CountedOnce DEF Inv
<1>5. listing' = listing /\ giveUps' = giveUps
  BY <1>1 DEF environment
<1>6. pushes[d] \in Nat /\ pushes'[d] \in Nat /\ mishaps[d] \in Nat /\ giveUps \in Nat
  BY AllowanceType, AllowanceTypeAfter DEF Inv, AllowanceTyped
<1>7. CASE listing[i] = d
  <2>1. Loose(d)' # Loose(d) \/ Open(d) # {}
    BY <1>1, <1>7, PushCloses
  <2>2. mishaps'[d] + giveUps' = mishaps[d] + giveUps + 1
    BY <1>1, <1>5, <1>6, <1>7 DEF Inv, TypeOK
  <2> QED
    BY <1>3, <1>4, <1>5, <2>1, <2>2, Excused DEF Inv
<1>8. CASE listing[i] # d
  <2>1. mishaps'[d] + giveUps' >= mishaps[d] + giveUps
    BY <1>1, <1>5, <1>6, <1>8 DEF Inv, TypeOK
  <2>2. pushes'[d] <= pushes[d]
    BY <1>4, <1>6, <1>8
  <2> QED
    BY <1>3, <1>5, <2>1, <2>2, Carried DEF Inv
<1> QED
  BY <1>7, <1>8

LEMMA CancelAccount ==
  ASSUME Inv, TypeOK', NEW a \in Attempts, Cancel(a), NEW d \in Devices, Balanced(d)
  PROVE  Balanced(d)'
<1>1. /\ attempt[a] = "abandoned"
      /\ attempt' = [attempt EXCEPT ![a] = "idle"]
      /\ stage' = [stage EXCEPT ![a] = Fresh]
      /\ UNCHANGED <<listing, recorded, pushes, mishaps, giveUps>>
  BY DEF Cancel
<1>2. \A b \in Attempts, i \in Positions :
        /\ attempt'[b] = "awaited" <=> attempt[b] = "awaited"
        /\ attempt'[b] = "abandoned" => attempt[b] = "abandoned" /\ b # a
        /\ b # a => stage'[b][i] = stage[b][i]
  BY <1>1 DEF Inv, TypeOK
<1>3. Positions' = Positions /\ Spots(d)' = Spots(d)
  BY <1>1 DEF Positions, Spots
<1>4. Loose(d)' \subseteq Loose(d)
  BY <1>1, <1>2, <1>3 DEF Loose
<1>5. \A where : AwaitedAt(d, where)' = AwaitedAt(d, where)
  BY <1>1, <1>2, <1>3 DEF AwaitedAt, Spots
<1>6. Open(d)' \subseteq Open(d)
  BY <1>1, <1>5, OpenShrinks DEF Inv
<1> QED
  BY <1>1, <1>4, <1>6, Carried, AllowanceType DEF Inv, AllowanceTyped

LEMMA NotifyAccount ==
  ASSUME Inv, TypeOK', NEW a \in Attempts, Notify(a), NEW d \in Devices, Balanced(d)
  PROVE  Balanced(d)'
<1>1. /\ \A b \in Attempts : attempt[b] # "awaited"
      /\ attempt' = [attempt EXCEPT ![a] = "awaited"]
      /\ stage' = [stage EXCEPT ![a] = Fresh]
      /\ UNCHANGED <<listing, recorded, pushes, mishaps, giveUps>>
  BY DEF Notify
<1>2. \A b \in Attempts, i \in Positions :
        /\ attempt'[b] = "awaited" <=> b = a
        /\ attempt'[b] = "abandoned" => attempt[b] = "abandoned" /\ b # a
        /\ stage'[b][i] = IF b = a THEN "start" ELSE stage[b][i]
  BY <1>1 DEF Inv, TypeOK, Fresh
<1>3. Positions' = Positions /\ Spots(d)' = Spots(d)
  BY <1>1 DEF Positions, Spots
<1>4. Loose(d)' \subseteq Loose(d)
  BY <1>1, <1>2, <1>3 DEF Loose
<1>5. AwaitedAt(d, {"Delivered"}) = {} /\ AwaitedAt(d, {"sending"})' = {}
  BY <1>1, <1>2, <1>3 DEF AwaitedAt, Spots
<1>6. Open(d)' \subseteq Open(d)
  BY <1>1, <1>5, OpenShrinks DEF Inv
<1> QED
  BY <1>1, <1>4, <1>6, Carried, AllowanceType DEF Inv, AllowanceTyped

LEMMA RespondAccount ==
  ASSUME Inv, TypeOK', OneAwaited, NEW a \in Attempts, Respond(a), NEW d \in Devices, Balanced(d)
  PROVE  Balanced(d)'
<1>1. /\ \A i \in Positions : stage[a][i] \in Dispositions
      /\ attempt' = [attempt EXCEPT ![a] = "idle"]
      /\ stage' = [stage EXCEPT ![a] = Fresh]
      /\ UNCHANGED <<listing, recorded, pushes, mishaps, giveUps>>
  BY DEF Respond
<1>2. \A b \in Attempts, i \in Positions :
        /\ attempt'[b] # "idle" => attempt'[b] = attempt[b] /\ b # a
        /\ b # a => attempt'[b] = attempt[b] /\ stage'[b][i] = stage[b][i]
  BY <1>1 DEF Inv, TypeOK
<1>3. Positions' = Positions /\ Spots(d)' = Spots(d)
  BY <1>1 DEF Positions, Spots
<1>4. Loose(d)' \subseteq Loose(d)
  BY <1>1, <1>2, <1>3 DEF Loose
<1>5. \A where \in {{"sending"}, {"start", "sending"}} :
        AwaitedAt(d, where)' \subseteq AwaitedAt(d, where)
  BY <1>1, <1>2, <1>3 DEF AwaitedAt, Spots
<1>6. AwaitedAt(d, {"Delivered"}) # {} => AwaitedAt(d, {"Delivered"})' # {}
  BY <1>1, <1>2, <1>3 DEF AwaitedAt, Spots, Dispositions
<1>7. Open(d)' \subseteq Open(d)
  BY <1>1, <1>5, <1>6, OpenShrinks DEF Inv
<1> QED
  BY <1>1, <1>4, <1>7, Carried, AllowanceType DEF Inv, AllowanceTyped

\* The attempt that is given up may still push where it has not come to the end.
LEMMA GiveUpAccount ==
  ASSUME Inv, TypeOK', OneAwaited, NEW a \in Attempts, GiveUp(a), NEW d \in Devices, Balanced(d)
  PROVE  Balanced(d)'
<1> DEFINE K == {i \in Spots(d) : stage[a][i] \in {"start", "sending"}}
<1>1. /\ attempt[a] = "awaited"
      /\ attempt' = [attempt EXCEPT ![a] = "abandoned"]
      /\ giveUps' = giveUps + 1
      /\ UNCHANGED <<listing, stage, recorded, pushes, mishaps>>
  BY DEF GiveUp
<1>2. \A b \in Attempts :
        /\ attempt'[b] # "awaited"
        /\ attempt'[b] = "abandoned" => b = a \/ attempt[b] = "abandoned"
  BY <1>1 DEF Inv, TypeOK, OneAwaited
<1>3. Positions' = Positions /\ Spots(d)' = Spots(d)
  BY <1>1 DEF Positions, Spots
<1>4. Loose(d)' \subseteq Loose(d) \cup ({a} \X K)
  BY <1>1, <1>2, <1>3 DEF Loose, Spots
<1>5. Open(d)' = IF d \in recorded THEN {} ELSE Spots(d)
  <2>1. \A where : AwaitedAt(d, where)' = {}
    BY <1>2 DEF AwaitedAt
  <2> QED
    BY <1>1, <1>3, <2>1 DEF Open
<1>6. /\ IsFiniteSet(K) /\ IsFiniteSet(Open(d)) /\ IsFiniteSet(Loose(d))
      /\ Cardinality(K) \in Nat /\ Cardinality(K) <= Listed(d) /\ Listed(d) \in Nat
      /\ Cardinality(Spots(d)) = Listed(d)
      /\ Cardinality(Open(d)) \in Nat /\ Cardinality(Loose(d)) \in Nat
  BY SpotsFinite, FS_CardinalityType DEF Inv, TypeOK, Balanced
<1>7. /\ IsFiniteSet(Loose(d)') /\ Cardinality(Loose(d)') \in Nat
      /\ Cardinality(Loose(d)') <= Cardinality(Loose(d)) + Cardinality(K)
  <2> DEFINE P == {a} \X K
  <2>1. IsFiniteSet({a}) /\ Cardinality({a}) = 1
    BY FS_Singleton
  <2>2. IsFiniteSet(P) /\ Cardinality(P) = 1 * Cardinality(K)
    BY <1>6, <2>1, FS_Product
  <2>3. Cardinality(P) = Cardinality(K)
    BY <1>6, <2>2
  <2> HIDE DEF P, K
  <2>4. /\ IsFiniteSet(Loose(d) \cup P)
        /\ Cardinality(Loose(d) \cup P)
             = Cardinality(Loose(d)) + Cardinality(P) - Cardinality(Loose(d) \cap P)
    BY <1>6, <2>2, FS_Union
  <2>5. Cardinality(Loose(d) \cap P) \in Nat
    BY <1>6, FS_Subset, FS_CardinalityType
  <2>6. IsFiniteSet(Loose(d)') /\ Cardinality(Loose(d)') <= Cardinality(Loose(d) \cup P)
    <3>1. Loose(d)' \subseteq Loose(d) \cup P
      BY <1>4 DEF P
    <3> QED
      BY <3>1, <2>4, FS_Subset
  <2>7. Cardinality(Loose(d)') \in Nat
    BY <2>6, FS_CardinalityType
  <2> QED
    BY <1>6, <2>3, <2>4, <2>5, <2>6, <2>7
<1>8. Cardinality(Open(d)') \in Nat /\ Cardinality(K) + Cardinality(Open(d)') <= Listed(d) + Cardinality(Open(d))
  <2>1. CASE d \in recorded
    <3>1. Cardinality(Open(d)') = 0
      BY <1>5, <2>1, FS_EmptySet
    <3> QED
      BY <1>6, <3>1
  <2>2. CASE d \notin recorded
    <3>1. Cardinality(Open(d)') = Listed(d)
      BY <1>5, <1>6, <2>2
    <3>2. K \subseteq Open(d)
      BY <1>1, <2>2 DEF Open, AwaitedAt
    <3>3. Cardinality(K) <= Cardinality(Open(d))
      BY <1>6, <3>2, FS_Subset
    <3> QED
      BY <1>6, <3>1, <3>3
  <2> QED
    BY <2>1, <2>2
<1>9. /\ Allowance(d) \in Nat /\ pushes[d] \in Nat /\ pushes'[d] = pushes[d]
      /\ mishaps'[d] + giveUps' = mishaps[d] + giveUps + 1
  BY <1>1, AllowanceType DEF Inv, AllowanceTyped
<1>10. Allowance(d)' = Allowance(d) + Listed(d)
  BY <1>1, <1>9, AllowanceGrows DEF Inv
<1>11. pushes[d] + Cardinality(Loose(d)) + Cardinality(Open(d)) <= Allowance(d)
  BY DEF Balanced
<1> HIDE DEF K
<1>12. pushes'[d] + Cardinality(Loose(d)') + Cardinality(Open(d)') <= Allowance(d)'
  BY <1>6, <1>7, <1>8, <1>9, <1>10, <1>11
<1> QED
  BY <1>7, <1>12 DEF Balanced

LEMMA InvalidateAccount ==
  ASSUME Inv, TypeOK', NEW e \in Devices, Invalidate(e), NEW d \in Devices, Balanced(d)
  PROVE  Balanced(d)'
BY DEF Invalidate, Balanced, Loose, Open, AwaitedAt, Spots, Allowance, Listed, Positions

LEMMA ForgetAccount ==
  ASSUME Inv, TypeOK', NEW e \in Devices, Forget(e), NEW d \in Devices, Balanced(d)
  PROVE  Balanced(d)'
<1>1. /\ mishaps' = [mishaps EXCEPT ![e] = @ + 1]
      /\ recorded' = recorded \ {e}
      /\ UNCHANGED <<environment, stage, pushes, skipped>>
  BY DEF Forget
<1>2. Positions' = Positions /\ Spots(d)' = Spots(d)
  BY <1>1 DEF Positions, Spots, environment
<1>3. Loose(d)' = Loose(d) /\ \A where : AwaitedAt(d, where)' = AwaitedAt(d, where)
  BY <1>1, <1>2 DEF Loose, AwaitedAt, environment
<1>4. /\ pushes[d] \in Nat /\ mishaps[d] \in Nat /\ giveUps \in Nat
      /\ pushes'[d] = pushes[d] /\ giveUps' = giveUps /\ listing' = listing
  BY <1>1, AllowanceType DEF Inv, AllowanceTyped, environment
<1>5. CASE e = d
  <2>1. mishaps'[d] + giveUps' = mishaps[d] + giveUps + 1
    BY <1>1, <1>4, <1>5 DEF Inv, TypeOK
  <2> QED
    BY <1>3, <1>4, <2>1, Excused DEF Inv
<1>6. CASE e # d
  <2>1. mishaps'[d] + giveUps' >= mishaps[d] + giveUps
    BY <1>1, <1>4, <1>6 DEF Inv, TypeOK
  <2>2. d \in recorded' <=> d \in recorded
    BY <1>1, <1>6
  <2>3. Open(d)' \subseteq Open(d)
    BY <1>3, <1>4, <2>2, OpenShrinks DEF Inv
  <2> QED
    BY <1>2, <1>3, <1>4, <2>1, <2>3, Carried DEF Inv
<1> QED
  BY <1>5, <1>6

LEMMA OneAwaitedStep ==
  ASSUME Inv, OneAwaited, [Next]_vars
  PROVE  OneAwaited'
<1>1. CASE UNCHANGED attempt
  BY <1>1 DEF OneAwaited
<1>2. ASSUME NEW a \in Attempts, attempt' \in {[attempt EXCEPT ![a] = "abandoned"],
                                                 [attempt EXCEPT ![a] = "idle"]}
      PROVE  OneAwaited'
  BY <1>2 DEF OneAwaited, Inv, TypeOK
<1>3. ASSUME NEW a \in Attempts, Notify(a) PROVE OneAwaited'
  BY <1>3 DEF OneAwaited, Notify, Inv, TypeOK
<1>4. \/ UNCHANGED attempt
      \/ \E a \in Attempts :
           Notify(a) \/ attempt' \in {[attempt EXCEPT ![a] = "abandoned"],
                                       [attempt EXCEPT ![a] = "idle"]}
  BY DEF Next, vars, environment, Notify, GiveUp, Cancel, Respond, Begin, Resume,
         Accept, AcceptUnheard, Reject, Skip, Fail, Invalidate, Forget
<1> QED
  BY <1>1, <1>2, <1>3, <1>4

LEMMA AccountStep == Inv /\ Account /\ [Next]_vars => Account'
<1> SUFFICES ASSUME Inv, Account, [Next]_vars PROVE Account'
  OBVIOUS
<1>1. TypeOK' /\ OneAwaited /\ OneAwaited'
  <2>1. Inv'
    BY StepInv
  <2> QED
    BY <2>1, OneAwaitedStep DEF Account, Inv
<1>2. ASSUME HasEventId, NEW d \in Devices PROVE Balanced(d)'
  <2>1. Balanced(d)
    BY <1>2 DEF Account
  <2>2. CASE UNCHANGED vars
    BY <2>1, <2>2 DEF vars, Balanced, Loose, Open, AwaitedAt, Spots, Allowance, Listed, Positions
  <2>3. CASE \E a \in Attempts : Notify(a) \/ GiveUp(a) \/ Cancel(a) \/ Respond(a)
    BY <1>1, <2>1, <2>3, NotifyAccount, GiveUpAccount, CancelAccount, RespondAccount
  <2>4. CASE \E a \in Attempts, i \in Positions : Begin(a, i) \/ Resume(a, i)
    BY <1>1, <1>2, <2>1, <2>4, BeginAccount, ResumeAccount
  <2>5. CASE \E a \in Attempts, i \in Positions : Accept(a, i) \/ AcceptUnheard(a, i)
    BY <1>1, <2>1, <2>5, AcceptAccount, AcceptUnheardAccount
  <2>6. CASE \E a \in Attempts, i \in Positions : Reject(a, i) \/ Skip(a, i) \/ Fail(a, i)
    BY <1>1, <2>1, <2>6, AnswerAccount
  <2>7. CASE \E e \in Devices : Invalidate(e) \/ Forget(e)
    BY <1>1, <2>1, <2>7, InvalidateAccount, ForgetAccount
  <2> QED
    BY <2>2, <2>3, <2>4, <2>5, <2>6, <2>7 DEF Next
<1> QED
  BY <1>1, <1>2 DEF Account

LEMMA InitAccount == Init => Account
<1> SUFFICES ASSUME Init PROVE Account
  OBVIOUS
<1>1. OneAwaited
  BY DEF Init, OneAwaited
<1>2. ASSUME NEW d \in Devices PROVE Balanced(d)
  <2>1. Loose(d) = {}
    BY DEF Init, Loose
  <2>2. AwaitedAt(d, {"Delivered"}) = {}
    BY DEF Init, AwaitedAt
  <2>3. Open(d) = Spots(d)
    BY <2>2 DEF Init, Open
  <2>4. Cardinality(Open(d)) = Listed(d) /\ Listed(d) \in Nat
    BY <2>3, SpotsFinite DEF Init
  <2>5. Allowance(d) = Listed(d) * (1 + 0 + 0) /\ pushes[d] = 0
    BY DEF Allowance, Init
  <2>6. Allowance(d) = Listed(d)
    BY <2>4, <2>5
  <2> QED
    BY <2>1, <2>4, <2>5, <2>6, FS_EmptySet DEF Balanced
<1> QED
  BY <1>1, <1>2 DEF Account

(* A push of an event beyond the first to each position of its device is   *)
(* excused by a lost reply, a forgotten recording or an abandoned attempt, *)
(* however attempts and devices interleave: a retry after a 502 alone      *)
(* never repeats a push (deliver_one, notify).                             *)
THEOREM RepeatsAreExcused == Spec => []RepeatsHaveReasons
<1>1. Inv /\ Account => RepeatsHaveReasons
  <2> SUFFICES ASSUME Inv, Account, HasEventId, NEW d \in Devices
               PROVE  pushes[d] <= Allowance(d)
    BY DEF RepeatsHaveReasons, Allowance
  <2>1. Balanced(d)
    BY DEF Account
  <2>2. IsFiniteSet(Open(d)) /\ IsFiniteSet(Loose(d))
    BY <2>1, SpotsFinite DEF Inv, TypeOK, Balanced
  <2>3. Cardinality(Open(d)) \in Nat /\ Cardinality(Loose(d)) \in Nat
    BY <2>2, FS_CardinalityType
  <2>4. pushes[d] \in Nat /\ Allowance(d) \in Nat
    BY AllowanceType DEF Inv, AllowanceTyped
  <2> QED
    BY <2>1, <2>3, <2>4 DEF Balanced
<1>2. Init => Account
  BY InitAccount
<1>3. Inv /\ Account /\ [Next]_vars => Account'
  BY AccountStep
<1> QED
  BY <1>1, <1>2, <1>3, Invariance, PTL DEF Spec

=============================================================================
