--------------------------- MODULE PcsSendProofs ---------------------------
(***************************************************************************)
(* Proofs about PcsSend for any number of calls, permits and attempts.     *)
(***************************************************************************)
EXTENDS PcsSend, FiniteSetTheorems, TLAPS

-----------------------------------------------------------------------------
(* The inductive invariant *)

\* The last attempt of a call came to `outcome'.
LastWas(c, outcome) == heard[c] # <<>> /\ heard[c][Len(heard[c])] = outcome

Active(c) == pc[c] \in {"queued", "flying", "sleeping"}

\* The last throttled answer has not been followed by an attempt.
Pending(c) ==
    LastWas(c, "throttled") /\ pc[c] # "flying" /\ ~(pc[c] = "gone" /\ ~again[c])

\* Attempts and what they came to.
AttemptsOK(c) ==
    /\ Len(heard[c]) <= IF retries[c] THEN MaxAttempts ELSE 1
    /\ pc[c] = "new" => heard[c] = <<>>
    /\ Active(c) => /\ Len(heard[c]) < IF retries[c] THEN MaxAttempts ELSE 1
                    /\ \A i \in 1 .. Len(heard[c]) : heard[c][i] # "status"
    /\ pc[c] = "failed" /\ heard[c] # <<>> =>
           LastWas(c, "error") /\ (retries[c] => Len(heard[c]) = MaxAttempts)
    /\ pc[c] = "answered" => heard[c] # <<>> /\ ~LastWas(c, "error")

\* Throttled answers.
ThrottleOK(c) ==
    /\ throttled[c] = Cardinality(ThrottledAnswers(c))
    /\ throttled[c] <= Len(heard[c])
    /\ throttled[c] <= MaxThrottled
    /\ Active(c) => throttled[c] < MaxThrottled
    /\ LastWas(c, "throttled") => throttled[c] > 0

\* The retries of throttled answers, and their metric.
CountOK(c) ==
    /\ counted[c] = throttled[c] - IF Pending(c) THEN 1 ELSE 0
    /\ pc[c] \in {"queued", "sleeping"} => (again[c] <=> LastWas(c, "throttled"))
    /\ pc[c] \in {"new", "flying"} => ~again[c]
    /\ again[c] => LastWas(c, "throttled")

CallOK(c) == AttemptsOK(c) /\ ThrottleOK(c) /\ CountOK(c)

Types ==
    /\ pc \in [Calls -> Points]
    /\ retries \in [Calls -> BOOLEAN]
    /\ throttled \in [Calls -> Nat]
    /\ again \in [Calls -> BOOLEAN]
    /\ queue \in Seq(Calls)
    /\ free \in Nat /\ inflight \in Int
    /\ counted \in [Calls -> Int]
    /\ heard \in [Calls -> Seq(Outcomes)]

Inv == Types /\ PermitsConserved /\ \A c \in Calls : CallOK(c)

CVars(c) == <<pc[c], retries[c], throttled[c], again[c], counted[c], heard[c]>>

\* What holds of a call depends on its own state.
LEMMA Frame ==
  ASSUME NEW c \in Calls, CallOK(c), UNCHANGED CVars(c)
  PROVE  CallOK(c)'
BY DEF CallOK, AttemptsOK, ThrottleOK, CountOK, Active, Pending, LastWas, ThrottledAnswers,
       CVars

\* A step of one call.
LEMMA StepInv ==
  ASSUME Inv, Types', PermitsConserved', NEW c \in Calls, CallOK(c)',
         \A d \in Calls \ {c} : UNCHANGED CVars(d)
  PROVE  Inv'
<1>1. \A d \in Calls : CallOK(d)'
  BY Frame DEF Inv
<1> QED
  BY <1>1 DEF Inv

LEMMA FlyingFinite == IsFiniteSet(Flying) /\ Cardinality(Flying) \in Nat
<1>1. Flying \in SUBSET Calls
  BY DEF Flying
<1> QED
  BY <1>1, CallsAssumption, FS_Subset, FS_CardinalityType

\* Permits are conserved by a step that neither takes one nor gives one back.
LEMMA PermitsKept ==
  ASSUME Inv, NEW c \in Calls, NEW p, p # "flying", pc[c] # "flying",
         pc' = [pc EXCEPT ![c] = p], UNCHANGED <<free, inflight>>
  PROVE  PermitsConserved'
<1>1. Flying' = Flying
  BY DEF Flying, Inv, Types
<1> QED
  BY <1>1 DEF PermitsConserved, Inv

LEMMA PermitTaken ==
  ASSUME Inv, NEW c \in Calls, pc[c] # "flying", pc' = [pc EXCEPT ![c] = "flying"],
         free' = free - 1, inflight' = inflight + 1
  PROVE  PermitsConserved'
<1>1. Flying' = Flying \cup {c} /\ c \notin Flying
  BY DEF Flying, Inv, Types
<1>2. Cardinality(Flying') = Cardinality(Flying) + 1
  BY <1>1, FlyingFinite, FS_AddElement
<1> QED
  BY <1>2, FlyingFinite DEF PermitsConserved, Inv, Types

LEMMA PermitGiven ==
  ASSUME Inv, NEW c \in Calls, NEW p, p # "flying", pc[c] = "flying",
         pc' = [pc EXCEPT ![c] = p], DropPermit
  PROVE  PermitsConserved'
<1>1. Flying' = Flying \ {c} /\ c \in Flying
  BY DEF Flying, Inv, Types
<1>2. Cardinality(Flying') = Cardinality(Flying) - 1
  BY <1>1, FlyingFinite, FS_RemoveElement
<1> QED
  BY <1>2, FlyingFinite DEF PermitsConserved, Inv, Types, DropPermit

\* A call that leaves the queue leaves a queue of calls.
LEMMA LeaveType ==
  ASSUME queue \in Seq(Calls), NEW c \in Calls
  PROVE  Leave(c) \in Seq(Calls)
<1>1. CASE ~\E i \in 1 .. Len(queue) : queue[i] = c
  BY <1>1 DEF Leave
<1>2. CASE \E i \in 1 .. Len(queue) : queue[i] = c
  <2> DEFINE i == CHOOSE i \in 1 .. Len(queue) : queue[i] = c
             t == [j \in 1 .. Len(queue) - 1 |-> IF j < i THEN queue[j] ELSE queue[j + 1]]
  <2>1. i \in 1 .. Len(queue)
    BY <1>2
  <2>2. Leave(c) = t
    BY <1>2 DEF Leave
  <2> HIDE DEF i
  <2>3. t \in Seq(Calls)
    BY <2>1
  <2> QED
    BY <2>2, <2>3
<1> QED
  BY <1>1, <1>2

-----------------------------------------------------------------------------
(* The steps *)

LEMMA InitInv == Init => Inv
<1> SUFFICES ASSUME Init PROVE Inv
  OBVIOUS
<1>1. Types
  BY BoundsAssumption DEF Init, Types, Points
<1>2. Flying = {}
  BY DEF Init, Flying
<1>3. PermitsConserved
  BY <1>2, FS_EmptySet, BoundsAssumption DEF Init, PermitsConserved
<1>4. ASSUME NEW c \in Calls PROVE CallOK(c)
  <2>1. ThrottledAnswers(c) = {}
    BY DEF Init, ThrottledAnswers
  <2> QED
    BY <2>1, FS_EmptySet, BoundsAssumption
       DEF Init, CallOK, AttemptsOK, ThrottleOK, CountOK, Active, Pending, LastWas
<1> QED
  BY <1>1, <1>3, <1>4 DEF Inv

\* A step that hears nothing and counts nothing.
LEMMA QuietCall ==
  ASSUME Inv, NEW c \in Calls, UNCHANGED <<throttled, heard>>, CallOK(c),
         AttemptsOK(c)', CountOK(c)', Active(c)' => Active(c) \/ pc[c] = "new"
  PROVE  CallOK(c)'
<1>1. ThrottledAnswers(c)' = ThrottledAnswers(c)
  BY DEF ThrottledAnswers
<1>2. pc[c] = "new" => throttled[c] = 0
  BY DEF CallOK, AttemptsOK, ThrottleOK, Inv, Types
<1> QED
  BY <1>1, <1>2, BoundsAssumption DEF CallOK, ThrottleOK, LastWas

LEMMA ArriveInv ==
  ASSUME Inv, NEW c \in Calls, Arrive(c)
  PROVE  Inv'
<1> USE DEF Inv
<1>1. pc[c] = "new" /\ CallOK(c)
  BY DEF Arrive, Begin, Reject
<1>2. CASE Reject(c)
  <2>1. Types'
    BY <1>2 DEF Types, Reject, Goto, Points, Ended
  <2>2. AttemptsOK(c)' /\ CountOK(c)' /\ ~Active(c)'
    BY <1>1, <1>2 DEF CallOK, AttemptsOK, CountOK, Pending, LastWas, Active, Reject, Goto, Types
  <2>3. CallOK(c)'
    BY <1>1, <1>2, <2>2, QuietCall DEF Reject
  <2>4. PermitsConserved'
    BY <1>1, <1>2, PermitsKept DEF Reject, Goto
  <2>5. \A d \in Calls \ {c} : UNCHANGED CVars(d)
    BY <1>2 DEF Types, Reject, Goto, CVars
  <2> QED
    BY <2>1, <2>3, <2>4, <2>5, StepInv
<1>3. ASSUME NEW r \in BOOLEAN, Begin(c, r) PROVE Inv'
  <2>1. Types'
    BY <1>3 DEF Types, Begin, Goto, Points
  <2>2. heard[c] = <<>> /\ ~again[c] /\ throttled[c] = 0
    BY <1>1 DEF CallOK, AttemptsOK, CountOK, ThrottleOK, Types
  <2>3. AttemptsOK(c)' /\ CountOK(c)'
    BY <1>1, <1>3, <2>2, BoundsAssumption
       DEF CallOK, AttemptsOK, CountOK, Pending, LastWas, Active, Begin, Goto, Types
  <2>4. CallOK(c)'
    BY <1>1, <1>3, <2>3, QuietCall DEF Begin
  <2>5. PermitsConserved'
    BY <1>1, <1>3, PermitsKept DEF Begin, Goto
  <2>6. \A d \in Calls \ {c} : UNCHANGED CVars(d)
    BY <1>3 DEF Types, Begin, Goto, CVars
  <2> QED
    BY <2>1, <2>4, <2>5, <2>6, StepInv
<1> QED
  BY <1>2, <1>3 DEF Arrive

LEMMA AcquireInv ==
  ASSUME Inv, NEW c \in Calls, acquire_permit(c)
  PROVE  Inv'
<1> USE DEF Inv
<1>1. Types'
  BY DEF Types, acquire_permit, Goto, Points, Counts
<1>2. CallOK(c) /\ pc[c] = "queued"
  BY DEF acquire_permit
<1>3. AttemptsOK(c)'
  BY <1>2 DEF CallOK, AttemptsOK, LastWas, Active, acquire_permit, Goto, Types
<1>4. CountOK(c)'
  BY <1>2 DEF CallOK, CountOK, Pending, LastWas, acquire_permit, Goto, Types, Counts
<1>5. CallOK(c)'
  BY <1>2, <1>3, <1>4, QuietCall DEF acquire_permit, Active
<1>6. PermitsConserved'
  BY <1>2, PermitTaken DEF acquire_permit, Goto
<1>7. \A d \in Calls \ {c} : UNCHANGED CVars(d)
  BY DEF Types, acquire_permit, Goto, CVars
<1> QED
  BY <1>1, <1>5, <1>6, <1>7, StepInv

LEMMA WakeInv ==
  ASSUME Inv, NEW c \in Calls, Wake(c)
  PROVE  Inv'
<1> USE DEF Inv
<1>1. Types'
  BY DEF Types, Wake, Goto, Points
<1>2. CallOK(c) /\ pc[c] = "sleeping"
  BY DEF Wake
<1>3. AttemptsOK(c)' /\ CountOK(c)'
  BY <1>2 DEF CallOK, AttemptsOK, CountOK, Pending, LastWas, Active, Wake, Goto, Types
<1>4. CallOK(c)'
  BY <1>2, <1>3, QuietCall DEF Wake, Active
<1>5. PermitsConserved'
  BY <1>2, PermitsKept DEF Wake, Goto
<1>6. \A d \in Calls \ {c} : UNCHANGED CVars(d)
  BY DEF Types, Wake, Goto, CVars
<1> QED
  BY <1>1, <1>4, <1>5, <1>6, StepInv

LEMMA HangUpInv ==
  ASSUME Inv, NEW c \in Calls, HangUp(c)
  PROVE  Inv'
<1> USE DEF Inv
<1>1. Types'
  <2>1. queue' \in Seq(Calls)
    BY LeaveType DEF HangUp, Types
  <2>2. pc' \in [Calls -> Points] /\ free' \in Nat /\ inflight' \in Int
    BY DEF HangUp, Types, Goto, Points, Ended, DropPermit
  <2> QED
    BY <2>1, <2>2 DEF Types, HangUp
<1>2. CallOK(c) /\ pc[c] \in {"queued", "flying", "sleeping"}
  BY DEF HangUp
<1>3. AttemptsOK(c)' /\ CountOK(c)'
  BY <1>2 DEF CallOK, AttemptsOK, CountOK, Pending, LastWas, Active, HangUp, Goto, Types
<1>4. CallOK(c)'
  BY <1>2, <1>3, QuietCall DEF HangUp, Active
<1>5. PermitsConserved'
  <2>1. CASE pc[c] = "flying"
    BY <2>1, PermitGiven DEF HangUp, Goto
  <2>2. CASE pc[c] # "flying"
    BY <2>2, PermitsKept DEF HangUp, Goto
  <2> QED
    BY <2>1, <2>2
<1>6. \A d \in Calls \ {c} : UNCHANGED CVars(d)
  BY DEF Types, HangUp, Goto, CVars
<1> QED
  BY <1>1, <1>4, <1>5, <1>6, StepInv

\* Every answer but the last was heard before.
LEMMA AnswersFinite ==
  ASSUME Types, NEW c \in Calls
  PROVE  IsFiniteSet(ThrottledAnswers(c)) /\ Cardinality(ThrottledAnswers(c)) \in Nat
<1>1. Len(heard[c]) \in Int /\ ThrottledAnswers(c) \in SUBSET (1 .. Len(heard[c]))
  BY DEF Types, ThrottledAnswers
<1>2. IsFiniteSet(1 .. Len(heard[c]))
  BY <1>1, FS_Interval
<1>3. IsFiniteSet(ThrottledAnswers(c))
  BY <1>1, <1>2, FS_Subset
<1> QED
  BY <1>3, FS_CardinalityType

LEMMA Heard ==
  ASSUME Types, NEW c \in Calls, NEW outcome \in Outcomes,
         heard' = [heard EXCEPT ![c] = Append(@, outcome)]
  PROVE  /\ Len(heard'[c]) = Len(heard[c]) + 1 /\ heard'[c] # <<>>
         /\ heard'[c][Len(heard'[c])] = outcome
         /\ \A i \in 1 .. Len(heard[c]) : heard'[c][i] = heard[c][i]
         /\ heard' \in [Calls -> Seq(Outcomes)]
         /\ Cardinality(ThrottledAnswers(c)') =
                Cardinality(ThrottledAnswers(c)) + IF outcome = "throttled" THEN 1 ELSE 0
<1>1. heard[c] \in Seq(Outcomes) /\ heard'[c] = Append(heard[c], outcome)
  BY DEF Types
<1>2. /\ Len(heard'[c]) = Len(heard[c]) + 1 /\ heard'[c] # <<>>
      /\ heard'[c][Len(heard[c]) + 1] = outcome
      /\ \A i \in 1 .. Len(heard[c]) : heard'[c][i] = heard[c][i]
  BY <1>1
<1>3. heard' \in [Calls -> Seq(Outcomes)]
  BY <1>1 DEF Types
<1>4. Len(heard[c]) \in Nat
  BY <1>1
<1>5. CASE outcome = "throttled"
  <2>1. /\ ThrottledAnswers(c)' = ThrottledAnswers(c) \cup {Len(heard[c]) + 1}
        /\ Len(heard[c]) + 1 \notin ThrottledAnswers(c)
    BY <1>2, <1>4, <1>5 DEF ThrottledAnswers
  <2> QED
    BY <1>2, <1>3, <1>5, <2>1, AnswersFinite, FS_AddElement
<1>6. CASE outcome # "throttled"
  <2>1. ThrottledAnswers(c)' = ThrottledAnswers(c)
    BY <1>2, <1>4, <1>6 DEF ThrottledAnswers
  <2> QED
    BY <1>2, <1>3, <1>6, <2>1, AnswersFinite
<1> QED
  BY <1>5, <1>6

LEMMA AttemptInv ==
  ASSUME Inv, NEW c \in Calls, AttemptFails(c) \/ AttemptThrottled(c) \/ AttemptAnswered(c)
  PROVE  Inv'
<1> USE DEF Inv
<1>1. PICK outcome \in Outcomes : AttemptOver(c, outcome)
  BY DEF AttemptFails, AttemptThrottled, AttemptAnswered, Outcomes
<1>2. /\ pc[c] = "flying" /\ heard' = [heard EXCEPT ![c] = Append(@, outcome)]
      /\ DropPermit /\ UNCHANGED <<retries, queue, counted>>
  BY <1>1 DEF AttemptOver
<1>3. /\ Len(heard'[c]) = Len(heard[c]) + 1 /\ heard'[c] # <<>>
      /\ heard'[c][Len(heard'[c])] = outcome
      /\ \A i \in 1 .. Len(heard[c]) : heard'[c][i] = heard[c][i]
      /\ heard' \in [Calls -> Seq(Outcomes)]
      /\ Cardinality(ThrottledAnswers(c)') =
             Cardinality(ThrottledAnswers(c)) + IF outcome = "throttled" THEN 1 ELSE 0
  BY <1>2, Heard
<1>4. Len(heard[c]) \in Nat /\ heard[c] \in Seq(Outcomes) /\ CallOK(c)
  BY DEF Types
<1>5. free' \in Nat /\ inflight' \in Int
  BY <1>2 DEF Types, DropPermit
<1>6. CASE AttemptFails(c)
  <2>1. outcome = "error"
    <3>1. Append(heard[c], "error") = Append(heard[c], outcome)
      BY <1>2, <1>6 DEF AttemptFails, AttemptOver, Types
    <3>2. Append(heard[c], "error")[Len(heard[c]) + 1] = "error"
      BY <1>4 DEF Outcomes
    <3>3. Append(heard[c], outcome)[Len(heard[c]) + 1] = outcome
      BY <1>4
    <3> QED
      BY <3>1, <3>2, <3>3
  <2>2. /\ pc' = [pc EXCEPT ![c] = IF MoreAttempts(c) THEN "sleeping" ELSE "failed"]
        /\ UNCHANGED <<throttled, again>>
    BY <1>6 DEF AttemptFails, Goto
  <2>3. Types'
    BY <1>2, <1>3, <1>5, <2>2 DEF Types, Points, Ended
  <2>4. AttemptsOK(c)'
    BY <1>2, <1>3, <1>4, <2>1, <2>2, BoundsAssumption
       DEF CallOK, AttemptsOK, Active, LastWas, MoreAttempts, Attempts, Types
  <2>5. ThrottleOK(c)'
    BY <1>2, <1>3, <1>4, <2>1, <2>2 DEF CallOK, ThrottleOK, Active, LastWas, Types
  <2>6. CountOK(c)'
    BY <1>2, <1>3, <1>4, <2>1, <2>2 DEF CallOK, CountOK, Pending, LastWas, Types
  <2>7. PermitsConserved'
    <3>1. CASE MoreAttempts(c)
      BY <1>2, <2>2, <3>1, PermitGiven
    <3>2. CASE ~MoreAttempts(c)
      BY <1>2, <2>2, <3>2, PermitGiven
    <3> QED
      BY <3>1, <3>2
  <2>8. \A d \in Calls \ {c} : UNCHANGED CVars(d)
    BY <1>2, <2>2 DEF Types, CVars
  <2> QED
    BY <2>3, <2>4, <2>5, <2>6, <2>7, <2>8, StepInv DEF CallOK
<1>7. CASE AttemptThrottled(c)
  <2>1. outcome = "throttled"
    <3>1. Append(heard[c], "throttled") = Append(heard[c], outcome)
      BY <1>2, <1>7 DEF AttemptThrottled, AttemptOver, Types
    <3>2. Append(heard[c], "throttled")[Len(heard[c]) + 1] = "throttled"
      BY <1>4 DEF Outcomes
    <3>3. Append(heard[c], outcome)[Len(heard[c]) + 1] = outcome
      BY <1>4
    <3> QED
      BY <3>1, <3>2, <3>3
  <2>2. /\ pc' = [pc EXCEPT ![c] = IF RetriesThrottled(c) THEN "sleeping" ELSE "answered"]
        /\ throttled' = [throttled EXCEPT ![c] = @ + 1]
        /\ again' = [again EXCEPT ![c] = RetriesThrottled(c)]
    BY <1>7 DEF AttemptThrottled, Goto
  <2>3. RetriesThrottled(c) \in BOOLEAN
    BY DEF RetriesThrottled, MoreAttempts, Types
  <2>4. Types'
    BY <1>2, <1>3, <1>5, <2>2, <2>3 DEF Types, Points, Ended
  <2>5. AttemptsOK(c)'
    BY <1>2, <1>3, <1>4, <2>1, <2>2, BoundsAssumption
       DEF CallOK, AttemptsOK, Active, LastWas, RetriesThrottled, MoreAttempts, Attempts, Types
  <2>6. ThrottleOK(c)'
    BY <1>2, <1>3, <1>4, <2>1, <2>2, BoundsAssumption
       DEF CallOK, ThrottleOK, Active, LastWas, RetriesThrottled, Types
  <2>7. CountOK(c)'
    <3>1. /\ LastWas(c, "throttled")' /\ counted'[c] = throttled[c]
          /\ throttled'[c] = throttled[c] + 1 /\ throttled[c] \in Nat
      BY <1>2, <1>3, <1>4, <2>1, <2>2 DEF CallOK, CountOK, Pending, LastWas, Types
    <3>2. CASE RetriesThrottled(c)
      <4>1. pc'[c] = "sleeping" /\ again'[c]
        BY <2>2, <3>2 DEF Types
      <4> QED
        BY <3>1, <4>1 DEF CountOK, Pending
    <3>3. CASE ~RetriesThrottled(c)
      <4>1. pc'[c] = "answered" /\ ~again'[c]
        BY <2>2, <2>3, <3>3 DEF Types
      <4> QED
        BY <3>1, <4>1 DEF CountOK, Pending
    <3> QED
      BY <3>2, <3>3
  <2>8. PermitsConserved'
    <3>1. CASE RetriesThrottled(c)
      BY <1>2, <2>2, <3>1, PermitGiven
    <3>2. CASE ~RetriesThrottled(c)
      BY <1>2, <2>2, <3>2, PermitGiven
    <3> QED
      BY <3>1, <3>2
  <2>9. \A d \in Calls \ {c} : UNCHANGED CVars(d)
    BY <1>2, <2>2 DEF Types, CVars
  <2> QED
    BY <2>4, <2>5, <2>6, <2>7, <2>8, <2>9, StepInv DEF CallOK
<1>8. CASE AttemptAnswered(c)
  <2>1. outcome = "status"
    <3>1. Append(heard[c], "status") = Append(heard[c], outcome)
      BY <1>2, <1>8 DEF AttemptAnswered, AttemptOver, Types
    <3>2. Append(heard[c], "status")[Len(heard[c]) + 1] = "status"
      BY <1>4 DEF Outcomes
    <3>3. Append(heard[c], outcome)[Len(heard[c]) + 1] = outcome
      BY <1>4
    <3> QED
      BY <3>1, <3>2, <3>3
  <2>2. pc' = [pc EXCEPT ![c] = "answered"] /\ UNCHANGED <<throttled, again>>
    BY <1>8 DEF AttemptAnswered, Goto
  <2>3. Types'
    BY <1>2, <1>3, <1>5, <2>2 DEF Types, Points, Ended
  <2>4. AttemptsOK(c)'
    BY <1>2, <1>3, <1>4, <2>1, <2>2, BoundsAssumption
       DEF CallOK, AttemptsOK, Active, LastWas, Types
  <2>5. ThrottleOK(c)'
    BY <1>2, <1>3, <1>4, <2>1, <2>2 DEF CallOK, ThrottleOK, Active, LastWas, Types
  <2>6. CountOK(c)'
    BY <1>2, <1>3, <1>4, <2>1, <2>2 DEF CallOK, CountOK, Pending, LastWas, Types
  <2>7. PermitsConserved'
    BY <1>2, <2>2, PermitGiven
  <2>8. \A d \in Calls \ {c} : UNCHANGED CVars(d)
    BY <1>2, <2>2 DEF Types, CVars
  <2> QED
    BY <2>3, <2>4, <2>5, <2>6, <2>7, <2>8, StepInv DEF CallOK
<1> QED
  BY <1>6, <1>7, <1>8

LEMMA NextInv ==
  ASSUME Inv, [Next]_vars
  PROVE  Inv'
<1>1. CASE UNCHANGED vars
  <2>1. Types' /\ \A c \in Calls : CallOK(c)'
    BY <1>1, Frame DEF vars, CVars, Inv, Types
  <2>2. Flying' = Flying
    BY <1>1 DEF vars, Flying
  <2> QED
    BY <1>1, <2>1, <2>2 DEF vars, Inv, PermitsConserved
<1>2. ASSUME NEW c \in Calls, Arrive(c) \/ Advance(c) \/ HangUp(c) PROVE Inv'
  BY <1>2, ArriveInv, AcquireInv, WakeInv, AttemptInv, HangUpInv DEF Advance
<1> QED
  BY <1>1, <1>2 DEF Next

LEMMA Invariant == Spec => []Inv
  BY InitInv, NextInv, PTL DEF Spec

-----------------------------------------------------------------------------
(* Theorems *)

(***************************************************************************)
(* Permits, gauge and counters of the client keep their types and bounds   *)
(* (pcs.rs).                                                               *)
(***************************************************************************)
THEOREM TypeCorrect == Spec => []TypeOK
<1>1. Inv => TypeOK
  <2> SUFFICES ASSUME Inv PROVE TypeOK
    OBVIOUS
  <2>1. free \in 0 .. Permits /\ inflight \in 0 .. Permits
    <3>1. /\ free + Cardinality(Flying) = Permits /\ inflight = Cardinality(Flying)
          /\ Cardinality(Flying) \in Nat /\ free \in Int /\ free >= 0
      BY FlyingFinite DEF Inv, Types, PermitsConserved
    <3> QED
      BY <3>1, BoundsAssumption
  <2>2. ASSUME NEW c \in Calls
        PROVE  throttled[c] \in 0 .. MaxAttempts /\ counted[c] \in 0 .. MaxAttempts
    <3>1. throttled[c] \in Nat /\ counted[c] \in Int /\ Len(heard[c]) \in Nat /\ CallOK(c)
      BY DEF Inv, Types
    <3>2. throttled[c] <= MaxAttempts
      BY <3>1, BoundsAssumption DEF CallOK, ThrottleOK, AttemptsOK
    <3>3. counted[c] >= 0 /\ counted[c] <= throttled[c]
      BY <3>1 DEF CallOK, ThrottleOK, CountOK, Pending
    <3> QED
      BY <3>1, <3>2, <3>3, BoundsAssumption
  <2>3. throttled \in [Calls -> 0 .. MaxAttempts] /\ counted \in [Calls -> 0 .. MaxAttempts]
    BY <2>2 DEF Inv, Types
  <2> QED
    BY <2>1, <2>3 DEF Inv, Types, TypeOK
<1> QED
  BY <1>1, Invariant, PTL

(***************************************************************************)
(* Permits and gauge are the attempts under way, for any number of calls   *)
(* and permits, hang-ups at every await included (acquire_permit,          *)
(* InflightGuard).                                                         *)
(***************************************************************************)
THEOREM PermitsComeBack == Spec => []PermitsConserved
<1>1. Inv => PermitsConserved
  BY DEF Inv
<1> QED
  BY <1>1, Invariant, PTL

(***************************************************************************)
(* A throttled upstream is not stormed, whatever the mix of errors and     *)
(* throttled answers (send, post_bytes_once).                              *)
(***************************************************************************)
THEOREM NoStorm == Spec => []StormNotAmplified
<1>1. Inv => StormNotAmplified
  BY DEF Inv, CallOK, AttemptsOK, ThrottleOK, Active, StormNotAmplified
<1> QED
  BY <1>1, Invariant, PTL

(***************************************************************************)
(* A call that retries fails only after its last attempt, and no answer is *)
(* turned into a failure (send).                                           *)
(***************************************************************************)
THEOREM AnswersNotLost == Spec => []FailsOnlyAtTheEnd
<1>1. Inv => FailsOnlyAtTheEnd
  BY DEF Inv, CallOK, AttemptsOK, LastWas, FailsOnlyAtTheEnd
<1> QED
  BY <1>1, Invariant, PTL

(***************************************************************************)
(* The metric of throttled retries counts the attempts begun right after a *)
(* throttled answer, and no retry that was given up before it began (send).*)
(***************************************************************************)
THEOREM MetricExact == Spec => []RetriesCounted
<1>1. Inv => RetriesCounted
  <2> SUFFICES ASSUME Inv, NEW c \in Calls
               PROVE  counted[c] = Cardinality({i \in ThrottledAnswers(c) :
                                       i < Len(heard[c]) \/ pc[c] = "flying"
                                       \/ (pc[c] = "gone" /\ ~again[c])})
    BY DEF RetriesCounted
  <2> DEFINE begun == {i \in ThrottledAnswers(c) :
                          i < Len(heard[c]) \/ pc[c] = "flying"
                          \/ (pc[c] = "gone" /\ ~again[c])}
             n == Len(heard[c])
  <2>1. CallOK(c) /\ heard[c] \in Seq(Outcomes) /\ n \in Nat
    BY DEF Inv, Types
  <2>2. IsFiniteSet(ThrottledAnswers(c)) /\ Cardinality(ThrottledAnswers(c)) \in Nat
    BY AnswersFinite DEF Inv
  <2>3. CASE Pending(c)
    <3>1. n \in ThrottledAnswers(c)
      BY <2>1, <2>3 DEF Pending, LastWas, ThrottledAnswers
    <3>2. begun = ThrottledAnswers(c) \ {n}
      BY <2>1, <2>3 DEF Pending, ThrottledAnswers
    <3>3. Cardinality(begun) = Cardinality(ThrottledAnswers(c)) - 1
      BY <2>2, <3>1, <3>2, FS_RemoveElement
    <3> QED
      BY <2>1, <2>3, <3>3 DEF CallOK, ThrottleOK, CountOK
  <2>4. CASE ~Pending(c)
    <3>1. begun = ThrottledAnswers(c)
      BY <2>1, <2>4 DEF Pending, LastWas, ThrottledAnswers
    <3>2. counted[c] = Cardinality(ThrottledAnswers(c))
      <4>1. counted[c] = throttled[c] - IF Pending(c) THEN 1 ELSE 0
        BY <2>1 DEF CallOK, CountOK
      <4>2. throttled[c] = Cardinality(ThrottledAnswers(c))
        BY <2>1 DEF CallOK, ThrottleOK
      <4> QED
        BY <2>2, <2>4, <4>1, <4>2
    <3> QED
      BY <3>1, <3>2
  <2> QED
    BY <2>3, <2>4
<1> QED
  BY <1>1, Invariant, PTL
=============================================================================
