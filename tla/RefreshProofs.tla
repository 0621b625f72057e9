---------------------------- MODULE RefreshProofs ----------------------------
(***************************************************************************)
(* Proofs about refreshes, with clients that hang up at every await: who   *)
(* runs one (RefreshGate), for any number of calls and targets, and what a *)
(* run and all that races with it do to the documents (Collateral), for    *)
(* any number of tasks, documents and issues.                              *)
(***************************************************************************)
EXTENDS RefreshGate, Collateral, TLAPS

Inv == TypeOK /\ OneLeaderPerTarget

\* Giving up a place on refresh_lock leaves a queue of tasks.
LEMMA ReleasedType ==
  ASSUME turn \in Seq(Calls \cup {Scheduler}), NEW c \in Calls \cup {Scheduler}
  PROVE  Released(c) \in Seq(Calls \cup {Scheduler})
<1>1. CASE ~\E i \in 1 .. Len(turn) : turn[i] = c
  BY <1>1 DEF Released
<1>2. CASE \E i \in 1 .. Len(turn) : turn[i] = c
  <2> DEFINE i == CHOOSE i \in 1 .. Len(turn) : turn[i] = c
             t == [j \in 1 .. Len(turn) - 1 |-> IF j < i THEN turn[j] ELSE turn[j + 1]]
  <2>1. i \in 1 .. Len(turn)
    BY <1>2
  <2>2. Released(c) = t
    BY <1>2 DEF Released
  <2> HIDE DEF i
  <2>3. t \in Seq(Calls \cup {Scheduler})
    BY <2>1
  <2> QED
    BY <2>2, <2>3
<1> QED
  BY <1>1, <1>2

\* The service starts with no run under way.
LEMMA InitInv == Init => Inv
  BY DEF Init, Inv, TypeOK, OneLeaderPerTarget, Leads, Points

\* A new call leads no run yet.
LEMMA BeginInv ==
  ASSUME Inv, NEW c \in Calls, NEW t \in Targets, Begin(c, t)
  PROVE  Inv'
<1>1. TypeOK'
  BY DEF Inv, TypeOK, Begin, Goto, Points
<1>2. OneLeaderPerTarget'
  BY NamesAssumption DEF Inv, TypeOK, OneLeaderPerTarget, Leads, Begin, Goto
<1> QED
  BY <1>1, <1>2 DEF Inv

\* Looking the target up, waiting, taking a turn, ending the run: no entry changes.
LEMMA WaitInv ==
  ASSUME Inv, NEW c \in Calls, Check(c) \/ Wake(c) \/ TakeTurn(c) \/ RunEnds(c)
  PROVE  Inv'
<1>1. CASE Check(c)
  <2>1. TypeOK'
    BY <1>1 DEF Inv, TypeOK, Check, Goto, Points
  <2>2. OneLeaderPerTarget'
    BY <1>1 DEF Inv, TypeOK, OneLeaderPerTarget, Leads, Check, Goto
  <2> QED
    BY <2>1, <2>2 DEF Inv
<1>2. CASE Wake(c)
  <2>1. TypeOK'
    BY <1>2 DEF Inv, TypeOK, Wake, Goto, Points
  <2>2. OneLeaderPerTarget'
    BY <1>2 DEF Inv, TypeOK, OneLeaderPerTarget, Leads, Wake, Goto
  <2> QED
    BY <2>1, <2>2 DEF Inv
<1>3. CASE TakeTurn(c)
  <2>1. TypeOK'
    BY <1>3 DEF Inv, TypeOK, TakeTurn, Goto, Points
  <2>2. OneLeaderPerTarget'
    BY <1>3 DEF Inv, TypeOK, OneLeaderPerTarget, Leads, TakeTurn, Goto
  <2> QED
    BY <2>1, <2>2 DEF Inv
<1>4. CASE RunEnds(c)
  <2>1. TypeOK'
    BY <1>4 DEF Inv, TypeOK, RunEnds, Goto, Points
  <2>2. OneLeaderPerTarget'
    BY <1>4 DEF Inv, TypeOK, OneLeaderPerTarget, Leads, RunEnds, Goto
  <2> QED
    BY <2>1, <2>2 DEF Inv
<1> QED
  BY <1>1, <1>2, <1>3, <1>4

\* A call becomes a leader only when the table still lists nobody.
LEMMA InsertInv ==
  ASSUME Inv, NEW c \in Calls, Insert(c)
  PROVE  Inv'
<1>1. pc[c] = "insert" /\ target[c] \in Targets
  BY DEF Insert, Inv, TypeOK
<1>2. CASE FoundAgain(c) # None
  <2>1. TypeOK'
    BY <1>1, <1>2 DEF Inv, TypeOK, Insert, FoundAgain, Goto, Points
  <2>2. OneLeaderPerTarget'
    BY <1>1, <1>2 DEF Inv, TypeOK, OneLeaderPerTarget, Leads, Insert, Goto
  <2> QED
    BY <2>1, <2>2 DEF Inv
<1>3. CASE FoundAgain(c) = None
  <2>1. /\ listed' = [listed EXCEPT ![target[c]] = c] /\ turn' = Append(turn, c)
        /\ pc' = [pc EXCEPT ![c] = "queued"]
        /\ UNCHANGED <<mode, value, target, rx, got, over>>
    BY <1>3 DEF Insert, Goto
  <2>2. TypeOK'
    BY <1>1, <2>1 DEF Inv, TypeOK, Points
  <2>3. ASSUME NEW d \in Calls, Leads(d)' PROVE listed'[target'[d]] = d
    <3>1. CASE d = c
      BY <1>1, <2>1, <3>1 DEF Inv, TypeOK
    <3>2. CASE d # c
      <4>1. Leads(d) /\ target[d] \in Targets
        BY <2>1, <2>3, <3>2 DEF Leads, Inv, TypeOK
      <4>2. listed[target[d]] = d /\ listed[target[c]] = None
        BY <1>3, <4>1 DEF Inv, OneLeaderPerTarget, FoundAgain
      <4>3. target[d] # target[c]
        BY <4>2, NamesAssumption
      <4> QED
        BY <1>1, <2>1, <4>1, <4>2, <4>3 DEF Inv, TypeOK
    <3> QED
      BY <3>1, <3>2
  <2> QED
    BY <2>2, <2>3 DEF Inv, OneLeaderPerTarget
<1> QED
  BY <1>2, <1>3

\* A leader that is done removes its own entry and nobody else's.
LEMMA RemoveInv ==
  ASSUME Inv, NEW c \in Calls, Remove(c)
  PROVE  Inv'
<1>1. /\ pc[c] = "removing" /\ target[c] \in Targets /\ Leads(c)
      /\ listed' = [listed EXCEPT ![target[c]] = None]
      /\ pc' = [pc EXCEPT ![c] = "answered"]
      /\ got' = [got EXCEPT ![c] = c] /\ turn' = Released(c)
      /\ UNCHANGED <<mode, value, target, rx, over>>
  BY DEF Remove, Goto, Unlisted, Leads, Inv, TypeOK
<1>2. Released(c) \in Seq(Calls \cup {Scheduler})
  BY ReleasedType DEF Inv, TypeOK
<1>3. TypeOK'
  BY <1>1, <1>2 DEF Inv, TypeOK, Points
<1>4. ASSUME NEW d \in Calls, Leads(d)' PROVE listed'[target'[d]] = d
  <2>1. d # c /\ Leads(d) /\ target[d] \in Targets
    BY <1>1, <1>4 DEF Leads, Inv, TypeOK
  <2>2. listed[target[d]] = d /\ listed[target[c]] = c
    BY <1>1, <2>1 DEF Inv, OneLeaderPerTarget
  <2> QED
    BY <1>1, <2>1, <2>2 DEF Inv, TypeOK
<1> QED
  BY <1>3, <1>4 DEF Inv, OneLeaderPerTarget

\* A call that is dropped leads no more, whatever it leaves in the table.
LEMMA HangUpInv ==
  ASSUME Inv, NEW c \in Calls, HangUp(c)
  PROVE  Inv'
<1>1. Released(c) \in Seq(Calls \cup {Scheduler})
  BY ReleasedType DEF Inv, TypeOK
<1>2. TypeOK'
  BY <1>1 DEF Inv, TypeOK, HangUp, Goto, Points
<1>3. OneLeaderPerTarget'
  BY DEF Inv, TypeOK, OneLeaderPerTarget, Leads, HangUp, Goto
<1> QED
  BY <1>2, <1>3 DEF Inv

\* The scheduler lists nothing in the table.
LEMMA ScheduleInv ==
  ASSUME Inv, ScheduleQueue \/ ScheduleRun \/ ScheduleEnd
  PROVE  Inv'
<1>1. /\ \E p \in {"new", "queued", "running"} : pc' = [pc EXCEPT ![Scheduler] = p]
      /\ UNCHANGED <<mode, listed, value, target, rx, got, over>>
  BY DEF ScheduleQueue, ScheduleRun, ScheduleEnd, Goto
<1>2. turn' \in Seq(Calls \cup {Scheduler})
  <2>1. turn \in Seq(Calls \cup {Scheduler}) /\ Released(Scheduler) \in Seq(Calls \cup {Scheduler})
    BY ReleasedType DEF Inv, TypeOK
  <2> QED
    BY <2>1 DEF ScheduleQueue, ScheduleRun, ScheduleEnd
<1>3. \A c \in Calls : pc'[c] = pc[c]
  BY <1>1, NamesAssumption DEF Inv, TypeOK
<1>4. TypeOK'
  BY <1>1, <1>2, <1>3 DEF Inv, TypeOK, Points
<1>5. OneLeaderPerTarget'
  BY <1>1, <1>3 DEF Inv, OneLeaderPerTarget, Leads
<1> QED
  BY <1>4, <1>5 DEF Inv

\* Every step keeps the invariant.
LEMMA NextInv == Inv /\ [Next]_vars => Inv'
<1> SUFFICES ASSUME Inv, [Next]_vars PROVE Inv'
  OBVIOUS
<1>1. ASSUME NEW c \in Calls, NEW t \in Targets, Begin(c, t) PROVE Inv'
  BY <1>1, BeginInv
<1>2. ASSUME NEW c \in Calls, Advance(c) \/ HangUp(c) PROVE Inv'
  BY <1>2, WaitInv, InsertInv, RemoveInv, HangUpInv DEF Advance
<1>3. CASE ScheduleQueue \/ ScheduleRun \/ ScheduleEnd
  BY <1>3, ScheduleInv
<1>4. CASE UNCHANGED vars
  BY <1>4 DEF vars, Inv, TypeOK, OneLeaderPerTarget, Leads
<1> QED
  BY <1>1, <1>2, <1>3, <1>4 DEF Next

(***************************************************************************)
(* Type correctness of the refresh gate.                                   *)
(***************************************************************************)
THEOREM TypeCorrect == Spec => []TypeOK
<1>1. Inv => TypeOK
  BY DEF Inv
<1> QED
  BY <1>1, InitInv, NextInv, PTL DEF Spec

(***************************************************************************)
(* Cache::refresh lets one call at a time lead the run of a target, for    *)
(* any number of calls and with hang-ups at every await.                   *)
(***************************************************************************)
THEOREM LeadersAreListed == Spec => []OneLeaderPerTarget
<1>1. Inv => OneLeaderPerTarget
  BY DEF Inv
<1> QED
  BY <1>1, InitInv, NextInv, PTL DEF Spec

-----------------------------------------------------------------------------
(***************************************************************************)
(* What is listed is the leader of a run that goes on, or one whose client *)
(* hung up; so is what a call waits for or was answered with.              *)
(***************************************************************************)
Left(c) == pc[c] = "gone"

ListedLead ==
    \A t \in Targets : listed[t] # None =>
        (Leads(listed[t]) \/ Left(listed[t])) /\ target[listed[t]] = t

CallShares(c) ==
    /\ \A d \in over[c] : Returned(d)
    /\ c \notin over[c]
    /\ pc[c] = "waiting" => rx[c] \notin over[c] \/ Left(rx[c])
    /\ got[c] # None => /\ pc[c] = "answered" /\ got[c] \in Calls
                        /\ got[c] \notin over[c] \/ Left(got[c])

ShareInv == ListedLead /\ \A c \in Calls : CallShares(c)

\* A step of call c after it began: the others notice at most its return.
LEMMA ShareStep ==
  ASSUME Inv, ShareInv, NEW c \in Calls, over' = over,
         \A d \in Calls : d # c => pc'[d] = pc[d] /\ rx'[d] = rx[d] /\ got'[d] = got[d],
         ~Returned(c),
         ListedLead',
         pc'[c] = "waiting" => rx'[c] \notin over[c] \/ pc'[rx'[c]] = "gone",
         got'[c] # None => /\ pc'[c] = "answered" /\ got'[c] \in Calls
                           /\ got'[c] \notin over[c] \/ pc'[got'[c]] = "gone"
  PROVE  ShareInv'
<1>1. over \in [Calls -> SUBSET Calls] /\ TypeOK
  BY DEF Inv, TypeOK
<1>2. \A d \in Calls : (Returned(d) => d # c /\ Returned(d)') /\ (Left(d) => Left(d)')
  BY DEF Returned, Left
<1>3. ASSUME NEW d \in Calls PROVE CallShares(d)'
  <2>1. CallShares(d)
    BY DEF ShareInv
  <2>2. \A e \in over[d] : Returned(e)'
    BY <1>1, <1>2, <2>1 DEF CallShares
  <2>3. CASE d = c
    BY <2>1, <2>2, <2>3 DEF CallShares, Left
  <2>4. CASE d # c
    <3>1. pc'[d] = pc[d] /\ rx'[d] = rx[d] /\ got'[d] = got[d]
      BY <2>4
    <3>2. pc[d] = "waiting" => rx[d] \notin over[d] \/ pc'[rx[d]] = "gone"
      BY <1>1, <1>2, <2>1 DEF CallShares, TypeOK, Left
    <3>3. got[d] # None => got[d] \notin over[d] \/ pc'[got[d]] = "gone"
      BY <1>2, <2>1 DEF CallShares, Left
    <3> QED
      BY <2>1, <2>2, <3>1, <3>2, <3>3 DEF CallShares, Left
  <2> QED
    BY <2>3, <2>4
<1> QED
  BY <1>3 DEF ShareInv

\* Every step keeps ShareInv.
LEMMA NextShareInv ==
  ASSUME Inv, ShareInv, [Next]_vars
  PROVE  ShareInv'
<1>1. TypeOK /\ OneLeaderPerTarget
  BY DEF Inv
<1>2. \A t \in Targets : listed[t] # None =>
          /\ Leads(listed[t]) \/ Left(listed[t])
          /\ listed[t] \in Calls /\ target[listed[t]] = t
          /\ ~Returned(listed[t]) \/ Left(listed[t])
  BY <1>1 DEF ShareInv, ListedLead, TypeOK, Leads, Left, Returned
<1>3. \A c, d \in Calls : d \in over[c] => Returned(d)
  BY DEF ShareInv, CallShares
<1>4. ASSUME NEW c \in Calls, NEW t \in Targets, Begin(c, t) PROVE ShareInv'
  <2>1. /\ pc[c] = "new" /\ UNCHANGED <<listed, rx, got>>
        /\ over' = [over EXCEPT ![c] = {d \in Calls : Returned(d)}]
        /\ \A d \in Calls : d # c => pc'[d] = pc[d] /\ target'[d] = target[d]
        /\ pc'[c] \in {"refused", "check"}
    BY <1>4, <1>1, NamesAssumption DEF Begin, Goto, TypeOK
  <2>2. \A d \in Calls : d # c => 
            (Returned(d) => Returned(d)') /\ (Leads(d) => Leads(d)') /\ (Left(d) => Left(d)')
    BY <2>1 DEF Returned, Leads, Left
  <2>3. ~Returned(c) /\ ~Leads(c) /\ ~Left(c)
    BY <2>1 DEF Returned, Leads, Left
  <2>4. ListedLead'
    BY <1>2, <2>1, <2>2, <2>3 DEF ListedLead
  <2>5. ASSUME NEW d \in Calls PROVE CallShares(d)'
    <3>1. CallShares(d)
      BY DEF ShareInv
    <3>2. CASE d = c
      <4>1. over'[c] = {e \in Calls : Returned(e)}
        BY <1>1, <2>1 DEF TypeOK
      <4>2. got[c] = None
        BY <2>1, <3>1, <3>2 DEF CallShares
      <4> QED
        BY <2>1, <2>2, <2>3, <3>2, <4>1, <4>2 DEF CallShares
    <3>3. CASE d # c
      <4>1. over'[d] = over[d] /\ over[d] \subseteq Calls
        BY <1>1, <2>1, <3>3 DEF TypeOK
      <4>2. \A e \in over[d] : Returned(e)'
        BY <2>2, <2>3, <3>1, <4>1 DEF CallShares
      <4>3. pc'[d] = pc[d] /\ rx'[d] = rx[d] /\ got'[d] = got[d]
        BY <2>1, <3>3
      <4>4. pc[d] = "waiting" => rx[d] \notin over[d] \/ pc'[rx[d]] = "gone"
        BY <1>1, <2>2, <2>3, <3>1 DEF CallShares, TypeOK, Left
      <4>5. got[d] # None => got[d] \notin over[d] \/ pc'[got[d]] = "gone"
        BY <2>2, <2>3, <3>1 DEF CallShares, Left
      <4> QED
        BY <3>1, <4>1, <4>2, <4>3, <4>4, <4>5 DEF CallShares, Left
    <3> QED
      BY <3>2, <3>3
  <2> QED
    BY <2>4, <2>5 DEF ShareInv
<1>5. ASSUME NEW c \in Calls, Advance(c) PROVE ShareInv'
  <2>1. /\ over' = over /\ target' = target /\ ~Returned(c)
        /\ \A d \in Calls : d # c => pc'[d] = pc[d] /\ rx'[d] = rx[d] /\ got'[d] = got[d]
        /\ \A d \in Calls : d # c => Leads(d)' = Leads(d) /\ Left(d)' = Left(d)
        /\ ~Left(c)
    BY <1>5, <1>1 DEF Advance, Check, Insert, Wake, TakeTurn, RunEnds, Remove, Goto,
                      Returned, TypeOK, Leads, Left
  <2>2. CallShares(c) /\ (got[c] # None => Returned(c))
    BY DEF ShareInv, CallShares, Returned
  <2>3. got[c] = None
    BY <2>1, <2>2
  <2>4. target[c] \in Targets
    BY <1>5, <1>1 DEF Advance, Check, Insert, Wake, TakeTurn, RunEnds, Remove, TypeOK
  <2>5. ListedLead'
    <3>1. CASE listed' = listed /\ (Leads(c) => Leads(c)')
      BY <1>2, <2>1, <3>1 DEF ListedLead
    <3>2. CASE listed' = [listed EXCEPT ![target[c]] = c] /\ pc'[c] = "queued"
      BY <1>1, <1>2, <2>1, <2>4, <3>2 DEF ListedLead, Leads, TypeOK
    <3>3. CASE Remove(c)
      <4>1. listed' = [listed EXCEPT ![target[c]] = None] /\ Leads(c)
        BY <3>3 DEF Remove, Unlisted, Leads
      <4>2. listed[target[c]] = c
        BY <1>1, <4>1 DEF OneLeaderPerTarget
      <4>3. \A t \in Targets : t # target[c] => listed'[t] = listed[t] /\ listed[t] # c
        BY <1>1, <1>2, <2>4, <4>1, NamesAssumption DEF TypeOK
      <4> QED
        BY <1>1, <1>2, <2>1, <2>4, <4>1, <4>3 DEF ListedLead, TypeOK
    <3>4. pc'[c] # pc[c] /\ pc' = [pc EXCEPT ![c] = pc'[c]]
      BY <1>5, <1>1 DEF Advance, Check, Insert, Wake, TakeTurn, RunEnds, Remove, Goto, TypeOK
    <3>5. CASE Check(c)
      BY <3>1, <3>5 DEF Check, Leads
    <3>6. CASE Insert(c)
      <4>1. CASE FoundAgain(c) # None
        BY <3>1, <3>6, <4>1 DEF Insert, Leads
      <4>2. CASE FoundAgain(c) = None
        BY <1>1, <3>2, <3>6, <4>2 DEF Insert, Goto, TypeOK
      <4> QED
        BY <4>1, <4>2
    <3>7. CASE Wake(c)
      BY <3>1, <3>7 DEF Wake, Leads
    <3>8. CASE TakeTurn(c) \/ RunEnds(c)
      BY <1>1, <3>1, <3>8 DEF TakeTurn, RunEnds, Goto, Leads, TypeOK
    <3> QED
      BY <1>5, <3>3, <3>5, <3>6, <3>7, <3>8 DEF Advance
  <2>6. pc'[c] = "waiting" => rx'[c] \notin over[c] \/ pc'[rx'[c]] = "gone"
    <3>1. ASSUME pc'[c] = "waiting" PROVE rx'[c] = listed[target[c]] /\ listed[target[c]] # None
      BY <1>1, <1>5, <3>1 DEF Advance, Check, Insert, Wake, TakeTurn, RunEnds, Remove, Goto,
                              FoundAgain, TypeOK
    <3>2. listed[target[c]] # None =>
              listed[target[c]] \notin over[c] \/ pc'[listed[target[c]]] = "gone"
      BY <1>2, <1>3, <2>1, <2>4 DEF Left
    <3> QED
      BY <3>1, <3>2 DEF Left
  <2>7. got'[c] # None => /\ pc'[c] = "answered" /\ got'[c] \in Calls
                          /\ got'[c] \notin over[c] \/ pc'[got'[c]] = "gone"
    <3>1. CASE got' = got
      BY <2>3, <3>1
    <3>2. CASE Wake(c) /\ got' # got
      <4>1. pc[c] = "waiting" /\ rx[c] \in Calls /\ got'[c] = rx[c] /\ pc'[c] = "answered"
        BY <1>1, <3>2 DEF Wake, Goto, TypeOK
      <4>2. rx[c] \notin over[c] \/ pc'[rx[c]] = "gone"
        BY <2>1, <2>2, <4>1 DEF CallShares, Left
      <4> QED
        BY <4>1, <4>2
    <3>3. CASE Remove(c)
      BY <1>1, <2>2, <3>3 DEF Remove, Goto, CallShares, TypeOK
    <3> QED
      BY <1>5, <3>1, <3>2, <3>3 DEF Advance, Check, Insert, Wake, TakeTurn, RunEnds
  <2> QED
    BY <2>1, <2>5, <2>6, <2>7, ShareStep
<1>6. CASE ScheduleQueue \/ ScheduleRun \/ ScheduleEnd
  <2>1. UNCHANGED <<listed, target, rx, got, over>> /\ \A c \in Calls : pc'[c] = pc[c]
    BY <1>1, <1>6, NamesAssumption DEF ScheduleQueue, ScheduleRun, ScheduleEnd, Goto, TypeOK
  <2>2. ListedLead'
    BY <1>2, <2>1 DEF ListedLead, Leads, Left
  <2>3. ASSUME NEW c \in Calls PROVE CallShares(c)'
    BY <1>1, <2>1 DEF ShareInv, CallShares, Returned, Left, TypeOK
  <2> QED
    BY <2>2, <2>3 DEF ShareInv
<1>7. CASE UNCHANGED vars
  BY <1>7 DEF vars, ShareInv, ListedLead, CallShares, Leads, Left, Returned
<1>8. ASSUME NEW c \in Calls, HangUp(c) PROVE ShareInv'
  <2>1. /\ UNCHANGED <<listed, target, rx, got, over>> /\ ~Returned(c)
        /\ pc'[c] = "gone" /\ \A d \in Calls : d # c => pc'[d] = pc[d]
    BY <1>1, <1>8 DEF HangUp, Goto, Returned, TypeOK
  <2>2. \A d \in Calls : Left(d) => Left(d)'
    BY <2>1 DEF Left
  <2>3. ListedLead'
    BY <1>2, <2>1, <2>2 DEF ListedLead, Leads, Left
  <2>4. got[c] = None
    BY <2>1 DEF ShareInv, CallShares, Returned
  <2> QED
    BY <2>1, <2>3, <2>4, ShareStep
<1> QED
  BY <1>4, <1>5, <1>6, <1>7, <1>8 DEF Next

(***************************************************************************)
(* A call of /refresh is answered with the result of a run whose leader    *)
(* had not returned when the call began, unless that leader's client hung  *)
(* up (refresh, wait_refresh_result).                                      *)
(***************************************************************************)
THEOREM SharesUnlessLeaderLeft == Spec => []SharesUnlessLeft
<1>1. Init => ShareInv
  BY DEF Init, ShareInv, ListedLead, CallShares
<1>2. Inv /\ ShareInv /\ [Next]_vars => ShareInv'
  BY NextShareInv
<1>3. ShareInv => SharesUnlessLeft
  BY DEF ShareInv, CallShares, SharesUnlessLeft, Left
<1> QED
  BY <1>1, <1>2, <1>3, InitInv, NextInv, PTL DEF Spec

-----------------------------------------------------------------------------
(* The documents (Collateral) *)

\* What may come of a request for a document.
Outcomes == {"none", "ok", "unchained", "failed"}

\* The types.
DocTypes ==
    /\ cacheMode \in CacheModes
    /\ doc \in [Docs -> Issues \cup {Nothing}]
    /\ lock \in [Docs -> Jobs \cup {Nothing}]
    /\ kind \in [Jobs -> Kinds]
    /\ at \in [Jobs -> DocPoints]
    /\ cur \in [Jobs -> Docs \cup {Nothing}]
    /\ todo \in [Jobs -> SUBSET Docs]
    /\ stage \in [Jobs -> 0..5]
    /\ had \in [Jobs -> BOOLEAN]
    /\ sent \in [Jobs -> [Docs -> Issues \cup {Nothing}]]
    /\ outcome \in [Jobs -> [Docs -> Outcomes]]
    /\ brought \in [Jobs -> [Docs -> Issues \cup {Nothing}]]
    /\ wrote \in [Jobs -> SUBSET Docs]
    /\ since \in [Jobs -> SUBSET Docs]
    /\ present \in [Jobs -> SUBSET Docs]

\* What a task can be at each point, and what it holds there.
PlaceOK(j) ==
    /\ at[j] = "new" => kind[j] = "none" /\ stage[j] = 0
    /\ at[j] = "pools" => kind[j] = "put"
    /\ at[j] = "wait" => kind[j] = "get"
    /\ at[j] \in {"asked", "answered"} => kind[j] \in {"get", "register", "fill", "refresh"}
    /\ at[j] \in {"wait", "asked", "answered"} => cur[j] \in Docs
    /\ at[j] = "publish" => kind[j] = "register"
    /\ at[j] = "answered" =>
           kind[j] # "register" /\ outcome[j][cur[j]] = "ok"
           /\ sent[j][cur[j]] # Nothing /\ sent[j][cur[j]] = brought[j][cur[j]]

\* A task that asks for a document holds no earlier answer for it.
HoldsOK(j) ==
    /\ kind[j] = "put" => \A d \in todo[j] : sent[j][d] # Nothing
    /\ /\ kind[j] \in {"none", "get", "fill", "refresh"}
       /\ at[j] \in {"new", "wait", "next", "asked"}
       => \A d \in Docs : sent[j][d] = Nothing
    /\ at[j] = "answered" => \A d \in Docs \ {cur[j]} : sent[j][d] = Nothing
    /\ kind[j] = "register" /\ at[j] \in {"next", "asked"} => \A d \in todo[j] : sent[j][d] = Nothing
    /\ kind[j] = "register" /\ at[j] = "asked" => cur[j] \notin todo[j]

\* What the upstream answered with, or Nothing.
Answered(j, d) == IF outcome[j][d] = "ok" THEN brought[j][d] ELSE Nothing

\* A registration has stored its TCB infos, and the standard one was answered.
Registered(j) ==
    /\ outcome[j][Standard] # "failed"
    /\ \A d \in Tcbs : outcome[j][d] = "ok" => Kept(j, d)

\* A registration holds back what it was answered, and asks once for each TCB info;
\* when it is done, or goes on as a fill, its TCB infos are behind it.
StagedOK(j) ==
    /\ at[j] = "new" => wrote[j] = {} /\ \A d \in Docs : outcome[j][d] = "none"
    /\ kind[j] = "register" /\ at[j] # "done" =>
           /\ wrote[j] = {} /\ todo[j] \subseteq Tcbs
           /\ at[j] = "asked" => cur[j] \in Tcbs
           /\ at[j] \in {"next", "asked", "publish"} =>
                  \A d \in Docs : /\ sent[j][d] = Answered(j, d)
                                  /\ outcome[j][d] = "ok" => brought[j][d] # Nothing
                                  /\ d \in todo[j] => outcome[j][d] = "none"
                                  /\ at[j] = "asked" /\ cur[j] = d => outcome[j][d] = "none"
           /\ at[j] = "publish" => outcome[j][Standard] \in {"ok", "unchained"}
    /\ kind[j] = "register" /\ at[j] = "done" => Registered(j)
    /\ kind[j] = "fill" =>
           /\ todo[j] \cap Tcbs = {}
           /\ at[j] \in {"asked", "answered"} => cur[j] \notin Tcbs
           /\ outcome[j][Standard] # "none" => Registered(j)

\* A GET and a fill asked for a document that was missing.
MissingOK(j) ==
    kind[j] \in {"get", "fill"} /\ at[j] \in {"asked", "answered"} /\ doc[cur[j]] # Nothing =>
        cur[j] \in since[j]

\* A refresh is done with a document.
Covered(j, d) ==
    /\ outcome[j][d] \in {"ok", "unchained"} \/ (d \in Identities /\ outcome[j][d] = "failed")
    /\ outcome[j][d] = "ok" => Kept(j, d)

\* It still has it ahead, in the loop it is in or in a later one.
Ahead(j, d) == d \in todo[j] \/ \E n \in 1..5 : stage[j] < n /\ d \in Stages[n]

\* It is waiting for it.
AtIt(j, d) == at[j] \in {"asked", "answered"} /\ cur[j] = d

\* No cached document is forgotten by a refresh, and one that was cached stays so:
\* its failure is not taken for that of a root CA CRL that was never there.
RefreshOK(j) ==
    kind[j] = "refresh" /\ at[j] \in {"next", "asked", "answered", "done"} =>
        \A d \in present[j] :
               /\ doc[d] # Nothing
               /\ at[j] = "asked" /\ cur[j] = d => had[j]
               /\ Covered(j, d) \/ AtIt(j, d) \/ (at[j] # "done" /\ Ahead(j, d))

\* What holds of every task ...
TaskOK(j) == PlaceOK(j) /\ HoldsOK(j) /\ StagedOK(j) /\ MissingOK(j) /\ RefreshOK(j)

\* ... is, with the types, inductive.
DocInv == DocTypes /\ \A j \in Jobs : TaskOK(j)

-----------------------------------------------------------------------------
\* What a step of another task may do to task k.
Apart(k) ==
    /\ kind'[k] = kind[k] /\ at'[k] = at[k] /\ cur'[k] = cur[k] /\ todo'[k] = todo[k]
    /\ stage'[k] = stage[k] /\ had'[k] = had[k] /\ sent'[k] = sent[k]
    /\ outcome'[k] = outcome[k] /\ brought'[k] = brought[k] /\ wrote'[k] = wrote[k]
    /\ present'[k] = present[k]
    /\ since[k] \subseteq since'[k]
    /\ \A d \in Docs : doc'[d] # doc[d] => d \in since'[k] /\ doc'[d] # Nothing

LEMMA TcbDocs == Tcbs \subseteq Docs /\ Standard \in Tcbs
  BY TcbsAssumption DEF Docs

\* What holds of a task survives such a step.
LEMMA ApartOK ==
  ASSUME DocTypes, DocTypes', NEW k \in Jobs, TaskOK(k), Apart(k)
  PROVE  TaskOK(k)'
<1>1. PlaceOK(k)'
  BY DEF TaskOK, PlaceOK, Apart
<1>2. HoldsOK(k)'
  BY DEF TaskOK, HoldsOK, Apart
<1>3. StagedOK(k)'
  <2>1. \A d \in Docs : Kept(k, d) => Kept(k, d)'
    BY DEF Kept, Apart
  <2>2. \A d \in Docs : Answered(k, d)' = Answered(k, d)
    BY DEF Answered, Apart
  <2>3. Registered(k) => Registered(k)'
    BY <2>1, TcbDocs DEF Registered, Apart
  <2> QED
    BY <2>2, <2>3 DEF TaskOK, StagedOK, Apart
<1>4. MissingOK(k)'
  BY DEF TaskOK, MissingOK, PlaceOK, Apart, DocTypes
<1>5. RefreshOK(k)'
  <2> SUFFICES ASSUME kind[k] = "refresh", at[k] \in {"next", "asked", "answered", "done"}
               PROVE  RefreshOK(k)'
    BY DEF RefreshOK, Apart
  <2>2. ASSUME NEW d \in present'[k]
        PROVE  /\ doc'[d] # Nothing
               /\ at'[k] = "asked" /\ cur'[k] = d => had'[k]
               /\ Covered(k, d)' \/ AtIt(k, d)' \/ (at'[k] # "done" /\ Ahead(k, d)')
    <3>1. d \in present[k] /\ d \in Docs
      BY <2>2 DEF Apart, DocTypes
    <3>2. doc'[d] # Nothing /\ (at'[k] = "asked" /\ cur'[k] = d => had'[k])
      BY <3>1 DEF TaskOK, RefreshOK, Apart
    <3>3. Covered(k, d) => Covered(k, d)'
      BY <3>1 DEF Covered, Kept, Apart
    <3>4. AtIt(k, d) => AtIt(k, d)'
      BY DEF AtIt, Apart
    <3>5. Ahead(k, d) => Ahead(k, d)'
      BY DEF Ahead, Apart, Stages
    <3> QED
      BY <3>1, <3>2, <3>3, <3>4, <3>5 DEF TaskOK, RefreshOK, Apart
  <2> QED
    BY <2>2 DEF RefreshOK
<1> QED
  BY <1>1, <1>2, <1>3, <1>4, <1>5 DEF TaskOK

\* A request that goes out leaves a task at it.
LEMMA AskTypes ==
  ASSUME DocTypes, NEW j \in Jobs, NEW d \in Docs, Ask(j, d)
  PROVE  /\ at' \in [Jobs -> DocPoints] /\ cur' \in [Jobs -> Docs \cup {Nothing}]
         /\ had' \in [Jobs -> BOOLEAN] /\ since' \in [Jobs -> SUBSET Docs]
  BY DEF DocTypes, Ask, MoveTo, DocPoints

\* What task k sees of documents S that another task stores.
Seen(k, S) ==
    /\ wrote'[k] = wrote[k] /\ since'[k] = since[k] \cup S
    /\ \A d \in Docs : doc'[d] # doc[d] => d \in since'[k] /\ doc'[d] # Nothing

\* Storing documents: what it does to the store, and what others can see of it.
LEMMA PutDocs ==
  ASSUME DocTypes, NEW j \in Jobs, NEW S \in SUBSET Docs, NEW f,
         \A d \in S : f[d] \in Issues, Put(j, S, f)
  PROVE  /\ doc' \in [Docs -> Issues \cup {Nothing}]
         /\ wrote' \in [Jobs -> SUBSET Docs] /\ since' \in [Jobs -> SUBSET Docs]
         /\ \A d \in Docs : doc'[d] = IF d \in S THEN f[d] ELSE doc[d]
         /\ wrote'[j] = wrote[j] \cup S /\ since'[j] = since[j]
<1>1. \A d \in Docs : doc'[d] = IF d \in S THEN f[d] ELSE doc[d]
  BY DEF Put
<1>2. doc' \in [Docs -> Issues \cup {Nothing}]
  BY <1>1 DEF Put, DocTypes
<1>3. wrote' \in [Jobs -> SUBSET Docs] /\ wrote'[j] = wrote[j] \cup S
      /\ \A k \in Jobs \ {j} : wrote'[k] = wrote[k]
  BY DEF Put, DocTypes
<1>4. since' \in [Jobs -> SUBSET Docs] /\ since'[j] = since[j]
      /\ \A k \in Jobs \ {j} : since'[k] = since[k] \cup S
  BY DEF Put, DocTypes
<1> QED
  BY <1>1, <1>2, <1>3, <1>4

\* The others count the documents among those stored since they asked.
LEMMA PutSeen ==
  ASSUME DocTypes, NEW j \in Jobs, NEW S \in SUBSET Docs, NEW f,
         \A d \in S : f[d] \in Issues, Put(j, S, f),
         NEW k \in Jobs, k # j
  PROVE  Seen(k, S)
<1>1. \A d \in Docs : doc'[d] = IF d \in S THEN f[d] ELSE doc[d]
  BY DEF Put
<1>2. wrote'[k] = wrote[k] /\ since'[k] = since[k] \cup S
  BY DEF Put, DocTypes
<1> QED
  BY <1>1, <1>2, NothingAssumption DEF Seen

\* A GET arrives.
LEMMA GetKeeps ==
  ASSUME DocTypes, NEW j \in Jobs, TaskOK(j), NEW d \in Docs, Get(j, d)
  PROVE  DocTypes' /\ TaskOK(j)' /\ \A k \in Jobs \ {j} : Apart(k)
<1>1. DocTypes'
  BY DEF DocTypes, Get, MoveTo, Become, loop, history, Kinds, DocPoints
<1>2. PlaceOK(j)'
  BY DEF DocTypes, TaskOK, PlaceOK, Get, MoveTo, Become, loop, history
<1>3. HoldsOK(j)'
  BY DEF DocTypes, TaskOK, PlaceOK, HoldsOK, Get, MoveTo, Become, loop, history
<1>4. StagedOK(j)'
  BY DEF DocTypes, TaskOK, PlaceOK, StagedOK, HoldsOK, Get, MoveTo, Become, loop, history,
     Answered, Registered, Kept, Docs
<1>5. MissingOK(j)'
  BY DEF DocTypes, TaskOK, PlaceOK, MissingOK, Get, MoveTo, Become, loop, history
<1>6. RefreshOK(j)'
  BY DEF DocTypes, TaskOK, PlaceOK, RefreshOK, Get, MoveTo, Become, loop, history
<1>7. \A k \in Jobs \ {j} : Apart(k)
  BY DEF DocTypes, Apart, Get, MoveTo, Become, loop, history
<1> QED
  BY <1>1, <1>2, <1>3, <1>4, <1>5, <1>6, <1>7 DEF TaskOK

\* A GET under the key lock asks only for what is missing.
LEMMA GetLockedKeeps ==
  ASSUME DocTypes, NEW j \in Jobs, TaskOK(j), GetLocked(j)
  PROVE  DocTypes' /\ TaskOK(j)' /\ \A k \in Jobs \ {j} : Apart(k)
<1>1. DocTypes'
  <2>1. cur[j] \in Docs
    BY DEF TaskOK, PlaceOK, GetLocked, heard
  <2>2. at' \in [Jobs -> DocPoints] /\ cur' \in [Jobs -> Docs \cup {Nothing}]
        /\ had' \in [Jobs -> BOOLEAN] /\ since' \in [Jobs -> SUBSET Docs]
        /\ lock' \in [Docs -> Jobs \cup {Nothing}]
    <3>1. CASE Ask(j, cur[j]) /\ lock' = [lock EXCEPT ![cur[j]] = j]
      BY <2>1, <3>1, AskTypes DEF DocTypes
    <3>2. CASE UNCHANGED <<lock, cur, had, since>> /\ (MoveTo(j, "done") \/ MoveTo(j, "error"))
      BY <3>2 DEF DocTypes, MoveTo, DocPoints
    <3> QED
      BY <3>1, <3>2 DEF GetLocked, heard
  <2> QED
    BY <2>2 DEF DocTypes, GetLocked, heard
<1>2. PlaceOK(j)'
  BY DEF DocTypes, TaskOK, PlaceOK, GetLocked, Ask, FoundLocked, MoveTo, heard
<1>3. HoldsOK(j)'
  BY DEF DocTypes, TaskOK, PlaceOK, HoldsOK, GetLocked, Ask, FoundLocked, MoveTo, heard
<1>4. StagedOK(j)'
  BY DEF DocTypes, TaskOK, PlaceOK, StagedOK, HoldsOK, GetLocked, Ask, FoundLocked, MoveTo,
     heard, Answered, Registered, Kept, Docs
<1>5. MissingOK(j)'
  BY DEF DocTypes, TaskOK, PlaceOK, MissingOK, GetLocked, Ask, FoundLocked, MoveTo, heard
<1>6. RefreshOK(j)'
  BY DEF DocTypes, TaskOK, PlaceOK, RefreshOK, GetLocked, Ask, FoundLocked, MoveTo, heard
<1>7. \A k \in Jobs \ {j} : Apart(k)
  BY DEF DocTypes, Apart, GetLocked, Ask, FoundLocked, MoveTo, heard
<1> QED
  BY <1>1, <1>2, <1>3, <1>4, <1>5, <1>6, <1>7 DEF TaskOK

\* The stages are the documents.
LEMMA StagesAreDocs ==
  /\ \A n \in 1..5 : Stages[n] \subseteq Docs
  /\ \A d \in Docs : \E n \in 1..5 : d \in Stages[n]
<1>1. Stages[1] = PckCrls /\ Stages[2] = Tcbs /\ Stages[3] = Identities
      /\ Stages[4] = Roots /\ Stages[5] = Crls
  BY DEF Stages
<1>2. 1..5 = {1, 2, 3, 4, 5}
  OBVIOUS
<1> QED
  BY <1>1, <1>2 DEF Docs

\* The three ways through the loops of a refresh.
RefreshAsks(j) ==
    /\ \E d \in todo[j] : Ask(j, d) /\ todo' = [todo EXCEPT ![j] = @ \ {d}]
    /\ UNCHANGED stage
    /\ RefreshNext(j)

RefreshMoves(j) ==
    /\ todo[j] = {} /\ stage[j] < 5
    /\ stage' = [stage EXCEPT ![j] = @ + 1]
    /\ todo' = [todo EXCEPT ![j] = Scanned(stage[j] + 1)]
    /\ UNCHANGED <<at, cur, had, since>>
    /\ RefreshNext(j)

RefreshEnds(j) ==
    /\ todo[j] = {} /\ stage[j] = 5
    /\ MoveTo(j, "done")
    /\ UNCHANGED <<cur, loop, since>>
    /\ RefreshNext(j)

\* There is no fourth.
LEMMA RefreshNextCases ==
  ASSUME NEW j \in Jobs, RefreshNext(j)
  PROVE  RefreshAsks(j) \/ RefreshMoves(j) \/ RefreshEnds(j)
  BY DEF RefreshNext, RefreshAsks, RefreshMoves, RefreshEnds, heard

\* A registration has its TCB infos before it.
LEMMA RegisterKeeps ==
  ASSUME DocTypes, NEW j \in Jobs, TaskOK(j), Register(j)
  PROVE  DocTypes' /\ TaskOK(j)' /\ \A k \in Jobs \ {j} : Apart(k)
<1>1. DocTypes'
  BY DEF DocTypes, Register, MoveTo, Become, history, Kinds, DocPoints, Docs
<1>2. PlaceOK(j)'
  BY DEF DocTypes, TaskOK, PlaceOK, Register, MoveTo, Become, history
<1>3. HoldsOK(j)'
  <2>1. \A d \in Docs : sent[j][d] = Nothing
    BY DEF TaskOK, PlaceOK, HoldsOK, Register
  <2>2. kind'[j] = "register" /\ at'[j] = "next" /\ todo'[j] = Tcbs /\ sent' = sent
    BY DEF DocTypes, Register, MoveTo, Become
  <2>3. Tcbs \subseteq Docs
    BY DEF Docs
  <2> QED
    BY <2>1, <2>2, <2>3 DEF HoldsOK
<1>4. StagedOK(j)'
  BY DEF DocTypes, TaskOK, PlaceOK, StagedOK, HoldsOK, Register, MoveTo, Become, history,
     Answered, Registered, Kept, Docs
<1>5. MissingOK(j)'
  BY DEF DocTypes, TaskOK, PlaceOK, MissingOK, Register, MoveTo, Become, history
<1>6. RefreshOK(j)'
  BY DEF DocTypes, TaskOK, PlaceOK, RefreshOK, Register, MoveTo, Become, history
<1>7. \A k \in Jobs \ {j} : Apart(k)
  BY DEF DocTypes, Apart, Register, MoveTo, Become, history
<1> QED
  BY <1>1, <1>2, <1>3, <1>4, <1>5, <1>6, <1>7 DEF TaskOK

\* A fill begins.
LEMMA FillKeeps ==
  ASSUME DocTypes, NEW j \in Jobs, TaskOK(j), Fill(j)
  PROVE  DocTypes' /\ TaskOK(j)' /\ \A k \in Jobs \ {j} : Apart(k)
<1>1. DocTypes'
  BY DEF DocTypes, Fill, StartFill, MoveTo, Become, history, Kinds, DocPoints, Docs
<1>2. PlaceOK(j)'
  BY DEF DocTypes, TaskOK, PlaceOK, Fill, StartFill, MoveTo, Become, history
<1>3. HoldsOK(j)'
  BY DEF DocTypes, TaskOK, PlaceOK, HoldsOK, Fill, StartFill, MoveTo, Become, history
<1>4. StagedOK(j)'
  <2>1. /\ kind'[j] = "fill" /\ at'[j] = "next" /\ todo'[j] = PckCrls \cup Identities \cup Roots
        /\ outcome' = outcome /\ outcome[j][Standard] = "none"
    BY TcbDocs DEF DocTypes, TaskOK, StagedOK, Fill, StartFill, MoveTo, Become, history
  <2> QED
    BY <2>1, TcbsAssumption DEF StagedOK
<1>5. MissingOK(j)'
  BY DEF DocTypes, TaskOK, PlaceOK, MissingOK, Fill, StartFill, MoveTo, Become, history
<1>6. RefreshOK(j)'
  BY DEF DocTypes, TaskOK, PlaceOK, RefreshOK, Fill, StartFill, MoveTo, Become, history
<1>7. \A k \in Jobs \ {j} : Apart(k)
  BY DEF DocTypes, Apart, Fill, StartFill, MoveTo, Become, history
<1> QED
  BY <1>1, <1>2, <1>3, <1>4, <1>5, <1>6, <1>7 DEF TaskOK

\* A refresh begins with every stage, and so every cached document, ahead of it.
LEMMA RefreshKeeps ==
  ASSUME DocTypes, NEW j \in Jobs, TaskOK(j), Refresh(j)
  PROVE  DocTypes' /\ TaskOK(j)' /\ \A k \in Jobs \ {j} : Apart(k)
<1>1. DocTypes'
  BY DEF DocTypes, Refresh, MoveTo, Become, loop, history, Kinds, DocPoints, Docs, heard
<1>2. PlaceOK(j)'
  BY DEF DocTypes, TaskOK, PlaceOK, Refresh, MoveTo, Become, loop, history, heard
<1>3. HoldsOK(j)'
  BY DEF DocTypes, TaskOK, PlaceOK, HoldsOK, Refresh, MoveTo, Become, loop, history, heard
<1>4. StagedOK(j)'
  BY DEF DocTypes, TaskOK, PlaceOK, StagedOK, HoldsOK, Refresh, MoveTo, Become, loop, history,
     heard, Answered, Registered, Kept, Docs
<1>5. MissingOK(j)'
  BY DEF DocTypes, TaskOK, PlaceOK, MissingOK, Refresh, MoveTo, Become, loop, history, heard
<1>6. RefreshOK(j)'
  <2>1. kind'[j] = "refresh" /\ at'[j] = "next" /\ stage'[j] = 0 /\ doc' = doc
        /\ present'[j] = {d \in Docs : doc[d] # Nothing}
    BY DEF DocTypes, TaskOK, PlaceOK, Refresh, MoveTo, Become, loop, heard
  <2>2. \A d \in present'[j] : d \in Docs /\ doc'[d] # Nothing
    BY <2>1
  <2>3. \A d \in Docs : Ahead(j, d)'
    BY <2>1, StagesAreDocs DEF Ahead, Stages
  <2> QED
    BY <1>1, <2>1, <2>2, <2>3 DEF RefreshOK, DocTypes
<1>7. \A k \in Jobs \ {j} : Apart(k)
  BY DEF DocTypes, Apart, Refresh, MoveTo, Become, loop, history, heard
<1> QED
  BY <1>1, <1>2, <1>3, <1>4, <1>5, <1>6, <1>7 DEF TaskOK

\* A PUT arrives with its documents.
LEMMA StartPutKeeps ==
  ASSUME DocTypes, NEW j \in Jobs, TaskOK(j), NEW S \in SUBSET Docs, NEW n \in Issues,
         StartPut(j, S, n)
  PROVE  DocTypes' /\ TaskOK(j)' /\ \A k \in Jobs \ {j} : Apart(k)
<1>1. DocTypes'
  BY DEF DocTypes, StartPut, MoveTo, Become, loop, history, Kinds, DocPoints
<1>2. PlaceOK(j)'
  BY DEF DocTypes, TaskOK, PlaceOK, StartPut, MoveTo, Become, loop, history
<1>3. HoldsOK(j)'
  BY NothingAssumption DEF DocTypes, TaskOK, PlaceOK, HoldsOK, StartPut, MoveTo, Become, loop, history
<1>4. StagedOK(j)'
  BY DEF DocTypes, TaskOK, PlaceOK, StagedOK, HoldsOK, StartPut, MoveTo, Become, loop, history,
     Answered, Registered, Kept, Docs
<1>5. MissingOK(j)'
  BY DEF DocTypes, TaskOK, PlaceOK, MissingOK, StartPut, MoveTo, Become, loop, history
<1>6. RefreshOK(j)'
  BY DEF DocTypes, TaskOK, PlaceOK, RefreshOK, StartPut, MoveTo, Become, loop, history
<1>7. \A k \in Jobs \ {j} : Apart(k)
  BY DEF DocTypes, Apart, StartPut, MoveTo, Become, loop, history
<1> QED
  BY <1>1, <1>2, <1>3, <1>4, <1>5, <1>6, <1>7 DEF TaskOK

\* A registration asks for its next TCB info, or goes on to publish them.
LEMMA RegisterNextKeeps ==
  ASSUME DocTypes, NEW j \in Jobs, TaskOK(j), RegisterNext(j)
  PROVE  DocTypes' /\ TaskOK(j)' /\ \A k \in Jobs \ {j} : Apart(k)
<1>1. DocTypes'
  <2>1. at' \in [Jobs -> DocPoints] /\ cur' \in [Jobs -> Docs \cup {Nothing}]
        /\ had' \in [Jobs -> BOOLEAN] /\ since' \in [Jobs -> SUBSET Docs]
        /\ todo' \in [Jobs -> SUBSET Docs]
    <3>1. CASE \E d \in todo[j] : Ask(j, d) /\ todo' = [todo EXCEPT ![j] = @ \ {d}]
      <4>1. PICK d \in todo[j] : Ask(j, d) /\ todo' = [todo EXCEPT ![j] = @ \ {d}]
        BY <3>1
      <4>2. d \in Docs
        BY DEF DocTypes
      <4> QED
        BY <4>1, <4>2, AskTypes DEF DocTypes
    <3>2. CASE /\ MoveTo(j, "publish") \/ MoveTo(j, "error")
               /\ UNCHANGED <<cur, todo, had, since>>
      BY <3>2 DEF DocTypes, MoveTo, DocPoints
    <3> QED
      BY <3>1, <3>2 DEF RegisterNext, heard
  <2> QED
    BY <2>1 DEF DocTypes, RegisterNext, heard
<1>2. PlaceOK(j)'
  BY DEF DocTypes, TaskOK, PlaceOK, RegisterNext, Ask, MoveTo, loop, history, heard
<1>3. HoldsOK(j)'
  BY DEF DocTypes, TaskOK, PlaceOK, HoldsOK, RegisterNext, Ask, MoveTo, loop, history, heard
<1>4. StagedOK(j)'
  BY DEF DocTypes, TaskOK, PlaceOK, StagedOK, HoldsOK, RegisterNext, Ask, MoveTo, loop, history,
     heard, Answered, Registered, Kept, Docs
<1>5. MissingOK(j)'
  BY DEF DocTypes, TaskOK, PlaceOK, MissingOK, RegisterNext, Ask, MoveTo, loop, history, heard
<1>6. RefreshOK(j)'
  BY DEF DocTypes, TaskOK, PlaceOK, RefreshOK, RegisterNext, Ask, MoveTo, loop, history, heard
<1>7. \A k \in Jobs \ {j} : Apart(k)
  BY DEF DocTypes, Apart, RegisterNext, Ask, MoveTo, loop, history, heard
<1> QED
  BY <1>1, <1>2, <1>3, <1>4, <1>5, <1>6, <1>7 DEF TaskOK

\* A fill passes over a document or asks for one that is missing.
LEMMA FillNextKeeps ==
  ASSUME DocTypes, NEW j \in Jobs, TaskOK(j), FillNext(j)
  PROVE  DocTypes' /\ TaskOK(j)' /\ \A k \in Jobs \ {j} : Apart(k)
<1>1. DocTypes'
  <2>1. at' \in [Jobs -> DocPoints] /\ cur' \in [Jobs -> Docs \cup {Nothing}]
        /\ had' \in [Jobs -> BOOLEAN] /\ since' \in [Jobs -> SUBSET Docs]
        /\ todo' \in [Jobs -> SUBSET Docs]
    <3>1. CASE \E d \in todo[j] : Ask(j, d) /\ todo' = [todo EXCEPT ![j] = @ \ {d}]
      <4>1. PICK d \in todo[j] : Ask(j, d) /\ todo' = [todo EXCEPT ![j] = @ \ {d}]
        BY <3>1
      <4>2. d \in Docs
        BY DEF DocTypes
      <4> QED
        BY <4>1, <4>2, AskTypes DEF DocTypes
    <3>2. CASE /\ MoveTo(j, "done") \/ UNCHANGED at
               /\ UNCHANGED <<cur, had, since>>
               /\ UNCHANGED todo \/ \E d \in todo[j] : todo' = [todo EXCEPT ![j] = @ \ {d}]
      <4>1. todo' \in [Jobs -> SUBSET Docs]
        <5>1. CASE UNCHANGED todo
          BY <5>1 DEF DocTypes
        <5>2. CASE \E d \in todo[j] : todo' = [todo EXCEPT ![j] = @ \ {d}]
          <6>1. PICK d \in todo[j] : todo' = [todo EXCEPT ![j] = @ \ {d}]
            BY <5>2
          <6> QED
            BY <6>1 DEF DocTypes
        <5> QED
          BY <3>2, <5>1, <5>2
      <4>2. at' \in [Jobs -> DocPoints]
        BY <3>2 DEF DocTypes, MoveTo, DocPoints
      <4> QED
        BY <3>2, <4>1, <4>2 DEF DocTypes
    <3> QED
      BY <3>1, <3>2 DEF FillNext, FirstOf, heard
  <2> QED
    BY <2>1 DEF DocTypes, FillNext, heard
<1>2. PlaceOK(j)'
  BY DEF DocTypes, TaskOK, PlaceOK, FillNext, FirstOf, Ask, MoveTo, heard
<1>3. HoldsOK(j)'
  BY DEF DocTypes, TaskOK, PlaceOK, HoldsOK, FillNext, FirstOf, Ask, MoveTo, heard
<1>4. StagedOK(j)'
  BY DEF DocTypes, TaskOK, PlaceOK, StagedOK, HoldsOK, FillNext, FirstOf, Ask, MoveTo, heard,
     Answered, Registered, Kept, Docs
<1>5. MissingOK(j)'
  BY DEF DocTypes, TaskOK, PlaceOK, MissingOK, FillNext, FirstOf, Ask, MoveTo, heard
<1>6. RefreshOK(j)'
  BY DEF DocTypes, TaskOK, PlaceOK, RefreshOK, FillNext, FirstOf, Ask, MoveTo, heard
<1>7. \A k \in Jobs \ {j} : Apart(k)
  BY DEF DocTypes, Apart, FillNext, FirstOf, Ask, MoveTo, heard
<1> QED
  BY <1>1, <1>2, <1>3, <1>4, <1>5, <1>6, <1>7 DEF TaskOK

\* A refresh asks, goes on to the next stage or ends: no cached document is left out.
LEMMA RefreshNextKeeps ==
  ASSUME DocTypes, NEW j \in Jobs, TaskOK(j), RefreshNext(j)
  PROVE  DocTypes' /\ TaskOK(j)' /\ \A k \in Jobs \ {j} : Apart(k)
<1>1. DocTypes'
  <2>1. CASE RefreshAsks(j)
    <3>1. PICK d \in todo[j] : Ask(j, d) /\ todo' = [todo EXCEPT ![j] = @ \ {d}]
      BY <2>1 DEF RefreshAsks
    <3>2. d \in Docs
      BY DEF DocTypes
    <3>3. todo' \in [Jobs -> SUBSET Docs]
      BY <3>1 DEF DocTypes
    <3> QED
      BY <2>1, <3>1, <3>2, <3>3, AskTypes DEF DocTypes, RefreshAsks, RefreshNext, heard
  <2>2. CASE RefreshMoves(j)
    <3>0. stage \in [Jobs -> 0..5] /\ stage[j] < 5 /\ stage' = [stage EXCEPT ![j] = @ + 1]
      BY <2>2 DEF RefreshMoves, DocTypes
    <3>1. stage' \in [Jobs -> 0..5]
      BY <3>0
    <3>2. Scanned(stage[j] + 1) \subseteq Docs
      <4>1. stage[j] + 1 \in 1..5
        BY <3>0
      <4> QED
        BY <4>1, StagesAreDocs DEF Scanned
    <3>3. todo' \in [Jobs -> SUBSET Docs]
      BY <2>2, <3>2 DEF RefreshMoves, DocTypes
    <3> QED
      BY <2>2, <3>1, <3>3 DEF RefreshMoves, RefreshNext, DocTypes, heard
  <2>3. CASE RefreshEnds(j)
    BY <2>3 DEF RefreshEnds, RefreshNext, DocTypes, loop, MoveTo, DocPoints, heard
  <2> QED
    BY <2>1, <2>2, <2>3, RefreshNextCases
<1>2. PlaceOK(j)'
  BY DEF DocTypes, TaskOK, PlaceOK, RefreshNext, Ask, MoveTo, loop, heard
<1>3. HoldsOK(j)'
  BY DEF DocTypes, TaskOK, PlaceOK, HoldsOK, RefreshNext, Ask, MoveTo, loop, heard
<1>4. StagedOK(j)'
  BY DEF DocTypes, TaskOK, PlaceOK, StagedOK, HoldsOK, RefreshNext, Ask, MoveTo, loop, heard,
     Answered, Registered, Kept, Docs
<1>5. MissingOK(j)'
  BY DEF DocTypes, TaskOK, PlaceOK, MissingOK, RefreshNext, Ask, MoveTo, loop, heard
<1>6. RefreshOK(j)'
  <2>0. kind[j] = "refresh" /\ at[j] = "next" /\ kind' = kind /\ doc' = doc
        /\ outcome' = outcome /\ brought' = brought /\ wrote' = wrote
        /\ present' = present /\ sent' = sent
    BY DEF RefreshNext, heard
  <2>1. \A d \in present[j] : d \in Docs /\ doc[d] # Nothing /\ (Covered(j, d) \/ Ahead(j, d))
    BY <2>0 DEF TaskOK, RefreshOK, AtIt, DocTypes
  <2>3. CASE RefreshAsks(j)
    <3>1. PICK d \in todo[j] : Ask(j, d) /\ todo' = [todo EXCEPT ![j] = @ \ {d}]
      BY <2>3 DEF RefreshAsks
    <3>2. at'[j] = "asked" /\ cur'[j] = d /\ had'[j] = (doc[d] # Nothing) /\ since'[j] = since[j] \ {d}
          /\ todo'[j] = todo[j] \ {d} /\ stage' = stage
      BY <2>3, <3>1 DEF Ask, MoveTo, DocTypes, RefreshAsks
    <3>3. ASSUME NEW e \in present[j], e # d
          PROVE  Covered(j, e)' \/ Ahead(j, e)'
      <4>1. Covered(j, e) => Covered(j, e)'
        BY <2>0, <3>2, <3>3 DEF Covered, Kept
      <4>2. Ahead(j, e) => Ahead(j, e)'
        BY <3>2, <3>3 DEF Ahead, Stages
      <4> QED
        BY <2>1, <4>1, <4>2
    <3> QED
      BY <2>0, <2>1, <3>2, <3>3 DEF RefreshOK, AtIt
  <2>4. CASE RefreshMoves(j)
    <3>1. at' = at /\ cur' = cur /\ since' = since /\ todo[j] = {} /\ stage[j] < 5
          /\ stage'[j] = stage[j] + 1 /\ todo'[j] = Scanned(stage[j] + 1) /\ stage[j] \in 0..5
      BY <2>4 DEF RefreshMoves, DocTypes
    <3>2. ASSUME NEW e \in present[j]
          PROVE  Covered(j, e)' \/ Ahead(j, e)'
      <4>1. Covered(j, e) => Covered(j, e)'
        BY <2>0, <3>1 DEF Covered, Kept
      <4>2. ASSUME Ahead(j, e) PROVE Ahead(j, e)'
        <5>1. PICK n \in 1..5 : stage[j] < n /\ e \in Stages[n]
          BY <3>1, <4>2 DEF Ahead
        <5>2. CASE n = stage[j] + 1
          <6>1. e \in Scanned(n)
            BY <2>1, <5>1 DEF Scanned
          <6> QED
            BY <3>1, <5>2, <6>1 DEF Ahead
        <5>3. CASE stage[j] + 1 < n
          BY <3>1, <5>1, <5>3 DEF Ahead, Stages
        <5> QED
          BY <3>1, <5>1, <5>2, <5>3
      <4> QED
        BY <2>1, <4>1, <4>2
    <3> QED
      BY <2>0, <2>1, <3>1, <3>2 DEF RefreshOK
  <2>5. CASE RefreshEnds(j)
    <3>1. at'[j] = "done" /\ since' = since
      BY <2>5 DEF RefreshEnds, MoveTo, DocTypes
    <3>2. ASSUME NEW e \in present[j] PROVE Covered(j, e) /\ Covered(j, e)'
      <4>1. ~Ahead(j, e)
        BY <2>5 DEF RefreshEnds, Ahead
      <4> QED
        BY <2>0, <2>1, <3>1, <4>1 DEF Covered, Kept
    <3> QED
      BY <2>0, <2>1, <3>1, <3>2 DEF RefreshOK
  <2> QED
    BY <2>3, <2>4, <2>5, RefreshNextCases
<1>7. \A k \in Jobs \ {j} : Apart(k)
  BY DEF DocTypes, Apart, RefreshNext, Ask, MoveTo, loop, heard
<1> QED
  BY <1>1, <1>2, <1>3, <1>4, <1>5, <1>6, <1>7 DEF TaskOK

\* A PUT stores its next document ...
PutOne(j) ==
    /\ \E d \in todo[j] : Put(j, {d}, sent[j]) /\ todo' = [todo EXCEPT ![j] = @ \ {d}]
    /\ UNCHANGED at
    /\ PutNext(j)

\* ... which is one of its body.
LEMMA PutOneDoc ==
  ASSUME DocTypes, NEW j \in Jobs, TaskOK(j), PutOne(j), NEW d \in todo[j]
  PROVE  {d} \in SUBSET Docs /\ \A e \in {d} : sent[j][e] \in Issues
  BY DEF DocTypes, TaskOK, HoldsOK, PutOne, PutNext, heard

\* A PUT stores its next document, is refused, or goes on to the pools.
LEMMA PutNextKeeps ==
  ASSUME DocTypes, NEW j \in Jobs, TaskOK(j), PutNext(j)
  PROVE  DocTypes' /\ TaskOK(j)' /\ \A k \in Jobs \ {j} : Apart(k)
<1>1. DocTypes'
  <2>1. CASE PutOne(j)
    <3>1. PICK d \in todo[j] : Put(j, {d}, sent[j]) /\ todo' = [todo EXCEPT ![j] = @ \ {d}]
      BY <2>1 DEF PutOne
    <3>2. /\ doc' \in [Docs -> Issues \cup {Nothing}]
          /\ wrote' \in [Jobs -> SUBSET Docs] /\ since' \in [Jobs -> SUBSET Docs]
      <4> DEFINE S == {d}
      <4>1. S \in SUBSET Docs /\ \A e \in S : sent[j][e] \in Issues
        BY <2>1, PutOneDoc
      <4>2. Put(j, S, sent[j])
        BY <3>1
      <4> HIDE DEF S
      <4> QED
        BY <4>1, <4>2, PutDocs
    <3>3. todo' \in [Jobs -> SUBSET Docs]
      BY <3>1 DEF DocTypes
    <3> QED
      BY <2>1, <3>2, <3>3 DEF DocTypes, PutOne, PutNext, heard
  <2>2. CASE UNCHANGED <<doc, wrote, since, todo>> /\ (MoveTo(j, "error") \/ MoveTo(j, "pools"))
    BY <2>2 DEF DocTypes, PutNext, MoveTo, DocPoints, heard
  <2> QED
    BY <2>1, <2>2 DEF PutNext, PutOne, FirstOf, heard
<1>2. PlaceOK(j)'
  BY DEF DocTypes, TaskOK, PlaceOK, PutNext, Put, FirstOf, MoveTo, loop, history, heard
<1>3. HoldsOK(j)'
  BY DEF DocTypes, TaskOK, PlaceOK, HoldsOK, PutNext, Put, FirstOf, MoveTo, loop, history, heard
<1>4. StagedOK(j)'
  BY DEF DocTypes, TaskOK, PlaceOK, StagedOK, HoldsOK, PutNext, Put, FirstOf, MoveTo, loop,
     history, heard, Answered, Registered, Kept, Docs
<1>5. MissingOK(j)'
  BY DEF DocTypes, TaskOK, PlaceOK, MissingOK, PutNext, Put, FirstOf, MoveTo, loop, history,
     heard
<1>6. RefreshOK(j)'
  BY DEF DocTypes, TaskOK, PlaceOK, RefreshOK, PutNext, Put, FirstOf, MoveTo, loop, history,
     heard
<1>7. \A k \in Jobs \ {j} : Apart(k)
  <2>1. CASE PutOne(j)
    <3>1. PICK d \in todo[j] : Put(j, {d}, sent[j]) /\ todo' = [todo EXCEPT ![j] = @ \ {d}]
      BY <2>1 DEF PutOne
    <3>2. \A k \in Jobs \ {j} :
             /\ wrote'[k] = wrote[k] /\ since'[k] = since[k] \cup {d}
             /\ \A e \in Docs : doc'[e] # doc[e] => e \in since'[k] /\ doc'[e] # Nothing
      <4> DEFINE S == {d}
      <4>1. S \in SUBSET Docs /\ \A e \in S : sent[j][e] \in Issues
        BY <2>1, PutOneDoc
      <4>2. Put(j, S, sent[j])
        BY <3>1
      <4> HIDE DEF S
      <4>3. \A k \in Jobs \ {j} : Seen(k, S)
        BY <4>1, <4>2, PutSeen
      <4> QED
        BY <4>3 DEF S, Seen
    <3> QED
      BY <2>1, <3>1, <3>2 DEF DocTypes, Apart, PutOne, PutNext, heard
  <2>2. CASE UNCHANGED <<doc, wrote, since, todo>> /\ (MoveTo(j, "error") \/ MoveTo(j, "pools"))
    BY <2>2 DEF DocTypes, Apart, PutNext, MoveTo, heard
  <2> QED
    BY <2>1, <2>2 DEF PutNext, PutOne, FirstOf, heard
<1> QED
  BY <1>1, <1>2, <1>3, <1>4, <1>5, <1>6, <1>7 DEF TaskOK

\* The pools of a PUT.
LEMMA PutPoolsKeeps ==
  ASSUME DocTypes, NEW j \in Jobs, TaskOK(j), PutPools(j)
  PROVE  DocTypes' /\ TaskOK(j)' /\ \A k \in Jobs \ {j} : Apart(k)
<1>1. DocTypes'
  BY DEF DocTypes, PutPools, MoveTo, loop, history, Kinds, DocPoints
<1>2. PlaceOK(j)'
  BY DEF DocTypes, TaskOK, PlaceOK, PutPools, MoveTo, loop, history
<1>3. HoldsOK(j)'
  BY DEF DocTypes, TaskOK, PlaceOK, HoldsOK, PutPools, MoveTo, loop, history
<1>4. StagedOK(j)'
  BY DEF DocTypes, TaskOK, PlaceOK, StagedOK, HoldsOK, PutPools, MoveTo, loop, history, Answered,
     Registered, Kept, Docs
<1>5. MissingOK(j)'
  BY DEF DocTypes, TaskOK, PlaceOK, MissingOK, PutPools, MoveTo, loop, history
<1>6. RefreshOK(j)'
  BY DEF DocTypes, TaskOK, PlaceOK, RefreshOK, PutPools, MoveTo, loop, history
<1>7. \A k \in Jobs \ {j} : Apart(k)
  BY DEF DocTypes, Apart, PutPools, MoveTo, loop, history
<1> QED
  BY <1>1, <1>2, <1>3, <1>4, <1>5, <1>6, <1>7 DEF TaskOK

\* An answer, with its issue or without, leaves what a task holds back coherent.
LEMMA HeardKeepsStaged ==
  ASSUME NEW j \in Jobs, TaskOK(j), at[j] = "asked", cur[j] \in Docs,
         kind'[j] = kind[j], wrote'[j] = wrote[j], todo'[j] = todo[j], cur' = cur,
         doc' = doc, since' = since,
         at'[j] \in {"next", "answered", "done", "error"}, kind[j] = "register" => at'[j] = "next",
         \A d \in Docs \ {cur[j]} : /\ outcome'[j][d] = outcome[j][d]
                                    /\ brought'[j][d] = brought[j][d] /\ sent'[j][d] = sent[j][d],
         \/ /\ outcome'[j][cur[j]] = "ok"
            /\ brought'[j][cur[j]] \in Issues /\ sent'[j][cur[j]] = brought'[j][cur[j]]
         \/ /\ outcome'[j][cur[j]] \in {"unchained", "failed"}
            /\ sent'[j][cur[j]] = sent[j][cur[j]]
  PROVE  StagedOK(j)'
<1>1. CASE kind[j] = "register"
  <2>1. /\ wrote[j] = {} /\ todo[j] \subseteq Tcbs /\ cur[j] \notin todo[j]
        /\ \A d \in Docs : /\ sent[j][d] = Answered(j, d)
                           /\ outcome[j][d] = "ok" => brought[j][d] # Nothing
                           /\ d \in todo[j] => outcome[j][d] = "none"
        /\ outcome[j][cur[j]] = "none"
    BY <1>1 DEF TaskOK, StagedOK, HoldsOK
  <2>2. at'[j] = "next"
    BY <1>1
  <2>3. \A d \in Docs : /\ sent'[j][d] = Answered(j, d)'
                        /\ outcome'[j][d] = "ok" => brought'[j][d] # Nothing
                        /\ d \in todo[j] => outcome'[j][d] = "none"
    BY <2>1, NothingAssumption DEF Answered
  <2> QED
    BY <1>1, <2>1, <2>2, <2>3 DEF StagedOK
<1>2. CASE kind[j] = "fill"
  <2>1. /\ todo[j] \cap Tcbs = {} /\ cur[j] \notin Tcbs
        /\ outcome[j][Standard] # "none" => Registered(j)
    BY <1>2 DEF TaskOK, StagedOK
  <2>2. \A d \in Tcbs : outcome'[j][d] = outcome[j][d] /\ brought'[j][d] = brought[j][d]
    BY <2>1, TcbDocs
  <2>3. Registered(j) => Registered(j)'
    BY <2>2, TcbDocs DEF Registered, Kept
  <2> QED
    BY <1>2, <2>1, <2>2, <2>3, TcbDocs DEF StagedOK
<1>3. CASE kind[j] \notin {"register", "fill"}
  BY <1>3 DEF StagedOK
<1> QED
  BY <1>1, <1>2, <1>3

\* The answer comes; a registration holds it back.
LEMMA AnswersKeeps ==
  ASSUME DocTypes, NEW j \in Jobs, TaskOK(j), NEW n \in Issues, Answers(j, n)
  PROVE  DocTypes' /\ TaskOK(j)' /\ \A k \in Jobs \ {j} : Apart(k)
<1>1. DocTypes'
  BY DEF DocTypes, TaskOK, PlaceOK, Answers, Brings, Heard, MoveTo, loop, Kinds, DocPoints,
     Outcomes
<1>2. PlaceOK(j)'
  BY NothingAssumption DEF DocTypes, TaskOK, PlaceOK, Answers, Brings, Heard, MoveTo, loop
<1>3. HoldsOK(j)'
  BY DEF DocTypes, TaskOK, PlaceOK, HoldsOK, Answers, Brings, Heard, MoveTo, loop
<1>4. StagedOK(j)'
  <2>1. cur[j] \in Docs /\ kind'[j] = kind[j] /\ wrote'[j] = wrote[j] /\ todo'[j] = todo[j]
        /\ doc' = doc /\ since' = since /\ at[j] = "asked" /\ cur' = cur
    BY DEF DocTypes, TaskOK, PlaceOK, Answers, Brings, loop
  <2>2. /\ at'[j] = IF kind[j] = "register" THEN "next" ELSE "answered"
        /\ outcome'[j][cur[j]] = "ok"
        /\ \A d \in Docs \ {cur[j]} : /\ outcome'[j][d] = outcome[j][d]
                                      /\ brought'[j][d] = brought[j][d] /\ sent'[j][d] = sent[j][d]
        /\ brought'[j][cur[j]] = n /\ sent'[j][cur[j]] = n
    BY <2>1 DEF DocTypes, Answers, Brings, Heard, MoveTo
  <2> QED
    BY <2>1, <2>2, HeardKeepsStaged
<1>5. MissingOK(j)'
  BY DEF DocTypes, TaskOK, PlaceOK, MissingOK, Answers, Brings, Heard, MoveTo, loop
<1>6. RefreshOK(j)'
  BY DEF DocTypes, TaskOK, PlaceOK, RefreshOK, Covered, Kept, AtIt, Ahead, Stages, Answers,
     Brings, Heard, MoveTo, loop
<1>7. \A k \in Jobs \ {j} : Apart(k)
  BY DEF DocTypes, Apart, Answers, Brings, Heard, MoveTo, loop
<1> QED
  BY <1>1, <1>2, <1>3, <1>4, <1>5, <1>6, <1>7 DEF TaskOK

\* An answer without its chain.
LEMMA UnchainedKeeps ==
  ASSUME DocTypes, NEW j \in Jobs, TaskOK(j), AnswersUnchained(j)
  PROVE  DocTypes' /\ TaskOK(j)' /\ \A k \in Jobs \ {j} : Apart(k)
<1>1. DocTypes'
  BY DEF DocTypes, TaskOK, PlaceOK, AnswersUnchained, Heard, Unlock, MoveTo, loop, history,
     Kinds, DocPoints, Outcomes
<1>2. PlaceOK(j)'
  BY DEF DocTypes, TaskOK, PlaceOK, AnswersUnchained, Heard, Unlock, MoveTo, loop, history
<1>3. HoldsOK(j)'
  BY DEF DocTypes, TaskOK, PlaceOK, HoldsOK, AnswersUnchained, Heard, Unlock, MoveTo, loop,
     history
<1>4. StagedOK(j)'
  <2>1. cur[j] \in Docs /\ kind'[j] = kind[j] /\ wrote'[j] = wrote[j] /\ todo'[j] = todo[j]
        /\ doc' = doc /\ since' = since /\ at[j] = "asked" /\ cur' = cur
    BY DEF DocTypes, TaskOK, PlaceOK, AnswersUnchained, loop
  <2>2. /\ at'[j] = IF kind[j] = "get" THEN "done" ELSE "next"
        /\ outcome'[j][cur[j]] = "unchained"
        /\ \A d \in Docs \ {cur[j]} : /\ outcome'[j][d] = outcome[j][d]
                                      /\ brought'[j][d] = brought[j][d] /\ sent'[j][d] = sent[j][d]
        /\ sent'[j][cur[j]] = sent[j][cur[j]]
    BY <2>1 DEF DocTypes, AnswersUnchained, Heard, MoveTo
  <2> QED
    BY <2>1, <2>2, HeardKeepsStaged
<1>5. MissingOK(j)'
  BY DEF DocTypes, TaskOK, PlaceOK, MissingOK, AnswersUnchained, Heard, Unlock, MoveTo, loop,
     history
<1>6. RefreshOK(j)'
  BY DEF DocTypes, TaskOK, PlaceOK, RefreshOK, Covered, Kept, AtIt, Ahead, Stages,
     AnswersUnchained, Heard, Unlock, MoveTo, loop, history
<1>7. \A k \in Jobs \ {j} : Apart(k)
  BY DEF DocTypes, Apart, AnswersUnchained, Heard, Unlock, MoveTo, loop, history
<1> QED
  BY <1>1, <1>2, <1>3, <1>4, <1>5, <1>6, <1>7 DEF TaskOK

\* A refresh that goes on after a failure had an identity or nothing to lose.
LEMMA FailsKeeps ==
  ASSUME DocTypes, NEW j \in Jobs, TaskOK(j), AnswerFails(j)
  PROVE  DocTypes' /\ TaskOK(j)' /\ \A k \in Jobs \ {j} : Apart(k)
<1>1. DocTypes'
  BY DEF DocTypes, TaskOK, PlaceOK, AnswerFails, Heard, Unlock, Tolerates, MoveTo, loop, history,
     Kinds, DocPoints, Outcomes
<1>2. PlaceOK(j)'
  BY DEF DocTypes, TaskOK, PlaceOK, AnswerFails, Heard, Unlock, Tolerates, MoveTo, loop, history
<1>3. HoldsOK(j)'
  BY DEF DocTypes, TaskOK, PlaceOK, HoldsOK, AnswerFails, Heard, Unlock, Tolerates, MoveTo, loop,
     history
<1>4. StagedOK(j)'
  <2>1. cur[j] \in Docs /\ kind'[j] = kind[j] /\ wrote'[j] = wrote[j] /\ todo'[j] = todo[j]
        /\ doc' = doc /\ since' = since /\ at[j] = "asked" /\ cur' = cur
    BY DEF DocTypes, TaskOK, PlaceOK, AnswerFails, loop
  <2>2. /\ at'[j] = IF Tolerates(j) THEN "next" ELSE "error"
        /\ outcome'[j][cur[j]] = "failed"
        /\ \A d \in Docs \ {cur[j]} : /\ outcome'[j][d] = outcome[j][d]
                                      /\ brought'[j][d] = brought[j][d] /\ sent'[j][d] = sent[j][d]
        /\ sent'[j][cur[j]] = sent[j][cur[j]]
    BY <2>1 DEF DocTypes, AnswerFails, Heard, MoveTo
  <2> QED
    BY <2>1, <2>2, HeardKeepsStaged DEF Tolerates
<1>5. MissingOK(j)'
  BY DEF DocTypes, TaskOK, PlaceOK, MissingOK, AnswerFails, Heard, Unlock, Tolerates, MoveTo,
     loop, history
<1>6. RefreshOK(j)'
  BY DEF DocTypes, TaskOK, PlaceOK, RefreshOK, Covered, Kept, AtIt, Ahead, Stages, AnswerFails,
     Heard, Unlock, Tolerates, MoveTo, loop, history
<1>7. \A k \in Jobs \ {j} : Apart(k)
  BY DEF DocTypes, Apart, AnswerFails, Heard, Unlock, Tolerates, MoveTo, loop, history
<1> QED
  BY <1>1, <1>2, <1>3, <1>4, <1>5, <1>6, <1>7 DEF TaskOK

\* The answer is stored.
LEMMA StoreKeeps ==
  ASSUME DocTypes, NEW j \in Jobs, TaskOK(j), Store(j)
  PROVE  DocTypes' /\ TaskOK(j)' /\ \A k \in Jobs \ {j} : Apart(k)
<1>1. DocTypes'
  BY DEF DocTypes, TaskOK, PlaceOK, Store, Put, Unlock, MoveTo, loop, history, Kinds, DocPoints,
     heard
<1>2. PlaceOK(j)'
  BY DEF DocTypes, TaskOK, PlaceOK, Store, Put, Unlock, MoveTo, loop, history, heard
<1>3. HoldsOK(j)'
  BY DEF DocTypes, TaskOK, PlaceOK, HoldsOK, Store, Put, Unlock, MoveTo, loop, history, heard
<1>4. StagedOK(j)'
  BY DEF DocTypes, TaskOK, PlaceOK, StagedOK, HoldsOK, Store, Put, Unlock, MoveTo, loop, history,
     heard, Answered, Registered, Kept, Docs
<1>5. MissingOK(j)'
  BY DEF DocTypes, TaskOK, PlaceOK, MissingOK, Store, Put, Unlock, MoveTo, loop, history, heard
<1>6. RefreshOK(j)'
  BY DEF DocTypes, TaskOK, PlaceOK, RefreshOK, Covered, Kept, AtIt, Ahead, Stages, Store, Put,
     Unlock, MoveTo, loop, history, heard
<1>7. \A k \in Jobs \ {j} : Apart(k)
  <2>1. cur[j] \in Docs /\ sent[j][cur[j]] \in Issues
    BY DEF DocTypes, TaskOK, PlaceOK, Store, heard
  <2>2. \A k \in Jobs \ {j} :
           /\ wrote'[k] = wrote[k] /\ since'[k] = since[k] \cup {cur[j]}
           /\ \A e \in Docs : doc'[e] # doc[e] => e \in since'[k] /\ doc'[e] # Nothing
    <3> DEFINE f == sent[j]
    <3>1. {cur[j]} \in SUBSET Docs /\ \A d \in {cur[j]} : f[d] \in Issues
      BY <2>1
    <3>2. Put(j, {cur[j]}, f)
      BY DEF Store, heard
    <3> DEFINE S == {cur[j]}
    <3> HIDE DEF f, S
    <3>3. \A k \in Jobs \ {j} :
             Seen(k, S)
      <4>1. /\ S \in SUBSET Docs /\ Put(j, S, f)
            /\ \A d \in S : f[d] \in Issues
        BY <3>1, <3>2 DEF S
      <4> QED
        BY <4>1, PutSeen
    <3> QED
      BY <3>3 DEF S, Seen
  <2> QED
    BY <2>2 DEF DocTypes, Apart, Store, MoveTo, loop, heard
<1> QED
  BY <1>1, <1>2, <1>3, <1>4, <1>5, <1>6, <1>7 DEF TaskOK

\* The record is refused.
LEMMA StoreFailsKeeps ==
  ASSUME DocTypes, NEW j \in Jobs, TaskOK(j), StoreFails(j)
  PROVE  DocTypes' /\ TaskOK(j)' /\ \A k \in Jobs \ {j} : Apart(k)
<1>1. DocTypes'
  BY DEF DocTypes, TaskOK, PlaceOK, StoreFails, Unlock, MoveTo, loop, history, Kinds, DocPoints
<1>2. PlaceOK(j)'
  BY DEF DocTypes, TaskOK, PlaceOK, StoreFails, Unlock, MoveTo, loop, history
<1>3. HoldsOK(j)'
  BY DEF DocTypes, TaskOK, PlaceOK, HoldsOK, StoreFails, Unlock, MoveTo, loop, history
<1>4. StagedOK(j)'
  BY DEF DocTypes, TaskOK, PlaceOK, StagedOK, HoldsOK, StoreFails, Unlock, MoveTo, loop, history,
     Answered, Registered, Kept, Docs
<1>5. MissingOK(j)'
  BY DEF DocTypes, TaskOK, PlaceOK, MissingOK, StoreFails, Unlock, MoveTo, loop, history
<1>6. RefreshOK(j)'
  BY DEF DocTypes, TaskOK, PlaceOK, RefreshOK, StoreFails, Unlock, MoveTo, loop, history
<1>7. \A k \in Jobs \ {j} : Apart(k)
  BY DEF DocTypes, Apart, StoreFails, Unlock, MoveTo, loop, history
<1> QED
  BY <1>1, <1>2, <1>3, <1>4, <1>5, <1>6, <1>7 DEF TaskOK

\* The TCB infos of a registration in one batch.
LEMMA PublishKeeps ==
  ASSUME DocTypes, NEW j \in Jobs, TaskOK(j), RegisterPublish(j)
  PROVE  DocTypes' /\ TaskOK(j)' /\ \A k \in Jobs \ {j} : Apart(k)
<1>1. DocTypes'
  <2> DEFINE S == {d \in Docs : sent[j][d] # Nothing}
  <2>1. S \in SUBSET Docs /\ \A d \in S : sent[j][d] \in Issues
    BY DEF DocTypes
  <2>2. Put(j, S, sent[j])
    BY DEF RegisterPublish, heard
  <2> HIDE DEF S
  <2>3. /\ doc' \in [Docs -> Issues \cup {Nothing}]
        /\ wrote' \in [Jobs -> SUBSET Docs] /\ since' \in [Jobs -> SUBSET Docs]
    BY <2>1, <2>2, PutDocs
  <2>4. sent' \in [Jobs -> [Docs -> Issues \cup {Nothing}]]
    BY DEF DocTypes, RegisterPublish, heard
  <2>5. /\ kind' \in [Jobs -> Kinds] /\ at' \in [Jobs -> DocPoints]
        /\ todo' \in [Jobs -> SUBSET Docs]
    <3>1. PckCrls \cup Identities \cup Roots \subseteq Docs
      BY DEF Docs
    <3>2. CASE StartFill(j)
      BY <3>1, <3>2 DEF DocTypes, StartFill, Become, MoveTo, Kinds, DocPoints
    <3>3. CASE MoveTo(j, "done") /\ UNCHANGED <<kind, todo>>
      BY <3>3 DEF DocTypes, MoveTo, DocPoints
    <3> QED
      BY <3>2, <3>3 DEF RegisterPublish, heard
  <2> QED
    BY <2>3, <2>4, <2>5 DEF DocTypes, RegisterPublish, heard
<1>2. PlaceOK(j)'
  BY DEF DocTypes, TaskOK, PlaceOK, RegisterPublish, Put, StartFill, MoveTo, Become, loop,
     history, heard
<1>3. HoldsOK(j)'
  BY DEF DocTypes, TaskOK, PlaceOK, HoldsOK, RegisterPublish, Put, StartFill, MoveTo, Become,
     loop, history, heard
<1>4. StagedOK(j)'
  <2>1. /\ kind[j] = "register" /\ at[j] = "publish" /\ outcome' = outcome /\ brought' = brought
        /\ since'[j] = since[j]
        /\ wrote'[j] = wrote[j] \cup {d \in Docs : sent[j][d] # Nothing}
        /\ \A d \in Docs : sent[j][d] # Nothing => doc'[d] = sent[j][d]
    BY DEF DocTypes, TaskOK, PlaceOK, RegisterPublish, Put, heard
  <2>2. /\ \A d \in Docs : /\ sent[j][d] = Answered(j, d)
                           /\ outcome[j][d] = "ok" => brought[j][d] # Nothing
        /\ outcome[j][Standard] \in {"ok", "unchained"}
    BY <2>1 DEF TaskOK, StagedOK
  <2>3. Registered(j)'
    BY <2>1, <2>2, TcbDocs DEF Registered, Kept, Answered
  <2>4. CASE StartFill(j)
    <3>1. kind'[j] = "fill" /\ at'[j] = "next" /\ todo'[j] = PckCrls \cup Identities \cup Roots
      BY <2>4 DEF DocTypes, StartFill, MoveTo, Become
    <3> QED
      BY <2>3, <3>1, TcbsAssumption DEF StagedOK
  <2>5. CASE MoveTo(j, "done") /\ UNCHANGED <<kind, todo>>
    <3>1. kind'[j] = "register" /\ at'[j] = "done"
      BY <2>1, <2>5 DEF DocTypes, MoveTo
    <3> QED
      BY <2>3, <3>1 DEF StagedOK
  <2> QED
    BY <2>4, <2>5 DEF RegisterPublish
<1>5. MissingOK(j)'
  BY DEF DocTypes, TaskOK, PlaceOK, MissingOK, RegisterPublish, Put, StartFill, MoveTo, Become,
     loop, history, heard
<1>6. RefreshOK(j)'
  BY DEF DocTypes, TaskOK, PlaceOK, RefreshOK, RegisterPublish, Put, StartFill, MoveTo, Become,
     loop, history, heard
<1>7. \A k \in Jobs \ {j} : Apart(k)
  BY DEF DocTypes, Apart, RegisterPublish, Put, StartFill, MoveTo, Become, loop, history, heard
<1> QED
  BY <1>1, <1>2, <1>3, <1>4, <1>5, <1>6, <1>7 DEF TaskOK

\* A registration is refused.
LEMMA RefusedKeeps ==
  ASSUME DocTypes, NEW j \in Jobs, TaskOK(j), RegisterRefused(j)
  PROVE  DocTypes' /\ TaskOK(j)' /\ \A k \in Jobs \ {j} : Apart(k)
<1>1. DocTypes'
  BY DEF DocTypes, RegisterRefused, MoveTo, loop, history, Kinds, DocPoints
<1>2. PlaceOK(j)'
  BY DEF DocTypes, TaskOK, PlaceOK, RegisterRefused, MoveTo, loop, history
<1>3. HoldsOK(j)'
  BY DEF DocTypes, TaskOK, PlaceOK, HoldsOK, RegisterRefused, MoveTo, loop, history
<1>4. StagedOK(j)'
  BY DEF DocTypes, TaskOK, PlaceOK, StagedOK, HoldsOK, RegisterRefused, MoveTo, loop, history,
     Answered, Registered, Kept, Docs
<1>5. MissingOK(j)'
  BY DEF DocTypes, TaskOK, PlaceOK, MissingOK, RegisterRefused, MoveTo, loop, history
<1>6. RefreshOK(j)'
  BY DEF DocTypes, TaskOK, PlaceOK, RefreshOK, RegisterRefused, MoveTo, loop, history
<1>7. \A k \in Jobs \ {j} : Apart(k)
  BY DEF DocTypes, Apart, RegisterRefused, MoveTo, loop, history
<1> QED
  BY <1>1, <1>2, <1>3, <1>4, <1>5, <1>6, <1>7 DEF TaskOK

\* The client hangs up.
LEMMA HangUpKeeps ==
  ASSUME DocTypes, NEW j \in Jobs, TaskOK(j), Abandon(j)
  PROVE  DocTypes' /\ TaskOK(j)' /\ \A k \in Jobs \ {j} : Apart(k)
<1>1. DocTypes'
  BY DEF DocTypes, Abandon, Unlock, MoveTo, loop, history, Kinds, DocPoints
<1>2. PlaceOK(j)'
  BY DEF DocTypes, TaskOK, PlaceOK, Abandon, Unlock, MoveTo, loop, history
<1>3. HoldsOK(j)'
  BY DEF DocTypes, TaskOK, PlaceOK, HoldsOK, Abandon, Unlock, MoveTo, loop, history
<1>4. StagedOK(j)'
  BY DEF DocTypes, TaskOK, PlaceOK, StagedOK, HoldsOK, Abandon, Unlock, MoveTo, loop, history,
     Answered, Registered, Kept, Docs
<1>5. MissingOK(j)'
  BY DEF DocTypes, TaskOK, PlaceOK, MissingOK, Abandon, Unlock, MoveTo, loop, history
<1>6. RefreshOK(j)'
  BY DEF DocTypes, TaskOK, PlaceOK, RefreshOK, Abandon, Unlock, MoveTo, loop, history
<1>7. \A k \in Jobs \ {j} : Apart(k)
  BY DEF DocTypes, Apart, Abandon, Unlock, MoveTo, loop, history
<1> QED
  BY <1>1, <1>2, <1>3, <1>4, <1>5, <1>6, <1>7 DEF TaskOK

-----------------------------------------------------------------------------
\* Every step of a task keeps what holds of it and is a step apart for the others.
LEMMA StepKeeps ==
  ASSUME DocTypes, NEW j \in Jobs, TaskOK(j), Arrive(j) \/ Proceed(j) \/ Abandon(j)
  PROVE  DocTypes' /\ TaskOK(j)' /\ \A k \in Jobs \ {j} : Apart(k)
<1>1. CASE Arrive(j)
  BY <1>1, GetKeeps, RegisterKeeps, FillKeeps, RefreshKeeps, StartPutKeeps DEF Arrive
<1>2. CASE GetLocked(j) \/ RegisterNext(j) \/ FillNext(j) \/ RefreshNext(j)
  BY <1>2, GetLockedKeeps, RegisterNextKeeps, FillNextKeeps, RefreshNextKeeps
<1>3. CASE \/ PutNext(j) \/ PutPools(j)
           \/ (\E n \in Issues : Answers(j, n)) \/ AnswersUnchained(j) \/ AnswerFails(j)
  BY <1>3, PutNextKeeps, PutPoolsKeeps, AnswersKeeps, UnchainedKeeps, FailsKeeps
<1>4. CASE \/ Store(j) \/ StoreFails(j)
           \/ RegisterPublish(j) \/ RegisterRefused(j) \/ Abandon(j)
  BY <1>4, StoreKeeps, StoreFailsKeeps, PublishKeeps, RefusedKeeps, HangUpKeeps
<1> QED
  BY <1>1, <1>2, <1>3, <1>4 DEF Proceed

\* The service starts with no task, on any documents.
LEMMA InitDocInv == DocInit => DocInv
<1> SUFFICES ASSUME DocInit PROVE DocInv
  OBVIOUS
<1>1. DocTypes
  BY DEF DocInit, DocTypes, Kinds, DocPoints, Outcomes
<1>2. ASSUME NEW j \in Jobs PROVE TaskOK(j)
  BY DEF DocInit, TaskOK, PlaceOK, HoldsOK, StagedOK, MissingOK, RefreshOK
<1> QED
  BY <1>1, <1>2 DEF DocInv

\* Every step keeps the invariant ...
LEMMA NextDocInv == DocInv /\ [DocNext]_docVars => DocInv'
<1> SUFFICES ASSUME DocInv, [DocNext]_docVars PROVE DocInv'
  OBVIOUS
<1>2. ASSUME NEW j \in Jobs, Arrive(j) \/ Proceed(j) \/ Abandon(j) PROVE DocInv'
  <2>1. DocTypes' /\ TaskOK(j)' /\ \A k \in Jobs \ {j} : Apart(k)
    BY <1>2, StepKeeps DEF DocInv
  <2>2. ASSUME NEW k \in Jobs, k # j PROVE TaskOK(k)'
    BY <2>1, <2>2, ApartOK DEF DocInv
  <2> QED
    BY <2>1, <2>2 DEF DocInv
<1>3. CASE UNCHANGED docVars
  <2>1. DocTypes'
    BY <1>3 DEF docVars, DocInv, DocTypes
  <2>2. \A k \in Jobs : Apart(k)
    BY <1>3 DEF docVars, DocInv, DocTypes, Apart
  <2> QED
    BY <2>1, <2>2, ApartOK DEF DocInv
<1> QED
  BY <1>2, <1>3 DEF DocNext

\* ... so it always holds.
LEMMA DocInvariance == DocSpec => []DocInv
  BY InitDocInv, NextDocInv, PTL DEF DocSpec

(***************************************************************************)
(* The documents, the key locks and the tasks keep their types (cache.rs,  *)
(* store.rs).                                                              *)
(***************************************************************************)
THEOREM DocTypesCorrect == DocSpec => []DocTypeOK
<1>1. DocInv => DocTypeOK
  BY DEF DocInv, DocTypes, DocTypeOK
<1> QED
  BY <1>1, DocInvariance, PTL

(***************************************************************************)
(* A refresh that answers success has asked for every document that was    *)
(* cached when it began and stored what it was sent, whatever other tasks  *)
(* stored meanwhile and whichever requests failed (refresh_collateral).    *)
(***************************************************************************)
THEOREM RefreshCovers == DocSpec => []RefreshOkCoversAll
<1>1. DocInv => RefreshOkCoversAll
  <2> SUFFICES ASSUME DocInv, NEW j \in Jobs, kind[j] = "refresh", at[j] = "done",
                      NEW d \in present[j]
               PROVE  Covered(j, d)
    BY DEF RefreshOkCoversAll, Covered
  <2> QED
    BY DEF DocInv, TaskOK, RefreshOK, AtIt
<1> QED
  BY <1>1, DocInvariance, PTL

\* Who stores a document: a PUT, a task that was answered, or a registration.
LEMMA WhoWrites ==
  ASSUME DocInv, DocNext, NEW j \in Jobs, NEW d \in Docs, Writes(j, d)
  PROVE  \/ kind[j] = "put"
         \/ at[j] = "answered" /\ d = cur[j] /\ doc'[d] = sent[j][d] /\ sent[j][d] # Nothing
         \/ kind[j] = "register" /\ doc'[d] = sent[j][d] /\ sent[j][d] # Nothing
<1>2. ASSUME NEW k \in Jobs, k # j, Arrive(k) \/ Proceed(k) \/ Abandon(k) PROVE FALSE
  BY <1>2, StepKeeps DEF DocInv, Apart, Writes
<1>3. CASE Store(j)
  <2>1. cur[j] \in Docs /\ sent[j][cur[j]] # Nothing /\ at[j] = "answered"
    BY <1>3 DEF Store, DocInv, TaskOK, PlaceOK, heard
  <2>2. wrote'[j] = wrote[j] \cup {cur[j]} /\ doc'[cur[j]] = sent[j][cur[j]]
    BY <1>3, <2>1 DEF Store, Put, DocInv, DocTypes, heard
  <2> QED
    BY <2>1, <2>2 DEF Writes
<1>4. CASE RegisterPublish(j)
  <2>1. kind[j] = "register"
    BY <1>4 DEF RegisterPublish, DocInv, TaskOK, PlaceOK, heard
  <2>2. /\ wrote'[j] = wrote[j] \cup {e \in Docs : sent[j][e] # Nothing}
        /\ \A e \in Docs : sent[j][e] # Nothing => doc'[e] = sent[j][e]
    BY <1>4 DEF RegisterPublish, Put, DocInv, DocTypes, heard
  <2> QED
    BY <2>1, <2>2 DEF Writes
<1>5. CASE PutNext(j)
  BY <1>5 DEF PutNext, heard
<1>6. CASE \/ Arrive(j) \/ GetLocked(j) \/ RegisterNext(j) \/ FillNext(j) \/ RefreshNext(j)
           \/ PutPools(j) \/ (\E n \in Issues : Answers(j, n)) \/ AnswersUnchained(j) \/ AnswerFails(j)
           \/ StoreFails(j) \/ RegisterRefused(j) \/ Abandon(j)
  <2>1. wrote' = wrote
    BY <1>6 DEF Arrive, Get, Register, Fill, Refresh, StartPut, GetLocked, RegisterNext,
       FillNext, RefreshNext, PutPools, Answers, AnswersUnchained, AnswerFails, StoreFails,
       RegisterRefused, Abandon, history, heard
  <2> QED
    BY <2>1 DEF Writes
<1> QED
  BY <1>2, <1>3, <1>4, <1>5, <1>6 DEF DocNext, Proceed

(***************************************************************************)
(* GETs and fills replace a cached document only if another task stored it *)
(* while their request was out, for any number of tasks (key_lock,         *)
(* fill_qv_collateral).                                                    *)
(***************************************************************************)
THEOREM FetchesOnlyFill == DocSpec => FillsOnlyMissing
<1>1. DocInv /\ [DocNext]_docVars =>
          [\A j \in Jobs, d \in Docs :
              Writes(j, d) /\ kind[j] \in {"get", "fill"} /\ doc[d] # Nothing => d \in since[j]]_docVars
  <2> SUFFICES ASSUME DocInv, DocNext, NEW j \in Jobs, NEW d \in Docs,
                      Writes(j, d), kind[j] \in {"get", "fill"}, doc[d] # Nothing
               PROVE  d \in since[j]
    OBVIOUS
  <2>1. at[j] = "answered" /\ d = cur[j]
    BY WhoWrites
  <2> QED
    BY <2>1 DEF DocInv, TaskOK, MissingOK
<1> QED
  BY <1>1, DocInvariance, PTL DEF DocSpec, FillsOnlyMissing

(***************************************************************************)
(* A registration is all or nothing, for any number of TCB infos: none is  *)
(* stored until it succeeds, and then every one the upstream sent is, and  *)
(* the standard one was answered (fetch_tcb_infos,                         *)
(* replace_platform_certs_after_fetch).                                    *)
(***************************************************************************)
THEOREM RegistersWhole == DocSpec => []RegistersAllOrNothing
<1>1. DocInv => RegistersAllOrNothing
  BY DEF DocInv, TaskOK, StagedOK, Registered, RegistersAllOrNothing
<1> QED
  BY <1>1, DocInvariance, PTL
==============================================================================
