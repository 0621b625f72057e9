----------------------------- MODULE RefreshGate -----------------------------
(***************************************************************************)
(* Who runs a refresh, and who waits for whom (Cache::refresh,             *)
(* wait_refresh_result, scheduled_refresh in cache.rs).  Admin calls for   *)
(* the same target share one run: the first becomes the leader, lists a    *)
(* watch channel under the target and runs; the others wait on a clone of  *)
(* its receiver.  Runs of different targets, and those of the scheduler,   *)
(* take turns on refresh_lock.                                             *)
(*                                                                         *)
(* A call makes at most one channel that gets listed, so the channel goes  *)
(* by the name of the call.  A call is a request handler: when its client  *)
(* hangs up, its future is dropped at the await where it is.               *)
(***************************************************************************)
EXTENDS Integers, Sequences, FiniteSets

CONSTANTS
    Calls,      \* calls of GET|POST /refresh, each made once
    Targets,    \* "collateral" and "certs:<FMSPC>"
    Scheduler,  \* the cron task
    None,
    Modes       \* cache modes the service may be started in

ASSUME NamesAssumption == Scheduler \notin Calls /\ None \notin Calls /\ None \notin Targets

VARIABLES
    mode,     \* CacheMode of the process
    listed,   \* refresh_inflight[target]: the leader whose receiver is listed, or None
    value,    \* value[c]: what the channel of c holds; None until the run of c ends
    turn,     \* refresh_lock: tasks in order of arrival, the first holds it
    pc,       \* where a call, or the scheduler, is
    target,   \* the target of a call
    rx,       \* the leader whose receiver a waiting call holds
    got,      \* the leader whose result a call answered with
    over      \* history: over[c]: the calls that had returned when c began

vars == <<mode, listed, value, turn, pc, target, rx, got, over>>

Results == {"ok", "error"}
Points == {"new", "check", "insert", "waiting", "queued", "running", "removing",
           "answered", "refused", "gone"}

\* The call no longer runs: its sender and its guard have been dropped.
Returned(c) == pc[c] \in {"answered", "refused", "gone"}

Goto(c, p) == pc' = [pc EXCEPT ![c] = p]

\* Variant: the refresh lock is not given back.
KeepTurn(c) == turn

\* The turns once task c has given up its place, wherever it stands.
Released(c) ==
    IF \E i \in 1 .. Len(turn) : turn[i] = c
    THEN LET i == CHOOSE i \in 1 .. Len(turn) : turn[i] = c
         IN  [j \in 1 .. Len(turn) - 1 |-> IF j < i THEN turn[j] ELSE turn[j + 1]]
    ELSE turn

-----------------------------------------------------------------------------
Init ==
    /\ mode \in Modes
    /\ listed = [t \in Targets |-> None]
    /\ value = [c \in Calls |-> None]
    /\ turn = << >>
    /\ pc = [c \in Calls \cup {Scheduler} |-> "new"]
    /\ target = [c \in Calls |-> None]
    /\ rx = [c \in Calls |-> None]
    /\ got = [c \in Calls |-> None]
    /\ over = [c \in Calls |-> {}]

\* A call comes in: bad parameters are refused first, then the OFFLINE mode.
Begin(c, t) ==
    /\ pc[c] = "new"
    /\ over' = [over EXCEPT ![c] = {d \in Calls : Returned(d)}]
    /\ \/ Goto(c, "refused") /\ UNCHANGED target
       \/ /\ mode # "OFFLINE"
          /\ Goto(c, "check")
          /\ target' = [target EXCEPT ![c] = t]
    /\ UNCHANGED <<mode, listed, value, turn, rx, got>>

\* Variant: a target that is not listed is waited for like a listed one.
CheckWaits(c) ==
    /\ pc[c] = "check"
    /\ rx' = [rx EXCEPT ![c] = listed[target[c]]]
    /\ Goto(c, "waiting")
    /\ UNCHANGED <<mode, listed, value, turn, target, got, over>>

\* Look the target up; a listed run is waited for.
Check(c) ==
    /\ pc[c] = "check"
    /\ rx' = [rx EXCEPT ![c] = listed[target[c]]]
    /\ Goto(c, IF listed[target[c]] = None THEN "insert" ELSE "waiting")
    /\ UNCHANGED <<mode, listed, value, turn, target, got, over>>

\* Variant: the table is not looked at again before the insertion.
FoundNothing(c) == None

\* The entry found when the table is locked for the insertion.
FoundAgain(c) == listed[target[c]]

\* Look again under the lock of the table; list a new channel if still none.
Insert(c) ==
    /\ pc[c] = "insert"
    /\ \/ /\ FoundAgain(c) # None
          /\ rx' = [rx EXCEPT ![c] = FoundAgain(c)]
          /\ Goto(c, "waiting")
          /\ UNCHANGED <<listed, turn>>
       \/ /\ FoundAgain(c) = None
          /\ listed' = [listed EXCEPT ![target[c]] = c]
          /\ turn' = Append(turn, c)
          /\ Goto(c, "queued")
          /\ UNCHANGED rx
    /\ UNCHANGED <<mode, value, target, got, over>>

\* wait_refresh_result: the result, or a loop back when the sender is gone.
Wake(c) ==
    /\ pc[c] = "waiting"
    /\ \/ /\ value[rx[c]] # None
          /\ Goto(c, "answered")
          /\ got' = [got EXCEPT ![c] = rx[c]]
       \/ /\ value[rx[c]] = None /\ Returned(rx[c])
          /\ Goto(c, "check")
          /\ UNCHANGED got
    /\ UNCHANGED <<mode, listed, value, turn, target, rx, over>>

\* The refresh lock is granted in order of arrival.
TakeTurn(c) ==
    /\ pc[c] = "queued"
    /\ turn # << >> /\ Head(turn) = c
    /\ Goto(c, "running")
    /\ UNCHANGED <<mode, listed, value, turn, target, rx, got, over>>

\* refresh_certs or refresh_collateral returns, and the result is sent.
RunEnds(c) ==
    /\ pc[c] = "running"
    /\ \E result \in Results : value' = [value EXCEPT ![c] = result]
    /\ Goto(c, "removing")
    /\ UNCHANGED <<mode, listed, turn, target, rx, got, over>>

\* Variant: the entry of the finished run stays listed.
KeepListed(c) == listed

\* The table without the entry of the target.
Unlisted(c) == [listed EXCEPT ![target[c]] = None]

\* The entry is removed, the call answered, the lock given back.
Remove(c) ==
    /\ pc[c] = "removing"
    /\ listed' = Unlisted(c)
    /\ Goto(c, "answered")
    /\ got' = [got EXCEPT ![c] = c]
    /\ turn' = Released(c)
    /\ UNCHANGED <<mode, value, target, rx, over>>

\* The client hangs up while the call waits for something.
HangUp(c) ==
    /\ pc[c] \in {"check", "insert", "waiting", "queued", "running", "removing"}
    /\ Goto(c, "gone")
    /\ turn' = Released(c)
    /\ UNCHANGED <<mode, listed, value, target, rx, got, over>>

-----------------------------------------------------------------------------
\* scheduled_refresh: nothing in OFFLINE mode past the sweep, else the lock.
ScheduleQueue ==
    /\ pc[Scheduler] = "new"
    /\ mode # "OFFLINE"
    /\ Goto(Scheduler, "queued")
    /\ turn' = Append(turn, Scheduler)
    /\ UNCHANGED <<mode, listed, value, target, rx, got, over>>

ScheduleRun ==
    /\ pc[Scheduler] = "queued"
    /\ Head(turn) = Scheduler
    /\ Goto(Scheduler, "running")
    /\ UNCHANGED <<mode, listed, value, turn, target, rx, got, over>>

\* Collateral and pools are done, well or not; the task sleeps again.
ScheduleEnd ==
    /\ pc[Scheduler] = "running"
    /\ Goto(Scheduler, "new")
    /\ turn' = Released(Scheduler)
    /\ UNCHANGED <<mode, listed, value, target, rx, got, over>>

Advance(c) == Check(c) \/ Insert(c) \/ Wake(c) \/ TakeTurn(c) \/ RunEnds(c) \/ Remove(c)

Next ==
    \/ \E c \in Calls : (\E t \in Targets : Begin(c, t)) \/ Advance(c) \/ HangUp(c)
    \/ ScheduleQueue \/ ScheduleRun \/ ScheduleEnd

Spec == Init /\ [][Next]_vars

(***************************************************************************)
(* Tasks that can run are polled, and a run ends: every upstream attempt   *)
(* it makes is bounded by REQUEST_TIMEOUT and a number of attempts.        *)
(***************************************************************************)
FairSpec == /\ Spec
            /\ \A c \in Calls : WF_vars(Advance(c))
            /\ WF_vars(ScheduleRun \/ ScheduleEnd)

-----------------------------------------------------------------------------
\* Type invariant.
TypeOK ==
    /\ mode \in Modes
    /\ listed \in [Targets -> Calls \cup {None}]
    /\ value \in [Calls -> Results \cup {None}]
    /\ turn \in Seq(Calls \cup {Scheduler})
    /\ pc \in [Calls \cup {Scheduler} -> Points]
    /\ target \in [Calls -> Targets \cup {None}]
    /\ rx \in [Calls -> Calls \cup {None}]
    /\ got \in [Calls -> Calls \cup {None}]
    /\ over \in [Calls -> SUBSET Calls]
    /\ \A c \in Calls : /\ pc[c] \notin {"new", "refused"} => target[c] \in Targets
                        /\ pc[c] = "waiting" => rx[c] \in Calls

Leads(c) == pc[c] \in {"queued", "running", "removing"}

(***************************************************************************)
(* "Same-target callers share the in-flight run": however calls and        *)
(* hang-ups interleave, at most one call leads a run of a target, and it   *)
(* is the one whose channel is listed, so that the entry a leader removes  *)
(* when it is done is its own (the second look at the table in refresh).   *)
(***************************************************************************)
OneLeaderPerTarget ==
    \A c \in Calls : Leads(c) => listed[target[c]] = c

(***************************************************************************)
(* "In-flight admin /refresh results ...  Waiters clone the receiver and   *)
(* share that run": a call is answered with the result of a run that was   *)
(* over before the call began only if the client of that run's leader hung *)
(* up, after the result was sent and before the entry was removed; no      *)
(* leader that returns leaves a result behind for later calls (refresh,    *)
(* wait_refresh_result).                                                   *)
(***************************************************************************)
SharesUnlessLeft ==
    \A c \in Calls : got[c] # None => got[c] \notin over[c] \/ pc[got[c]] = "gone"

(***************************************************************************)
(* Every call to /refresh that is not dropped by its client is answered.   *)
(* A leader dropped before it sent its result breaks this: its entry stays *)
(* listed and later calls for the target go round in the loop of refresh.  *)
(***************************************************************************)
EveryCallAnswered ==
    \A c \in Calls : pc[c] = "check" ~> Returned(c)

(***************************************************************************)
(* What holds of it: only calls for a target that some client hung up on   *)
(* can be left without an answer; a hang-up never holds up other targets   *)
(* or the scheduler's turn on refresh_lock (refresh, scheduled_refresh).   *)
(***************************************************************************)
AnsweredUnlessLeft ==
    \A c \in Calls : pc[c] = "check" ~>
        Returned(c) \/ \E d \in Calls : pc[d] = "gone" /\ target[d] = target[c]
==============================================================================
