------------------------------ MODULE PcsSend -------------------------------
(***************************************************************************)
(* The upstream client (pcs.rs): calls that make their attempts under a    *)
(* permit of one semaphore, sleep between attempts without it, retry       *)
(* transport errors up to max_attempts and throttled answers (429, 503) no *)
(* more than MAX_THROTTLED_ATTEMPTS - 1 times.  A call goes away with the  *)
(* request that made it.  The lengths of the sleeps are left out.          *)
(***************************************************************************)
EXTENDS Integers, Sequences, FiniteSets

CONSTANTS
    Calls,         \* calls of the client, each made once
    Permits,       \* upstream_max_concurrent, at least one
    MaxAttempts,   \* upstream_max_attempts, at least one
    MaxThrottled   \* MAX_THROTTLED_ATTEMPTS

ASSUME BoundsAssumption ==
    Permits \in Nat \ {0} /\ MaxAttempts \in Nat \ {0} /\ MaxThrottled \in Nat \ {0}
ASSUME CallsAssumption == IsFiniteSet(Calls)

VARIABLES
    pc,         \* where a call is
    retries,    \* does it retry (send), or is it a single POST?
    throttled,  \* throttled answers it has had
    again,      \* throttled_retry: its next attempt is one after a throttled answer
    queue,      \* calls waiting for a permit, in order of arrival
    free,       \* permits of the semaphore
    inflight,   \* metric: requests in flight
    counted,    \* metric upstream_throttled, by call
    heard       \* history: what the attempts of a call came to

vars == <<pc, retries, throttled, again, queue, free, inflight, counted, heard>>

Outcomes == {"error", "throttled", "status"}
Ended == {"answered", "failed", "gone"}
Points == {"new", "queued", "flying", "sleeping"} \cup Ended

\* Attempts of a call that are over.
Attempts(c) == Len(heard[c])

Init ==
    /\ pc = [c \in Calls |-> "new"]
    /\ retries = [c \in Calls |-> FALSE]
    /\ throttled = [c \in Calls |-> 0]
    /\ again = [c \in Calls |-> FALSE]
    /\ queue = <<>>
    /\ free = Permits
    /\ inflight = 0
    /\ counted = [c \in Calls |-> 0]
    /\ heard = [c \in Calls |-> <<>>]

Goto(c, p) == pc' = [pc EXCEPT ![c] = p]

\* Variant: the permit is lost.
KeepPermit == UNCHANGED <<free, inflight>>

\* Variant: the permit goes back twice.
DropTwice == free' = free + 2 /\ inflight' = inflight - 1

\* The permit and the InflightGuard of an attempt are dropped.
DropPermit == free' = free + 1 /\ inflight' = inflight - 1

\* send, post_json_once, post_bytes_once: up to the wait for a permit.
Begin(c, r) ==
    /\ pc[c] = "new"
    /\ retries' = [retries EXCEPT ![c] = r]
    /\ Goto(c, "queued")
    /\ queue' = Append(queue, c)
    /\ UNCHANGED <<throttled, again, free, inflight, counted, heard>>

\* An end-of-life URL, no upstream, or a request that cannot be built.
Reject(c) ==
    /\ pc[c] = "new"
    /\ Goto(c, "failed")
    /\ UNCHANGED <<retries, throttled, again, queue, free, inflight, counted, heard>>

\* Variant: retries after errors are counted too.
CountsRetries(c) == IF heard[c] # <<>> THEN 1 ELSE 0

\* A retry of a throttled answer is counted when its attempt starts.
Counts(c) == IF again[c] THEN 1 ELSE 0

\* acquire_permit: the semaphore serves its waiters in order.
acquire_permit(c) ==
    /\ pc[c] = "queued" /\ queue # <<>> /\ Head(queue) = c
    /\ free > 0
    /\ queue' = Tail(queue)
    /\ free' = free - 1
    /\ inflight' = inflight + 1
    /\ counted' = [counted EXCEPT ![c] = @ + Counts(c)]
    /\ again' = [again EXCEPT ![c] = FALSE]
    /\ Goto(c, "flying")
    /\ UNCHANGED <<retries, throttled, heard>>

\* An attempt is over: its permit goes back.
AttemptOver(c, outcome) ==
    /\ pc[c] = "flying"
    /\ heard' = [heard EXCEPT ![c] = Append(@, outcome)]
    /\ DropPermit
    /\ UNCHANGED <<retries, queue, counted>>

\* Variant: one attempt more than there are.
MoreThanThere(c) == retries[c] /\ Attempts(c) <= MaxAttempts

\* Another attempt is left after the one that is just over.
MoreAttempts(c) == retries[c] /\ Attempts(c) + 1 < MaxAttempts

\* A transport error, the time limit, a body too large or an empty 200.
AttemptFails(c) ==
    /\ AttemptOver(c, "error")
    /\ Goto(c, IF MoreAttempts(c) THEN "sleeping" ELSE "failed")
    /\ UNCHANGED <<throttled, again>>

\* Variant: a throttled answer is retried like an error.
RetryThrottledAlways(c) == MoreAttempts(c)

\* Is a throttled answer retried?
RetriesThrottled(c) == throttled[c] + 1 < MaxThrottled /\ MoreAttempts(c)

\* 429 or 503; the single POSTs return it like any other.
AttemptThrottled(c) ==
    /\ AttemptOver(c, "throttled")
    /\ throttled' = [throttled EXCEPT ![c] = @ + 1]
    /\ again' = [again EXCEPT ![c] = RetriesThrottled(c)]
    /\ Goto(c, IF RetriesThrottled(c) THEN "sleeping" ELSE "answered")

\* Any other status.
AttemptAnswered(c) ==
    /\ AttemptOver(c, "status")
    /\ Goto(c, "answered")
    /\ UNCHANGED <<throttled, again>>

\* The back-off is over; the call waits for a permit again.
Wake(c) ==
    /\ pc[c] = "sleeping"
    /\ Goto(c, "queued")
    /\ queue' = Append(queue, c)
    /\ UNCHANGED <<retries, throttled, again, free, inflight, counted, heard>>

\* Variant: a call that goes away stays in the queue.
StayQueued(c) == queue

\* Dropping the acquire future takes the call out of the queue, if it is there.
Leave(c) ==
    IF \E i \in 1 .. Len(queue) : queue[i] = c
    THEN LET i == CHOOSE i \in 1 .. Len(queue) : queue[i] = c
         IN  [j \in 1 .. Len(queue) - 1 |-> IF j < i THEN queue[j] ELSE queue[j + 1]]
    ELSE queue

\* The future of the call is dropped at an await.
HangUp(c) ==
    /\ pc[c] \in {"queued", "flying", "sleeping"}
    /\ Goto(c, "gone")
    /\ queue' = Leave(c)
    /\ IF pc[c] = "flying" THEN DropPermit ELSE UNCHANGED <<free, inflight>>
    /\ UNCHANGED <<retries, throttled, again, counted, heard>>

Arrive(c) == (\E r \in BOOLEAN : Begin(c, r)) \/ Reject(c)

Advance(c) ==
    \/ acquire_permit(c) \/ Wake(c)
    \/ AttemptFails(c) \/ AttemptThrottled(c) \/ AttemptAnswered(c)

Next == \E c \in Calls : Arrive(c) \/ Advance(c) \/ HangUp(c)

Spec == Init /\ [][Next]_vars

\* Tasks that can run are polled, sleeps end, and an attempt ends within
\* REQUEST_TIMEOUT.
FairSpec == Spec /\ \A c \in Calls : WF_vars(Advance(c))

-----------------------------------------------------------------------------
\* Type invariant.
TypeOK ==
    /\ pc \in [Calls -> Points]
    /\ retries \in [Calls -> BOOLEAN]
    /\ throttled \in [Calls -> 0..MaxAttempts]
    /\ again \in [Calls -> BOOLEAN]
    /\ queue \in Seq(Calls)
    /\ free \in 0..Permits
    /\ inflight \in 0..Permits
    /\ counted \in [Calls -> 0..MaxAttempts]
    /\ heard \in [Calls -> Seq(Outcomes)]

Flying == {c \in Calls : pc[c] = "flying"}

(***************************************************************************)
(* "abandoned requests cannot leave the in-flight gauge elevated", and     *)
(* "Bounds how many upstream requests are in flight at once": the permits  *)
(* taken and the gauge are the attempts under way, none for a call that    *)
(* sleeps, waits, has ended or was dropped (acquire_permit, InflightGuard). *)
(***************************************************************************)
PermitsConserved ==
    free + Cardinality(Flying) = Permits /\ inflight = Cardinality(Flying)

ThrottledAnswers(c) == {i \in 1..Len(heard[c]) : heard[c][i] = "throttled"}

(***************************************************************************)
(* "up to `max_attempts` tries for transport errors, but a throttled       *)
(* upstream (429/503) is retried at most twice so a PCS-side storm is not  *)
(* amplified": a call that goes on has had fewer than MaxThrottled         *)
(* throttled answers, errors between them or not, and nothing else but     *)
(* errors; a single POST makes one attempt (send, post_bytes_once).        *)
(***************************************************************************)
StormNotAmplified ==
    \A c \in Calls :
        /\ Len(heard[c]) <= IF retries[c] THEN MaxAttempts ELSE 1
        /\ Cardinality(ThrottledAnswers(c)) <= MaxThrottled
        /\ pc[c] \in {"queued", "flying", "sleeping"} =>
               /\ Cardinality(ThrottledAnswers(c)) < MaxThrottled
               /\ \A i \in 1..Len(heard[c]) : heard[c][i] # "status"

(***************************************************************************)
(* A call fails only on an error, and one that retries only after its last *)
(* attempt; an answer that came, throttled ones included, is never turned  *)
(* into a failure by an earlier error (send: "last", the early return).    *)
(***************************************************************************)
FailsOnlyAtTheEnd ==
    \A c \in Calls :
        /\ pc[c] = "failed" /\ heard[c] # <<>> =>
               /\ heard[c][Len(heard[c])] = "error"
               /\ retries[c] => Len(heard[c]) = MaxAttempts
        /\ pc[c] = "answered" => heard[c] # <<>> /\ heard[c][Len(heard[c])] # "error"

(***************************************************************************)
(* "Count only when the next attempt actually starts, not if cancellation  *)
(* interrupts its backoff/wait": the metric of throttled retries is the    *)
(* number of attempts begun right after a throttled answer (send).         *)
(***************************************************************************)
RetriesCounted ==
    \A c \in Calls :
        counted[c] = Cardinality({i \in ThrottledAnswers(c) :
                                     i < Len(heard[c]) \/ pc[c] = "flying"
                                     \/ (pc[c] = "gone" /\ ~again[c])})

(***************************************************************************)
(* A call ends, whoever else waits for the permits and leaves, since they  *)
(* are given out in order and not held while sleeping (send).              *)
(***************************************************************************)
EveryCallEnds == \A c \in Calls : pc[c] = "queued" ~> pc[c] \in Ended
=============================================================================
