------------------------- MODULE RequestProtection -------------------------
(***************************************************************************)
(* The process-local protection in front of every route                    *)
(* (security/middleware.py): a sliding window per client, an overflow      *)
(* window shared by the clients that come when the table is full, and a    *)
(* counter of the requests inside the application.                         *)
(*                                                                         *)
(* Both asyncio locks are held over code without an await, so admitting a  *)
(* request and releasing it are one step each.  Time is counted in half    *)
(* seconds, since Retry-After rounds to whole ones; an event is its age,   *)
(* which stops at Window, where the event no longer counts.                *)
(***************************************************************************)
EXTENDS Integers, Sequences, FiniteSets

CONSTANTS
    Clients,        \* what _client_key tells apart
    Patient,        \* the clients that wait as long as Retry-After says
    Overflow,       \* the shared bucket, never a client's key
    Tasks,          \* requests that can be handled at the same time
    Limit,          \* rate_limit_requests
    Window,         \* rate_limit_window_seconds, in half seconds
    MaxKeys,        \* max_keys
    MaxConcurrent   \* max_concurrent_requests

ASSUME ProtectionAssumption ==
    /\ Overflow \notin Clients /\ Patient \subseteq Clients
    /\ IsFiniteSet(Tasks)
    /\ Limit \in Nat \ {0} /\ Window \in Nat \ {0}
    /\ MaxKeys \in Nat \ {0} /\ MaxConcurrent \in Nat \ {0}

VARIABLES
    events,     \* _events: the existing buckets, oldest event first
    inFlight,   \* _in_flight
    stage,      \* where each request is: "out", "inside", "refusing"
    admitted,   \* history: ages of what each client was let through for
    wait,       \* what is left of the Retry-After a patient client last received
    refused     \* history: its refusals in a row by a bucket of its own

vars == <<events, inFlight, stage, admitted, wait, refused>>

Keys == Clients \cup {Overflow}
Ages == 0 .. Window

TypeOK ==
    /\ DOMAIN events \subseteq Keys
    /\ \A k \in DOMAIN events : events[k] \in Seq(Ages)
    /\ inFlight \in 0 .. MaxConcurrent
    /\ stage \in [Tasks -> {"out", "inside", "refusing"}]
    /\ admitted \in [Clients -> Seq(Ages)]
    /\ wait \in [Patient -> Nat]
    /\ refused \in [Patient -> Nat]

Init ==
    /\ events = [k \in {} |-> <<>>]
    /\ inFlight = 0
    /\ stage = [t \in Tasks |-> "out"]
    /\ admitted = [c \in Clients |-> <<>>]
    /\ wait = [c \in Patient |-> 0]
    /\ refused = [c \in Patient |-> 0]

-----------------------------------------------------------------------------
(* SlidingWindowRateLimiter.                                               *)

\* popleft while the oldest event has left the window.  Events are in order,
\* so these are all that have.
Expired(bucket) == {i \in DOMAIN bucket : bucket[i] >= Window}
Fresh(bucket) == SubSeq(bucket, Cardinality(Expired(bucket)) + 1, Len(bucket))

\* _purge: the buckets that still count something, without what expired.
BugPurged(table) ==
    [k \in {k \in DOMAIN table : Expired(table[k]) = {}} |-> Fresh(table[k])]
Purged(table) ==
    [k \in {k \in DOMAIN table : Fresh(table[k]) # <<>>} |-> Fresh(table[k])]

Full(table) == Cardinality(DOMAIN table) >= MaxKeys

\* The table after a client without a bucket has made room, if it can.
Swept(c) == IF c \notin DOMAIN events /\ Full(events) THEN Purged(events) ELSE events

\* The bucket the client is counted in.
BugKeyOf(c) == c
KeyOf(c) == IF c \notin DOMAIN Swept(c) /\ Full(Swept(c)) THEN Overflow ELSE c

\* events = self._events.setdefault(key, deque()), expired events dropped.
BucketOf(c) == IF KeyOf(c) \in DOMAIN Swept(c) THEN Fresh(Swept(c)[KeyOf(c)]) ELSE <<>>

\* max(1, int(window_seconds - (now - events[0]))), in half seconds.
BugRetryAfter(oldest) == 2 * ((Window - oldest) \div 2)
RetryAfter(oldest) ==
    IF Window - oldest < 2 THEN 2 ELSE 2 * ((Window - oldest) \div 2)

\* The table with the client's bucket replaced.
With(c, bucket) ==
    [k \in DOMAIN Swept(c) \cup {KeyOf(c)} |->
        IF k = KeyOf(c) THEN bucket ELSE Swept(c)[k]]

\* SlidingWindowRateLimiter.allow refuses: 429 with Retry-After.
RefuseRate(t, c) ==
    /\ Len(BucketOf(c)) >= Limit
    /\ events' = With(c, BucketOf(c))
    /\ wait' = [wait EXCEPT ![c] = RetryAfter(BucketOf(c)[1])]
    /\ refused' = [refused EXCEPT ![c] = IF KeyOf(c) = c THEN @ + 1 ELSE 0]
    /\ UNCHANGED <<inFlight, stage, admitted>>

\* It lets the request through, which counts whatever happens to it next.
LetThrough(c) ==
    /\ Len(BucketOf(c)) < Limit
    /\ events' = With(c, Append(BucketOf(c), 0))
    /\ admitted' = [admitted EXCEPT ![c] = Append(Fresh(@), 0)]
    /\ wait' = [wait EXCEPT ![c] = 0]
    /\ refused' = [refused EXCEPT ![c] = 0]

-----------------------------------------------------------------------------
(* RequestProtectionMiddleware.  Exempt paths, and bodies whose declared   *)
(* length is too large or malformed, are answered before this and change   *)
(* nothing.                                                                *)

\* _acquire_capacity fails: 503.
RefuseBusy(t, c) ==
    /\ LetThrough(c)
    /\ inFlight >= MaxConcurrent
    /\ UNCHANGED <<inFlight, stage>>

\* The request enters the application.
Enter(t, c) ==
    /\ LetThrough(c)
    /\ inFlight < MaxConcurrent
    /\ inFlight' = inFlight + 1
    /\ stage' = [stage EXCEPT ![t] = "inside"]

Arrive(t, c) ==
    /\ stage[t] = "out"
    /\ c \in Patient => wait[c] = 0
    /\ RefuseRate(t, c) \/ RefuseBusy(t, c) \/ Enter(t, c)

\* limited_receive raises RequestBodyTooLarge before a response has started:
\* the middleware answers 413 itself, still counted.
ExceedBody(t) ==
    /\ stage[t] = "inside"
    /\ stage' = [stage EXCEPT ![t] = "refusing"]
    /\ UNCHANGED <<events, inFlight, admitted, wait, refused>>

\* finally: await self._release_capacity(), whether the application returned,
\* raised or was cancelled, or the 413 was sent or could not be.
BugLeave(t) ==
    /\ stage[t] # "out"
    /\ inFlight' = IF stage[t] = "refusing" \/ inFlight = 0 THEN inFlight ELSE inFlight - 1
    /\ stage' = [stage EXCEPT ![t] = "out"]
    /\ UNCHANGED <<events, admitted, wait, refused>>
Leave(t) ==
    /\ stage[t] # "out"
    /\ inFlight' = IF inFlight = 0 THEN 0 ELSE inFlight - 1
    /\ stage' = [stage EXCEPT ![t] = "out"]
    /\ UNCHANGED <<events, admitted, wait, refused>>

\* monotonic() advances by half a second.
Older(bucket) == [i \in DOMAIN bucket |-> IF bucket[i] < Window THEN bucket[i] + 1 ELSE Window]
Tick ==
    /\ events' = [k \in DOMAIN events |-> Older(events[k])]
    /\ admitted' = [c \in Clients |-> Fresh(Older(admitted[c]))]
    /\ wait' = [c \in Patient |-> IF wait[c] = 0 THEN 0 ELSE wait[c] - 1]
    /\ UNCHANGED <<inFlight, stage, refused>>

Next ==
    \/ Tick
    \/ \E t \in Tasks : ExceedBody(t) \/ Leave(t)
    \/ \E t \in Tasks, c \in Clients : Arrive(t, c)

Spec == Init /\ [][Next]_vars

-----------------------------------------------------------------------------
(* Properties.                                                             *)

\* The limiter's memory is bounded: it never keeps more than max_keys buckets
\* besides the overflow, and none of them more than the limit of events, however
\* many clients come (middleware.py:25-31).
MemoryBounded ==
    /\ Cardinality(DOMAIN events \ {Overflow}) <= MaxKeys
    /\ \A k \in DOMAIN events : Len(events[k]) <= Limit

\* No client is let through more often in a window than the limit, or twice
\* the limit if it was counted in the overflow before it had a bucket of its
\* own: purging a bucket forgets nothing that still counts.
WindowRespected ==
    \A c \in Clients :
        Len(Fresh(admitted[c])) <=
            Limit + (IF Overflow \in DOMAIN events THEN Len(Fresh(events[Overflow])) ELSE 0)

\* The counter is exactly the number of requests the application or the
\* middleware's own 413 still works on, so capacity is neither leaked by a
\* request that fails nor handed out twice (middleware.py:141-158).
CapacityCounted == inFlight = Cardinality({t \in Tasks : stage[t] # "out"})

\* A client with a bucket of its own that waits as long as it is told is
\* refused at most twice in a row: Retry-After is rounded down, so the first
\* wait may be half a second short, the second never is.
PatienceRewarded == \A c \in Patient : refused[c] <= 2

=============================================================================
