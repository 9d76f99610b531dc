---------------------------- MODULE RateLimiter ----------------------------
(***************************************************************************)
(* The sliding-window limiter that API processes share through Postgres,   *)
(* for one key: under an advisory lock a transaction reads the key's hits, *)
(* drops those that left the window, decides, and writes the row back.     *)
(* The purge sweep deletes rows that were not written for a while.         *)
(*                                                                         *)
(* Time is counted in ticks, several to the second.  updated_at is now(),  *)
(* the start of the transaction; the hit is stamped after the lock.  The   *)
(* clocks of processes and database are taken to agree.                    *)
(***************************************************************************)
EXTENDS Naturals, Integers, Sequences, FiniteSets

CONSTANTS
    Requests,    \* requests with the key, on any process
    None,        \* no request
    Limit,       \* hits the window admits
    WindowSec,   \* the window of this scope, in seconds
    RetainSec,   \* the longest window of any scope, in seconds
    Second,      \* ticks to a second
    MaxWait,     \* bound: ticks a transaction waits for the lock
    MaxTime      \* bound: ticks in a behaviour

VARIABLES
    clock,       \* the time
    hits,        \* rate_limit_hits.hits
    updatedAt,   \* rate_limit_hits.updated_at
    lock,        \* the request that holds the advisory lock
    request,     \* per request: how far it is, when it began, what it read
    admitted     \* the times of the requests that were let through

rowVars == <<hits, updatedAt>>
vars == <<clock, rowVars, lock, request, admitted>>

Window == WindowSec * Second
Retain == RetainSec * Second

RequestSteps == {"idle", "waiting", "read", "allowed", "refused"}
NoRequest == [step |-> "idle", began |-> 0, read |-> <<>>, decided |-> 0,
              retryAt |-> 0]

\* A row outlives the hits it holds only if the lock is granted within what
\* the longest window exceeds this one by.
ASSUME LimiterAssumption ==
    /\ None \notin Requests
    /\ Limit \in Nat \ {0} /\ WindowSec \in Nat \ {0} /\ Second \in Nat \ {0}
    /\ RetainSec \in Nat /\ MaxWait \in Nat /\ MaxTime \in Nat
    /\ Window + MaxWait <= Retain

-----------------------------------------------------------------------------
(* decideSlidingWindow: pure *)

\* hits.filter: what is left of seq in the window, in its order.  (SelectSeq,
\* written out: no prover expands the standard operator.)
RecentHits(seq, now) ==
    LET recent == {i \in DOMAIN seq : seq[i] > now - Window}
        Nth(k) == CHOOSE i \in recent : Cardinality({j \in recent : j <= i}) = k
    IN  [k \in 1 .. Cardinality(recent) |-> seq[Nth(k)]]

CeilDiv(x, y) == (x + y - 1) \div y
AtLeastOne(x) == IF x < 1 THEN 1 ELSE x

\* Wrong on purpose: the seconds are rounded down.
RetryAfterFloor(recent, now) == AtLeastOne((recent[1] + Window - now) \div Second)

\* Seconds until the oldest hit leaves the window.
RetryAfter(recent, now) == AtLeastOne(CeilDiv(recent[1] + Window - now, Second))

DecideSlidingWindow(seq, now) ==
    LET recent == RecentHits(seq, now) IN
    IF Len(recent) >= Limit
    THEN [ok |-> FALSE, hits |-> recent, retryAt |-> now + Second * RetryAfter(recent, now)]
    ELSE [ok |-> TRUE, hits |-> Append(recent, now), retryAt |-> 0]

-----------------------------------------------------------------------------
Init ==
    /\ clock = 0
    /\ hits = <<>>
    /\ updatedAt = 0
    /\ lock = None
    /\ request = [q \in Requests |-> NoRequest]
    /\ admitted = <<>>

\* Time passes, but not so long that a waiter exceeds its bound.
Tick ==
    /\ clock < MaxTime
    /\ \A q \in Requests :
        request[q].step \in {"waiting", "read"} => clock < request[q].began + MaxWait
    /\ clock' = clock + 1
    /\ UNCHANGED <<rowVars, lock, request, admitted>>

\* BEGIN; an answered client may come again.
Begin(q) ==
    /\ request[q].step \notin {"waiting", "read"}
    /\ request' = [request EXCEPT ![q] = [NoRequest EXCEPT !.step = "waiting",
                                                          !.began = clock]]
    /\ UNCHANGED <<clock, rowVars, lock, admitted>>

\* Wrong on purpose: nothing is locked before the hits are read.
ReadHitsUnlocked(q) ==
    /\ request[q].step = "waiting"
    /\ request' = [request EXCEPT ![q].step = "read", ![q].read = hits]
    /\ UNCHANGED <<clock, rowVars, lock, admitted>>

\* pg_advisory_xact_lock, then the row FOR UPDATE
ReadHits(q) ==
    /\ request[q].step = "waiting"
    /\ lock = None
    /\ lock' = q
    /\ request' = [request EXCEPT ![q].step = "read", ![q].read = hits]
    /\ UNCHANGED <<clock, rowVars, admitted>>

Release(q) == lock' = IF lock = q THEN None ELSE lock

\* The upsert writes the whole array, also when the request is refused.
WriteHits(q) ==
    LET outcome == DecideSlidingWindow(request[q].read, clock) IN
    /\ request[q].step = "read"
    /\ hits' = outcome.hits
    /\ updatedAt' = request[q].began
    /\ request' = [request EXCEPT ![q] =
            [NoRequest EXCEPT !.step = IF outcome.ok THEN "allowed" ELSE "refused",
                              !.decided = clock, !.retryAt = outcome.retryAt]]
    /\ admitted' = IF outcome.ok THEN Append(admitted, clock) ELSE admitted
    /\ Release(q)
    /\ UNCHANGED clock

\* An error rolls back, and the request is answered 500.
RollBack(q) ==
    /\ request[q].step \in {"waiting", "read"}
    /\ request' = [request EXCEPT ![q] = NoRequest]
    /\ Release(q)
    /\ UNCHANGED <<clock, rowVars, admitted>>

\* The sweep's DELETE waits for a row that is locked.
DeleteExpiredRateLimitHits ==
    /\ hits # <<>>
    /\ updatedAt < clock - Retain
    /\ \A q \in Requests : request[q].step # "read"
    /\ hits' = <<>>
    /\ UNCHANGED <<clock, updatedAt, lock, request, admitted>>

Next ==
    \/ Tick \/ DeleteExpiredRateLimitHits
    \/ \E q \in Requests : Begin(q) \/ ReadHits(q) \/ WriteHits(q) \/ RollBack(q)

Spec == Init /\ [][Next]_vars

-----------------------------------------------------------------------------
(* Properties *)

\* No window, wherever it starts, lets more requests through than the limit,
\* on however many processes they were decided and whatever was purged.
WindowRespected ==
    \A i \in DOMAIN admitted :
        Cardinality({j \in DOMAIN admitted :
            admitted[j] \in admitted[i] .. admitted[i] + Window - 1}) <= Limit

\* A client told to wait is told long enough: at the end of Retry-After the
\* window has room again, whatever rounding and ties did to the oldest hit,
\* unless others were let through meanwhile.
RetryAfterSuffices ==
    \A q \in Requests : request[q].step = "refused" =>
        Cardinality({j \in DOMAIN admitted :
            admitted[j] \in request[q].retryAt - Window + 1 .. request[q].decided}) < Limit

=============================================================================
