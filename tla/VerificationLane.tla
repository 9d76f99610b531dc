-------------------------- MODULE VerificationLane --------------------------
(***************************************************************************)
(* The verification lane of AgentScan: reported activities, the job queue  *)
(* verification_jobs, the worker passes that claim, resolve and persist    *)
(* jobs, the operator commands that requeue an activity and the purge that *)
(* deletes it.  Several workers share the queue; what serialises them is   *)
(* Postgres: an action here is one committed transaction, or one statement *)
(* where a transaction takes no lock between its statements.               *)
(*                                                                         *)
(* Time appears as the two comparisons the code makes: "due" (next_attempt *)
(* is past: a lease or a backoff ran out) and "expired" (first_attempt is  *)
(* older than the verification window).  first_attempt_at is the ordinal   *)
(* of the enqueueing that set it.                                          *)
(***************************************************************************)
EXTENDS Naturals, FiniteSets

CONSTANTS
    Activities,        \* activity ids
    Workers,           \* verification worker processes
    LaunchShaped,      \* activities exempt from strikes by kind and role
    Uncorroborated,    \* activities of a chain whose reader cannot corroborate
    Endpoints,         \* RPC endpoints of a chain
    Lagging,           \* endpoints that may miss a transaction that landed
    EndpointsNeeded,   \* VERIFY_CORROBORATING_ENDPOINTS
    Batch,             \* WORKER_BATCH
    PossibleFates,     \* what the chain may hold: a subset of Fates
    MaxRequeues,       \* bound: operator requeues of one activity
    MaxFailures        \* bound: failed passes and failed writes

VARIABLES
    status,              \* activities.status
    txHash,              \* activities.tx_hash IS NOT NULL
    verification_state,  \* activities.verification_state
    jobs,                \* activities with a row in verification_jobs
    due,                 \* those whose next_attempt_at has passed
    enqueued,            \* ordinal of the last enqueueing: its first_attempt_at
    expired,             \* enqueueings up to here are older than the window
    strikes,             \* rows of strikes that name the activity
    counted,             \* times the activity was added to daily_aggregates
    claim,               \* per worker and activity: the job it holds in memory
    failures,            \* failed passes and writes so far
    fate                 \* what the chain holds about the declared transaction

activityVars == <<status, txHash, verification_state>>
queueVars == <<jobs, due, enqueued>>
bookVars == <<strikes, counted>>
vars == <<activityVars, queueVars, expired, bookVars, claim, failures, fate>>

-----------------------------------------------------------------------------
(* Values *)

Terminal == {"confirmed", "definitively_failed", "superseded_unproven"}
EventStatuses == {"pending"} \cup Terminal
Statuses == EventStatuses \cup {"unseen", "purged"}

Verified == {"verified_full", "verified_basic"}
VerificationStates == {"none", "queued", "mismatch"} \cup Verified

(* The truth about a declared transaction.  "unlisted": its chain is not in *)
(* the registry.  "native_off": only the native value of the transaction,   *)
(* read by a call of its own, contradicts the declaration.                  *)
Fates == {"unlisted", "absent", "contradicted", "native_off", "undecodable",
          "proven_full", "proven_basic"}
Included == {"contradicted", "native_off", "undecodable", "proven_full",
             "proven_basic"}
Disproven == {"absent", "contradicted", "native_off"}

Verdicts == Verified \cup {"strike"}
Outcomes == Verdicts \cup {"reschedule", "close"}
Steps == Outcomes \cup {"none", "claimed", "closing"}
Claims == [step : Steps, first : Nat, tx : BOOLEAN]
NoClaim == [step |-> "none", first |-> 0, tx |-> FALSE]

ASSUME LaneAssumption ==
    /\ LaunchShaped \subseteq Activities
    /\ Uncorroborated \subseteq Activities
    /\ IsFiniteSet(Endpoints)
    /\ Lagging \subseteq Endpoints
    /\ EndpointsNeeded \in Nat
    /\ Cardinality(Lagging) < EndpointsNeeded
    /\ Batch \in Nat \ {0}
    /\ PossibleFates \subseteq Fates
    /\ MaxRequeues \in Nat
    /\ MaxFailures \in Nat

-----------------------------------------------------------------------------
(* Resolving a job: pure, from reads of the chain and the job's age *)

\* Wrong on purpose: the basic tier is granted before the receipt is judged.
VerdictsOnBasicFirst(f) == IF f \in Included THEN {"verified_basic"} ELSE {"retry_missing"}

\* What evaluateVerification may return for one read of the receipt.
VerdictsOn(f) ==
    {"retry_error"}                                      \* the read threw
    \cup (IF f = "absent" \/ Lagging # {} THEN {"retry_missing"} ELSE {})
    \cup CASE f = "contradicted" -> {"strike"}
           [] f = "native_off"   -> {"strike", "verified_full"} \* value unread
           [] f = "undecodable"  -> {"unverifiable"}
           [] f = "proven_full"  -> {"verified_full"}
           [] f = "proven_basic" -> {"verified_basic"}
           [] OTHER              -> {}

\* The answers the single-endpoint clients may give about a missing receipt.
Answers(f) ==
    {a \in [Endpoints -> {"present", "absent", "silent"}] :
        \A e \in Endpoints :
            /\ a[e] = "present" => f \in Included
            /\ a[e] = "absent" => f \notin Included \/ e \in Lagging}

\* Wrong on purpose: one endpoint's silence on the transaction is enough.
CorroborationOfOne(a) ==
    IF \E e \in Endpoints : a[e] = "absent" THEN "missing" ELSE "unknown"

CorroborationOf(a) ==
    IF \E e \in Endpoints : a[e] = "present" THEN "found"
    ELSE IF Cardinality({e \in Endpoints : a[e] = "absent"}) >= EndpointsNeeded
         THEN "missing" ELSE "unknown"

CorroborateMissing(k, f) ==
    IF k \in Uncorroborated THEN {"unknown"}
    ELSE {CorroborationOf(a) : a \in Answers(f)}

\* Wrong on purpose: the verification window never closes.
OutcomesOfPatient(v, k, f, old) ==
    IF v \in Verdicts THEN {v} ELSE {"reschedule"}

\* A verdict that is not final is retried inside the window; past it the job
\* closes, except that a corroborated missing receipt is a strike.
OutcomesOf(v, k, f, old) ==
    CASE v \in Verdicts -> {v}
      [] v \notin Verdicts /\ ~old -> {"reschedule"}
      [] v \in {"unverifiable", "retry_error"} /\ old -> {"close"}
      [] v = "retry_missing" /\ old ->
            {IF c = "missing" THEN "strike" ELSE "close" :
                c \in CorroborateMissing(k, f)}

ResolveJobOutcome(k, tx, f, old) ==
    IF f = "unlisted" THEN {IF old THEN "close" ELSE "reschedule"}
    ELSE IF ~tx THEN {"close"}
    ELSE UNION {OutcomesOf(v, k, f, old) : v \in VerdictsOn(f)}

-----------------------------------------------------------------------------
Init ==
    /\ status = [k \in Activities |-> "unseen"]
    /\ txHash = [k \in Activities |-> FALSE]
    /\ verification_state = [k \in Activities |-> "none"]
    /\ jobs = {}
    /\ due = {}
    /\ enqueued = [k \in Activities |-> 0]
    /\ expired = [k \in Activities |-> 0]
    /\ strikes = [k \in Activities |-> 0]
    /\ counted = [k \in Activities |-> 0]
    /\ claim = [w \in Workers |-> [k \in Activities |-> NoClaim]]
    /\ failures = 0
    /\ fate \in [Activities -> PossibleFates]

(* The statements the transactions share *)

SetState(k, s) ==
    verification_state' = [verification_state EXCEPT ![k] = s]

\* INSERT INTO verification_jobs ... ON CONFLICT DO UPDATE: due at once.
Enqueue(k) ==
    /\ jobs' = jobs \cup {k}
    /\ due' = due \cup {k}
    /\ enqueued' = [enqueued EXCEPT ![k] = @ + 1]

DeleteJob(k) ==
    /\ jobs' = jobs \ {k}
    /\ due' = due \ {k}
    /\ UNCHANGED enqueued

SetStep(w, k, s) == claim' = [claim EXCEPT ![w][k].step = s]
Drop(w, k) == claim' = [claim EXCEPT ![w][k] = NoClaim]

-----------------------------------------------------------------------------
(* Ingest: applyEvent, one transaction per event under the row lock *)

\* The row takes the reported status and is queued if it can be proven.
Settles(k, s, tx) ==
    LET provable == s = "confirmed" /\ tx IN
    /\ status' = [status EXCEPT ![k] = s]
    /\ txHash' = [txHash EXCEPT ![k] = tx]
    /\ IF provable THEN SetState(k, "queued") /\ Enqueue(k)
                   ELSE UNCHANGED <<verification_state, queueVars>>
    /\ UNCHANGED <<expired, bookVars, claim, failures, fate>>

InsertActivity(k, s, tx) ==
    /\ status[k] = "unseen"
    /\ Settles(k, s, tx)

\* Wrong on purpose: a settled activity is promoted again.
PromoteAgain(k, s, tx) ==
    /\ status[k] \in EventStatuses
    /\ s \in Terminal
    /\ Settles(k, s, tx \/ txHash[k])

\* Wrong on purpose: the promotion forgets to enqueue the job.
PromoteUnqueued(k, s, tx) ==
    /\ status[k] = "pending"
    /\ s \in Terminal
    /\ status' = [status EXCEPT ![k] = s]
    /\ txHash' = [txHash EXCEPT ![k] = @ \/ tx]
    /\ SetState(k, IF s = "confirmed" /\ txHash'[k] THEN "queued" ELSE "none")
    /\ UNCHANGED <<queueVars, expired, bookVars, claim, failures, fate>>

PromotePendingActivity(k, s, tx) ==
    /\ status[k] = "pending"
    /\ s \in Terminal
    /\ Settles(k, s, tx \/ txHash[k])

-----------------------------------------------------------------------------
(* A worker pass: claim a batch, resolve every job, then persist each *)

Idle(w) == \A k \in Activities : claim[w][k] = NoClaim

\* UPDATE ... SET next_attempt_at = now() + lease ... FOR UPDATE SKIP LOCKED.
\* The row lock of a concurrent claim may hide any of the due jobs.
ClaimDueJobs(w, K) ==
    LET leased == {k \in K : status[k] # "superseded_unproven"} IN
    /\ Idle(w)
    /\ K \subseteq due
    /\ Cardinality(K) <= Batch
    /\ leased # {}
    /\ due' = due \ leased
    /\ claim' = [claim EXCEPT ![w] =
                    [k \in Activities |->
                        IF k \in leased
                        THEN [step |-> "claimed", first |-> enqueued[k],
                              tx |-> txHash[k]]
                        ELSE NoClaim]]
    /\ UNCHANGED <<activityVars, jobs, enqueued, expired, bookVars, failures, fate>>

\* Reads the chain outside any transaction; nothing is locked meanwhile.
Resolve(w, k) ==
    /\ claim[w][k].step = "claimed"
    /\ \E o \in ResolveJobOutcome(k, claim[w][k].tx, fate[k],
                                  claim[w][k].first <= expired[k]) :
            SetStep(w, k, o)
    /\ UNCHANGED <<activityVars, queueVars, expired, bookVars, failures, fate>>

\* The whole batch is resolved before the first outcome is persisted, and
\* outcomes are persisted one transaction after the other.
Persisting(w, k, steps) ==
    /\ claim[w][k].step \in steps
    /\ \A j \in Activities : claim[w][j].step \notin {"claimed", "closing"}

RescheduleJob(w, k) ==
    /\ Persisting(w, k, {"reschedule"})
    /\ due' = due \ {k}
    /\ Drop(w, k)
    /\ UNCHANGED <<activityVars, jobs, enqueued, expired, bookVars, failures, fate>>

\* Wrong on purpose: closes without comparing the state.
CloseBlindly(w, k) ==
    /\ Persisting(w, k, {"close"})
    /\ SetState(k, "none")
    /\ DeleteJob(k)
    /\ Drop(w, k)
    /\ UNCHANGED <<status, txHash, expired, bookVars, failures, fate>>

\* The compare-and-swap on 'queued' wins and locks the activity row.
CloseUnverifiable(w, k) ==
    /\ Persisting(w, k, {"close"})
    /\ verification_state[k] = "queued"
    /\ SetState(k, "none")
    /\ DeleteJob(k)
    /\ Drop(w, k)
    /\ UNCHANGED <<status, txHash, expired, bookVars, failures, fate>>

\* The swap misses: no row is locked, and the delete is still to come.
CloseMisses(w, k) ==
    /\ Persisting(w, k, {"close"})
    /\ verification_state[k] # "queued"
    /\ SetStep(w, k, "closing")
    /\ UNCHANGED <<activityVars, queueVars, expired, bookVars, failures, fate>>

CloseDeletes(w, k) ==
    /\ claim[w][k].step = "closing"
    /\ DeleteJob(k)
    /\ Drop(w, k)
    /\ UNCHANGED <<activityVars, expired, bookVars, failures, fate>>

StateOf(verdict) == IF verdict = "strike" THEN "mismatch" ELSE verdict

\* What a verdict writes besides the job: state, strike, aggregate.
BookVerdict(k, verdict) ==
    /\ SetState(k, StateOf(verdict))
    /\ strikes' = [strikes EXCEPT ![k] =
                      IF verdict = "strike" /\ k \notin LaunchShaped THEN @ + 1 ELSE @]
    /\ counted' = [counted EXCEPT ![k] = IF verdict = "strike" THEN @ ELSE @ + 1]

\* Wrong on purpose: finalises a live row without comparing its state.
FinalizeBlindly(w, k) ==
    /\ Persisting(w, k, Verdicts)
    /\ status[k] \in Terminal
    /\ BookVerdict(k, claim[w][k].step)
    /\ DeleteJob(k)
    /\ Drop(w, k)
    /\ UNCHANGED <<status, txHash, expired, failures, fate>>

FinalizeVerification(w, k) ==
    /\ Persisting(w, k, Verdicts)
    /\ verification_state[k] = "queued"
    /\ BookVerdict(k, claim[w][k].step)
    /\ DeleteJob(k)
    /\ Drop(w, k)
    /\ UNCHANGED <<status, txHash, expired, failures, fate>>

FinalizeMisses(w, k) ==
    /\ Persisting(w, k, Verdicts)
    /\ verification_state[k] # "queued"
    /\ Drop(w, k)
    /\ UNCHANGED <<activityVars, queueVars, expired, bookVars, failures, fate>>

\* A write fails: its transaction is rolled back and the pass goes on.
PersistFails(w, k) ==
    /\ Persisting(w, k, Outcomes) \/ claim[w][k].step = "closing"
    /\ failures < MaxFailures
    /\ failures' = failures + 1
    /\ Drop(w, k)
    /\ UNCHANGED <<activityVars, queueVars, expired, bookVars, fate>>

\* The pass throws or the process dies: everything it held is forgotten.
PassFails(w) ==
    /\ ~Idle(w)
    /\ failures < MaxFailures
    /\ failures' = failures + 1
    /\ claim' = [claim EXCEPT ![w] = [k \in Activities |-> NoClaim]]
    /\ UNCHANGED <<activityVars, queueVars, expired, bookVars, fate>>

-----------------------------------------------------------------------------
(* The operator and the purge *)

Requeueable(k, s) ==
    /\ verification_state[k] = s
    /\ status[k] = "confirmed"
    /\ txHash[k]
    /\ enqueued[k] <= MaxRequeues

\* Wrong on purpose: a queued activity may be requeued as well.
RetryQueuedToo(k) ==
    /\ Requeueable(k, "none") \/ Requeueable(k, "queued")
    /\ SetState(k, "queued")
    /\ Enqueue(k)
    /\ UNCHANGED <<status, txHash, expired, bookVars, claim, failures, fate>>

RetryVerification(k) ==
    /\ Requeueable(k, "none")
    /\ SetState(k, "queued")
    /\ Enqueue(k)
    /\ UNCHANGED <<status, txHash, expired, bookVars, claim, failures, fate>>

\* Wrong on purpose: the withdrawn verdict leaves its strike behind.
ReopenKeepsStrike(k) ==
    /\ Requeueable(k, "mismatch")
    /\ SetState(k, "queued")
    /\ Enqueue(k)
    /\ UNCHANGED <<status, txHash, expired, bookVars, claim, failures, fate>>

ReopenVerification(k) ==
    /\ Requeueable(k, "mismatch")
    /\ SetState(k, "queued")
    /\ Enqueue(k)
    /\ strikes' = [strikes EXCEPT ![k] = 0]
    /\ UNCHANGED <<status, txHash, expired, counted, claim, failures, fate>>

\* The row, its job (ON DELETE CASCADE) and its strikes go; totals stay.
PurgeActivity(k) ==
    /\ status[k] \in EventStatuses
    /\ status' = [status EXCEPT ![k] = "purged"]
    /\ txHash' = [txHash EXCEPT ![k] = FALSE]
    /\ SetState(k, "none")
    /\ DeleteJob(k)
    /\ strikes' = [strikes EXCEPT ![k] = 0]
    /\ UNCHANGED <<expired, counted, claim, failures, fate>>

-----------------------------------------------------------------------------
(* Time *)

\* The lease of a claimed job or the backoff of a rescheduled one runs out.
FallsDue(k) ==
    /\ k \in jobs \ due
    /\ due' = due \cup {k}
    /\ UNCHANGED <<activityVars, jobs, enqueued, expired, bookVars, claim, failures, fate>>

\* VERIFY_MAX_AGE_DAYS pass since the oldest enqueueing still young.
WindowElapses(k) ==
    /\ expired[k] < enqueued[k]
    /\ expired' = [expired EXCEPT ![k] = @ + 1]
    /\ UNCHANGED <<activityVars, queueVars, bookVars, claim, failures, fate>>

-----------------------------------------------------------------------------
Ingest(k) ==
    \E s \in EventStatuses, tx \in BOOLEAN :
        InsertActivity(k, s, tx) \/ PromotePendingActivity(k, s, tx)

Persist(w, k) ==
    \/ RescheduleJob(w, k)
    \/ CloseUnverifiable(w, k) \/ CloseMisses(w, k) \/ CloseDeletes(w, k)
    \/ FinalizeVerification(w, k) \/ FinalizeMisses(w, k)

Operator(k) ==
    RetryVerification(k) \/ ReopenVerification(k) \/ PurgeActivity(k)

Time(k) == FallsDue(k) \/ WindowElapses(k)

Next ==
    \/ \E k \in Activities : Ingest(k) \/ Operator(k) \/ Time(k)
    \/ \E w \in Workers : PassFails(w) \/ \E K \in SUBSET Activities : ClaimDueJobs(w, K)
    \/ \E w \in Workers, k \in Activities :
          Resolve(w, k) \/ Persist(w, k) \/ PersistFails(w, k)

Spec == Init /\ [][Next]_vars

(* The poll timer keeps starting passes and claims take the oldest due job   *)
(* first (ORDER BY next_attempt_at), so a job that keeps coming due is       *)
(* claimed; a started pass runs on, and time passes.  Clients, the operator  *)
(* and failures owe nothing.                                                 *)
Fairness ==
    /\ \A k \in Activities :
          /\ WF_vars(FallsDue(k))
          /\ WF_vars(WindowElapses(k))
          /\ SF_vars(\E w \in Workers, K \in SUBSET Activities :
                        k \in K /\ ClaimDueJobs(w, K))
    /\ \A w \in Workers, k \in Activities :
          WF_vars(Resolve(w, k)) /\ WF_vars(Persist(w, k))

FairSpec == Spec /\ Fairness

-----------------------------------------------------------------------------
(* Properties *)

\* Every variable holds a value of its column or of the worker's memory.
TypeOK ==
    /\ status \in [Activities -> Statuses]
    /\ txHash \in [Activities -> BOOLEAN]
    /\ verification_state \in [Activities -> VerificationStates]
    /\ jobs \subseteq Activities
    /\ due \subseteq jobs
    /\ enqueued \in [Activities -> Nat]
    /\ expired \in [Activities -> Nat]
    /\ strikes \in [Activities -> Nat]
    /\ counted \in [Activities -> Nat]
    /\ claim \in [Workers -> [Activities -> Claims]]
    /\ failures \in Nat
    /\ fate \in [Activities -> Fates]

\* The daily totals count an activity exactly when it is verified, once,
\* however many workers finalised stale copies of its job and however often
\* the operator requeued it; a purged activity leaves at most its one count.
CountedOnce ==
    \A k \in Activities :
        IF status[k] = "purged" THEN counted[k] <= 1
        ELSE counted[k] = IF verification_state[k] \in Verified THEN 1 ELSE 0

\* An activity carries one strike while its verdict is a mismatch and none
\* otherwise: lapsed leases never strike twice, a reopened verdict takes its
\* strike along, and a launch is never struck.
StruckIffMismatch ==
    \A k \in Activities :
        strikes[k] = IF verification_state[k] = "mismatch" /\ k \notin LaunchShaped
                     THEN 1 ELSE 0

\* "A strike is only ever a proven mismatch": fewer than EndpointsNeeded
\* lagging endpoints can never make a landed, honest transaction a mismatch.
StrikeProven ==
    \A k \in Activities :
        verification_state[k] = "mismatch" => fate[k] \in Disproven

\* A verified activity has a successful receipt on chain: no timeout, error
\* or window end turns a missing or contradicted transaction into a success.
VerifiedLanded ==
    \A k \in Activities :
        verification_state[k] \in Verified =>
            fate[k] \in {"native_off", "proven_full", "proven_basic"}

\* A job waits only for a confirmed activity with a hash that is still
\* undecided, so a decided activity is never claimed again.
JobOnlyWhileQueued ==
    \A k \in jobs :
        verification_state[k] = "queued" /\ status[k] = "confirmed" /\ txHash[k]

\* A queued activity has the job that will get it decided.
QueuedHasJob ==
    \A k \in Activities : verification_state[k] = "queued" => k \in jobs

\* "An unreachable RPC is a retry with backoff, never a verdict": a full
\* verification means that every declared amount was read and agreed.
FullMeansProven ==
    \A k \in Activities :
        verification_state[k] = "verified_full" => fate[k] = "proven_full"

\* Every decision is taken on evidence read after the latest enqueueing: a
\* worker never closes or finalises with an outcome from before a requeue.
DecidedOnFreshEvidence ==
    [][\A w \in Workers, k \in Activities :
          CloseUnverifiable(w, k) \/ FinalizeVerification(w, k) =>
              claim[w][k].first = enqueued[k]]_vars

KeepsVerdict(k) ==
    status'[k] = "purged" \/
    /\ verification_state[k] \in Verified =>
          verification_state'[k] = verification_state[k]
    /\ verification_state[k] = "mismatch" =>
          verification_state'[k] \in {"mismatch", "queued"}

KeepsStatus(k) == status[k] \in Terminal => status'[k] \in {status[k], "purged"}

\* A verdict stands until the purge, or until the operator withdraws a
\* mismatch; a reported status never moves once it is terminal.
VerdictStands ==
    [][\A k \in Activities : KeepsVerdict(k) /\ KeepsStatus(k)]_vars

\* Every queued activity is decided in the end: verified, refuted, closed as
\* unverifiable or purged, whatever the RPC endpoints do.
EventuallyDecided ==
    \A k \in Activities :
        verification_state[k] = "queued" ~> verification_state[k] # "queued"

(* The lane implements the lifecycle of an activity *)
PhaseIn(s, v) ==
    IF s \in {"unseen", "pending", "purged"} THEN s
    ELSE IF v = "queued" THEN "queued"
    ELSE IF v \in Verified THEN "verified"
    ELSE IF v = "mismatch" THEN "refuted"
    ELSE "unverified"

Phase == [k \in Activities |-> PhaseIn(status[k], verification_state[k])]

Lifecycle == INSTANCE ActivityLifecycle
    WITH phase <- Phase,
         credited <- counted, struck <- strikes

\* Seen through Phase, every step of the lane is a step of the lifecycle
\* or changes nothing.
ImplementsLifecycle == Lifecycle!LifecycleSpec

=============================================================================
