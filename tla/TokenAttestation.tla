-------------------------- MODULE TokenAttestation --------------------------
(***************************************************************************)
(* Creators attest that they launched a token: a signed submission makes   *)
(* one row per signer, workers check the transaction it hints at against   *)
(* the chain, the operator may revoke the token's rows, and the public     *)
(* page shows the best row.  One token; a row is named by its signer.      *)
(*                                                                         *)
(* A submission is a transaction under one advisory lock; what it counts   *)
(* and what it inserts are separate statements.  A worker pass claims a    *)
(* batch, resolves every job outside any transaction and then persists     *)
(* the outcomes.  first_seen_at is the order of the rows in "seen".        *)
(***************************************************************************)
EXTENDS Naturals, Sequences, FiniteSets, Functions

CONSTANTS
    Signers,         \* addresses that sign: the rows of the token
    Txs,             \* well-formed transaction hashes
    Ips,             \* hashed submitter addresses
    Requests,        \* POST /v1/tokens/attest requests
    Workers,         \* attestation worker processes
    None,            \* SQL NULL
    Emitters,        \* contracts that emit creation events
    Allowlist,       \* ATTEST_FACTORY_ADDRESSES of the chain
    Truths,          \* what a transaction may hold: a subset of Transactions
    MaxPendingPerIp, \* ATTEST_MAX_PENDING_PER_IP
    MaxPending,      \* ATTEST_MAX_PENDING_GLOBAL
    Batch,           \* ATTEST_WORKER_BATCH
    MaxFailures      \* bound: failed writes and process deaths

VARIABLES
    truth,           \* what each transaction does once it is included
    confirmed,       \* those with ATTEST_MIN_CONFIRMATIONS blocks on top
    row,             \* token_attestations, per signer
    seen,            \* the rows by first_seen_at
    due,             \* rows whose next_attempt_at is past
    aged,            \* rows older than ATTEST_MAX_AGE_DAYS
    submission,      \* per request: how far it is and what it carries
    submitLock,      \* the request that holds the advisory lock
    job,             \* per worker and signer: the claimed job or its outcome
    failures         \* failed writes and process deaths so far

chainVars == <<truth, confirmed>>
rowVars == <<row, seen>>
requestVars == <<submission, submitLock>>
vars == <<chainVars, rowVars, due, aged, requestVars, job, failures>>

-----------------------------------------------------------------------------
(* Values *)

\* An event names the attested token or another one.
Events == [emitter : Emitters, named : BOOLEAN, creator : Signers]
Transactions == [reverted : BOOLEAN, events : SUBSET Events]

VerifyStatuses == {"unverified", "verified", "mismatch", "unverifiable"}
RowValues == [there : BOOLEAN, status : VerifyStatuses, hint : Txs \cup {None},
              derived : Txs \cup {None}, ip : Ips \cup {None}, revoked : BOOLEAN]
NoRow == [there |-> FALSE, status |-> "unverified", hint |-> None,
          derived |-> None, ip |-> None, revoked |-> FALSE]

SubmissionSteps == {"idle", "locked", "inserting", "done"}
Submissions == [step : SubmissionSteps, signer : Signers \cup {None},
                ip : Ips \cup {None}, hint : Txs \cup {None}]
NoSubmission == [step |-> "idle", signer |-> None, ip |-> None, hint |-> None]

Outcomes == {"reschedule", "unverifiable", "verified", "mismatch"}
Jobs == [step : {"none", "claimed"} \cup Outcomes, hint : Txs \cup {None}]
NoJob == [step |-> "none", hint |-> None]

ASSUME AttestationAssumption ==
    /\ None \notin Signers \cup Txs \cup Ips \cup Requests
    /\ IsFiniteSet(Signers)
    /\ Allowlist \subseteq Emitters
    /\ Truths \subseteq Transactions
    /\ MaxPendingPerIp \in Nat \ {0} /\ MaxPending \in Nat \ {0}
    /\ Batch \in Nat \ {0} /\ MaxFailures \in Nat

-----------------------------------------------------------------------------
(* Evaluating a receipt: pure *)

NamingToken(t) == {e \in t.events : e.named}
FromFactory(t) == {e \in NamingToken(t) : e.emitter \in Allowlist}

\* Wrong on purpose: the creator may be named by any contract.
EvaluateAnyEmitter(t, s) ==
    IF t.reverted \/ FromFactory(t) = {} THEN "mismatch"
    ELSE IF \E e \in NamingToken(t) : e.creator = s THEN "verified" ELSE "mismatch"

\* evaluateAttestationVerification, for a receipt with its confirmations.
EvaluateAttestation(t, s) ==
    IF t.reverted \/ NamingToken(t) = {} THEN "mismatch"
    ELSE IF FromFactory(t) = {}
         THEN IF Allowlist = {} THEN "retry" ELSE "mismatch"
    ELSE IF \E e \in FromFactory(t) : e.creator = s THEN "verified" ELSE "mismatch"

\* Wrong on purpose: no age ends the waiting.
OutcomesForEver(s, hint) ==
    LET verdict == IF hint \notin confirmed THEN "retry"
                   ELSE EvaluateAttestation(truth[hint], s)
    IN {"reschedule"} \cup (IF verdict = "retry" THEN {} ELSE {verdict})

\* resolveAttestationOutcome: no hint, an unreadable or missing receipt, an
\* unread head and too few confirmations all wait, until the row is too old.
OutcomesOf(s, hint) ==
    LET giveUp == IF s \in aged THEN "unverifiable" ELSE "reschedule"
        verdict == IF hint \notin confirmed THEN "retry"
                   ELSE EvaluateAttestation(truth[hint], s)
    IN {giveUp} \cup (IF verdict = "retry" THEN {} ELSE {verdict})

-----------------------------------------------------------------------------
Init ==
    /\ truth \in [Txs -> Truths]
    /\ confirmed = {}
    /\ row = [s \in Signers |-> NoRow]
    /\ seen = <<>>
    /\ due = {}
    /\ aged = {}
    /\ submission = [q \in Requests |-> NoSubmission]
    /\ submitLock = None
    /\ job = [w \in Workers |-> [s \in Signers |-> NoJob]]
    /\ failures = 0

\* Until then a transaction may be pending, included, or dropped again by a
\* reorganisation: a reader cannot decide on any of these.
Confirm(x) ==
    /\ x \notin confirmed
    /\ confirmed' = confirmed \cup {x}
    /\ UNCHANGED <<truth, rowVars, due, aged, requestVars, job, failures>>

FallsDue(s) ==
    /\ row[s].there /\ s \notin due
    /\ due' = due \cup {s}
    /\ UNCHANGED <<chainVars, rowVars, aged, requestVars, job, failures>>

RowAges(s) ==
    /\ row[s].there
    /\ aged' = aged \cup {s}
    /\ UNCHANGED <<chainVars, rowVars, due, requestVars, job, failures>>

-----------------------------------------------------------------------------
(* Submissions *)

Pending(s) == row[s].there /\ row[s].status = "unverified" /\ ~row[s].revoked
PendingOf(ip) == Cardinality({s \in Signers : Pending(s) /\ row[s].ip = ip})
PendingCount == Cardinality({s \in Signers : Pending(s)})

\* Wrong on purpose: submissions do not wait for each other.
LockSubmissionFreely(q, s, ip, hint) ==
    /\ submission[q].step = "idle"
    /\ submission' = [submission EXCEPT ![q] =
            [step |-> "locked", signer |-> s, ip |-> ip, hint |-> hint]]
    /\ UNCHANGED <<chainVars, rowVars, due, aged, submitLock, job, failures>>

\* A request whose signature recovers to a signer gets pg_advisory_xact_lock.
LockSubmission(q, s, ip, hint) ==
    /\ submission[q].step = "idle"
    /\ submitLock = None
    /\ submitLock' = q
    /\ submission' = [submission EXCEPT ![q] =
            [step |-> "locked", signer |-> s, ip |-> ip, hint |-> hint]]
    /\ UNCHANGED <<chainVars, rowVars, due, aged, job, failures>>

Finish(q) ==
    /\ submission' = [submission EXCEPT ![q] = [NoSubmission EXCEPT !.step = "done"]]
    /\ submitLock' = IF submitLock = q THEN None ELSE submitLock

\* The signer's row exists: an undecided one takes the hint if it has none,
\* and that is all, revoked or not.
RefreshExistingRow(q) ==
    LET s == submission[q].signer IN
    /\ submission[q].step = "locked"
    /\ row[s].there
    /\ row' = [row EXCEPT ![s].hint = IF row[s].status = "unverified" /\ @ = None
                                      THEN submission[q].hint ELSE @]
    /\ Finish(q)
    /\ UNCHANGED <<chainVars, seen, due, aged, job, failures>>

CapReached(ip) == PendingOf(ip) >= MaxPendingPerIp \/ PendingCount >= MaxPending

CountPending(q) ==
    /\ submission[q].step = "locked"
    /\ ~row[submission[q].signer].there
    /\ IF CapReached(submission[q].ip) THEN Finish(q)
       ELSE /\ submission' = [submission EXCEPT ![q].step = "inserting"]
            /\ UNCHANGED submitLock
    /\ UNCHANGED <<chainVars, rowVars, due, aged, job, failures>>

InsertRow(q) ==
    LET s == submission[q].signer IN
    /\ submission[q].step = "inserting"
    /\ ~row[s].there
    /\ row' = [row EXCEPT ![s] = [NoRow EXCEPT !.there = TRUE, !.hint = submission[q].hint,
                                               !.ip = submission[q].ip]]
    /\ seen' = Append(seen, s)
    /\ due' = due \cup {s}
    /\ Finish(q)
    /\ UNCHANGED <<chainVars, aged, job, failures>>

\* A statement fails: the transaction rolls back and lets the lock go.
SubmissionFails(q) ==
    /\ submission[q].step \in {"locked", "inserting"}
    /\ failures < MaxFailures
    /\ failures' = failures + 1
    /\ Finish(q)
    /\ UNCHANGED <<chainVars, rowVars, due, aged, job>>

-----------------------------------------------------------------------------
(* Verification passes and the operator *)

DueRows == {s \in due : Pending(s)}

\* UPDATE ... SET next_attempt_at = now() + lease ... SKIP LOCKED: a row that
\* a submission or another pass holds for the moment is skipped.
ClaimDueAttestations(w, S) ==
    /\ \A s \in Signers : job[w][s] = NoJob
    /\ S # {} /\ S \subseteq DueRows /\ Cardinality(S) <= Batch
    /\ due' = due \ S
    /\ job' = [job EXCEPT ![w] = [s \in Signers |->
            IF s \in S THEN [step |-> "claimed", hint |-> row[s].hint] ELSE NoJob]]
    /\ UNCHANGED <<chainVars, rowVars, aged, requestVars, failures>>

ResolveAttestation(w, s) ==
    /\ job[w][s].step = "claimed"
    /\ \E o \in OutcomesOf(s, job[w][s].hint) : job' = [job EXCEPT ![w][s].step = o]
    /\ UNCHANGED <<chainVars, rowVars, due, aged, requestVars, failures>>

\* Outcomes are written after the whole batch is resolved.
Persisting(w, s) ==
    /\ job[w][s].step \in Outcomes
    /\ \A u \in Signers : job[w][u].step # "claimed"

Drop(w, s) == job' = [job EXCEPT ![w][s] = NoJob]

\* Whatever the row has become, its attempts and next attempt are written.
RescheduleAttestation(w, s) ==
    /\ Persisting(w, s)
    /\ job[w][s].step = "reschedule"
    /\ due' = due \ {s}
    /\ Drop(w, s)
    /\ UNCHANGED <<chainVars, rowVars, aged, requestVars, failures>>

\* Wrong on purpose: the verdict is written over an earlier one.
FinalizeBlindly(w, s) ==
    /\ Persisting(w, s)
    /\ job[w][s].step # "reschedule"
    /\ row' = [row EXCEPT ![s].status = job[w][s].step,
                  ![s].derived = IF job[w][s].step = "verified" THEN job[w][s].hint ELSE @]
    /\ Drop(w, s)
    /\ UNCHANGED <<chainVars, seen, due, aged, requestVars, failures>>

\* finalizeAttestation and terminalizeUnverifiable: a compare-and-swap on
\* 'unverified'; a revocation meanwhile does not stop it.
FinalizeAttestation(w, s) ==
    /\ Persisting(w, s)
    /\ job[w][s].step # "reschedule"
    /\ row' = IF row[s].status # "unverified" THEN row
              ELSE [row EXCEPT ![s].status = job[w][s].step,
                        ![s].derived = IF job[w][s].step = "verified"
                                       THEN job[w][s].hint ELSE @]
    /\ Drop(w, s)
    /\ UNCHANGED <<chainVars, seen, due, aged, requestVars, failures>>

\* One outcome cannot be written: the others are, the lease brings it back.
PersistFails(w, s) ==
    /\ Persisting(w, s)
    /\ failures < MaxFailures
    /\ failures' = failures + 1
    /\ Drop(w, s)
    /\ UNCHANGED <<chainVars, rowVars, due, aged, requestVars>>

WorkerDies(w) ==
    /\ \E s \in Signers : job[w][s] # NoJob
    /\ failures < MaxFailures
    /\ failures' = failures + 1
    /\ job' = [job EXCEPT ![w] = [s \in Signers |-> NoJob]]
    /\ UNCHANGED <<chainVars, rowVars, due, aged, requestVars>>

\* The operator's 'attest revoke': every row the token has at this moment.
RevokeAttestations ==
    /\ \E s \in Signers : row[s].there /\ ~row[s].revoked
    /\ row' = [s \in Signers |-> [row[s] EXCEPT !.revoked = row[s].there]]
    /\ UNCHANGED <<chainVars, seen, due, aged, requestVars, job, failures>>

-----------------------------------------------------------------------------
(* The public page *)

DisplayStatus(s) == IF row[s].revoked THEN "revoked" ELSE row[s].status

RankOf(status) ==
    CASE status = "verified" -> 0
      [] status = "unverified" -> 1
      [] status \in {"mismatch", "unverifiable"} -> 2
      [] status = "revoked" -> 3

\* Wrong on purpose: the query ranks a revoked row by its verdict.
RankSqlForgetsRevoked(s) == RankOf(row[s].status)

\* DISPLAY_STATUS_RANK_SQL
RankSql(s) ==
    IF row[s].revoked THEN 3 ELSE IF row[s].status = "verified" THEN 0
    ELSE IF row[s].status = "unverified" THEN 1 ELSE 2

Position(s) == CHOOSE i \in DOMAIN seen : seen[i] = s
Ahead(s, u) ==
    RankSql(s) < RankSql(u) \/ (RankSql(s) = RankSql(u) /\ Position(s) < Position(u))

\* attestationCandidatesFor: the first n rows by rank and age.
Candidates(n) ==
    {s \in Range(seen) : Cardinality({u \in Range(seen) : Ahead(u, s)}) < n}

Better(s, u) ==
    LET rs == RankOf(DisplayStatus(s)) ru == RankOf(DisplayStatus(u)) IN
    rs < ru \/ (rs = ru /\ Position(s) < Position(u))

\* bestAttestationCandidate
BestOf(S) == CHOOSE s \in S : \A u \in S \ {s} : Better(s, u)

-----------------------------------------------------------------------------
SubmissionStep(q) ==
    \/ \E s \in Signers, ip \in Ips, h \in Txs \cup {None} : LockSubmission(q, s, ip, h)
    \/ RefreshExistingRow(q) \/ CountPending(q) \/ InsertRow(q)

PassStep(w) ==
    \E s \in Signers :
        ResolveAttestation(w, s) \/ RescheduleAttestation(w, s) \/ FinalizeAttestation(w, s)

Next ==
    \/ RevokeAttestations
    \/ \E x \in Txs : Confirm(x)
    \/ \E s \in Signers : FallsDue(s) \/ RowAges(s)
    \/ \E q \in Requests : SubmissionStep(q) \/ SubmissionFails(q)
    \/ \E w \in Workers :
        \/ \E S \in SUBSET Signers : ClaimDueAttestations(w, S)
        \/ PassStep(w) \/ WorkerDies(w)
        \/ \E s \in Signers : PersistFails(w, s)

\* The loop ticks for ever, a pass ends, time passes, and a due row is not
\* always locked by someone else when the batch is claimed.
Fairness ==
    /\ \A w \in Workers :
        /\ SF_vars(ClaimDueAttestations(w, DueRows))
        /\ WF_vars(PassStep(w))
    /\ \A s \in Signers : WF_vars(FallsDue(s)) /\ WF_vars(RowAges(s))

Spec == Init /\ [][Next]_vars /\ Fairness

-----------------------------------------------------------------------------
(* Properties *)

\* Every variable has its type.
TypeOK ==
    /\ truth \in [Txs -> Truths]
    /\ confirmed \subseteq Txs
    /\ row \in [Signers -> RowValues]
    /\ seen \in Seq(Signers)
    /\ due \subseteq Signers /\ aged \subseteq Signers
    /\ submission \in [Requests -> Submissions]
    /\ submitLock \in Requests \cup {None}
    /\ job \in [Workers -> [Signers -> Jobs]]
    /\ failures \in Nat

\* The rows that wait for a verdict never exceed the caps, per submitter or in
\* all, although counting and inserting are two statements of rival requests.
PendingWithinCaps ==
    /\ PendingCount <= MaxPending
    /\ \A ip \in Ips : PendingOf(ip) <= MaxPendingPerIp

\* A verified row names a confirmed transaction in which an allowlisted
\* factory created this token for this signer; that transaction is the row's
\* hint, which no later submission has changed under the verdict.
VerifiedIsProven ==
    \A s \in Signers : row[s].status = "verified" =>
        LET x == row[s].derived IN
        /\ x \in Txs /\ x = row[s].hint
        /\ x \in confirmed /\ ~truth[x].reverted
        /\ \E e \in truth[x].events : e.named /\ e.emitter \in Allowlist /\ e.creator = s

\* The page shows the same row however few candidates the query returns, and
\* a revoked one only when there is no other: rank in SQL and in code agree.
ShownIsBest ==
    seen # <<>> => \A n \in 1 .. Len(seen) : BestOf(Candidates(n)) = BestOf(Range(seen))

\* A verdict stands: no late pass, resubmission or revocation changes it.
VerdictStands ==
    [][\A s \in Signers : row[s].status # "unverified" =>
        row'[s].status = row[s].status /\ row'[s].derived = row[s].derived]_rowVars

\* An attestation does not stay pending for ever, whatever the chain's
\* endpoints answer and whichever submissions arrive.
EventuallyDecided == \A s \in Signers : Pending(s) ~> ~Pending(s)

=============================================================================
