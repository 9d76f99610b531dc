# AgentScan, specified

AgentScan records what trading agents report about their on-chain activity,
verifies each report against the chain, prices it, and publishes totals and
feeds.  This directory holds TLA+ specifications of its core, small instances
that TLC model-checks, and proofs that TLAPS checks.  Every definition is
translated from the source; `PROJECT.json` maps each one to its lines.

## The system

One Postgres database is the only shared state.  Four kinds of process write
it: the API (ingest, registration, handshake, attestations, public reads), the
worker (verification, attestation and pricing loops, purge sweep, heartbeat),
the operator's CLI, and a cron job that runs the sweep.  The API and the worker
run in several replicas (`infra/apps.tf`: up to two workers).  They coordinate
through rows only: compare-and-swap updates, leases in a `next_attempt_at`
column, `FOR UPDATE SKIP LOCKED`, unique keys and advisory locks, all at READ
COMMITTED.

| component | state | operations | talks to | hard behaviour | what makes it correct |
|---|---|---|---|---|---|
| ingest | `activities.status`, `tx_hash`, `statuses_seen` | insert, promote, append, duplicate | enqueues verification jobs; reads agent status | reports late, twice, out of order; status read once per batch | status moves one way; a confirmed activity is queued exactly when its job exists |
| verification lane | `verification_state`, `verification_jobs`, a worker's memory | claim, resolve, reschedule, close, finalise | RPC endpoints; daily totals; strikes | lapsed leases, stale outcomes, crash in a pass, lagging endpoints, window end | one count, one strike, proven verdicts, nothing lost, everything decided |
| agent standing | `agents.status`, `revoked_at`, `strike_count`, `strikes` | register, revoke, strike, lift, reopen | ingest, verdicts, purge | several writers of one status | strikes match mismatches; quarantine only on independent failures; revocation holds |
| purge | `purged_at`; deletes data | find due agents, purge each, drop expired hits and challenges | agents, activities, strikes, wallets | list read before use; batches in flight | revoked data goes, other data stays |
| operator CLI | none | verify retry/reopen, quarantine lift, purge, pricing requeue, attestation revoke | all of the above | runs beside the workers | repairs and never breaks the books |
| pricing lane | `pricing_state`, attempts, priced volume | claim, price, publish, reschedule, exhaust, requeue | price feed and cache | lapsed leases, partial failure | each priced activity in the volume once |
| price cache | `token_prices` | read, upsert | pricing lane | concurrent fetches | hits are permanent |
| handshake | challenges, `agent_wallets`, names, token | start, complete | agents | concurrent completions | a challenge is used once; a wallet has one owner |
| token attestations | `token_attestations` | submit, refresh hint, verify, revoke | RPC endpoints | caps, stale verdicts, revocation | caps hold; a verdict is for its hint |
| rate limiter | `rate_limit_hits` | allow, expire | API routes | concurrent calls, clocks | never more than the limit in a window; `Retry-After` suffices |
| response cache | in-memory map of promises | get | public routes | failing and expired loads | one load per key, no failure cached |
| heartbeat, health | `worker_heartbeat` | beat, read | - | stuck loops | health tells |
| agent metrics | none (pure) | FIFO realised result, breakdowns | public routes | partial lots | quantities conserved |
| public read API | none | feeds, pages, totals | all tables | paging while rows move | only visible rows, none twice |
| chain registry, wire contract | static | lookups, schemas | ingest, verification | - | - |
| simulator, web app, deployment | - | - | - | - | - |

`PROJECT.json` lists the components with their files and status, and every
hazard with its line and the properties that cover it.

## Modules

**ActivityLifecycle** is what the pipeline promises about one activity: it
arrives, settles once, is verified, refuted or given up while queued, may be
looked at again on the operator's word, and is forgotten by the purge; its
credit and its strike change in the very step that decides it.

**VerificationLane** is the detailed specification.  An action is one
committed transaction, or one statement where a transaction holds no lock
between two (`CloseMisses`, `CloseDeletes`).

| variables | code |
|---|---|
| `status`, `txHash`, `verification_state` | columns of `activities` |
| `jobs`, `due`, `enqueued` | rows of `verification_jobs`; `next_attempt_at <= now()`; `first_attempt_at`, as the ordinal of the enqueueing |
| `expired` | which enqueueings are older than `VERIFY_MAX_AGE_DAYS` |
| `strikes`, `counted` | rows of `strikes` naming the activity; additions to `daily_aggregates` |
| `claim` | what a worker's pass holds in memory: the job as claimed, then its outcome |
| `fate` | what the chain holds; `Lagging` endpoints may miss it |

The actions are `InsertActivity`, `PromotePendingActivity` (ingest);
`ClaimDueJobs`, `Resolve`, then one of `RescheduleJob`, `CloseUnverifiable`,
`CloseMisses` + `CloseDeletes`, `FinalizeVerification`, `FinalizeMisses`
(worker); `PersistFails`, `PassFails` (failures); `RetryVerification`,
`ReopenVerification` (CLI); `PurgeActivity`; `FallsDue`, `WindowElapses` (time).
`Resolve` reads the chain and no row, so it may happen at any time after the
claim.  The whole batch is resolved before its first outcome is written, as in
`runVerificationPass`.  Backoff attempts and delays are left out: they only
decide when a job falls due, which may happen at any time here, as it may with
clocks and pauses.  What `evaluateVerification` compares (addresses, amounts,
logs) is abstracted to `VerdictsOn`: the verdicts each truth about the
transaction allows.  Ingest's `ON CONFLICT DO NOTHING` and the operator's `DO
UPDATE` are one `Enqueue`: an activity that ingest may still move has no job
(`JobOnlyWhileQueued`).

**AgentStanding** models every writer of the `agents` row: `Register`,
`Revoke`, `RecordStrike`, `RestoreAgentStanding` (in `ReopenVerification`),
`LiftQuarantine` and the purge, with the ingest request that acts on a status
it read (`Authenticate`, `IngestEvent`, `EndBatch`) and the sweep that acts on a
list it read (`FindAgentsDueForPurge`, `PurgeAgentData`, `SweepFails`).
Verdicts appear as their effect on the activity.  `drifted` is a history
variable: the agents lifted or purged so far, whose counter the code lets
differ from their rows.

**PricingLane** is the worker's second loop with the cache of hourly prices.

| variables | code |
|---|---|
| `shape` | an activity's legs, hour, settlement time and whether its role deploys capital |
| `verified` | activities `finalizeVerification` has set to a verified tier |
| `pricing_state`, `attempts`, `due`, `usd` | `pricing_state`, `pricing_attempts`, the lease column, `server_usd_in/out` |
| `booked` | what was added to `daily_aggregates.volume_usd` |
| `cached`, `recent` | rows of `token_prices`, misses younger than `PRICE_MISS_RETRY_HOURS` |
| `pass` | what a pass holds in memory: leased rows, attempts read, prices, points still to write |

`ClaimDuePricingRows` takes the lease; per hour, `ReadTokenPrices` reads the
cache, `FetchPoints` or `FeedUnavailable` is the answer of the feed,
`UpsertTokenPrice` writes each point; `PriceRow` decides and settles one row
(`Publish`, `ReschedulePricing`, or an exhausting close), `PriceRowThrows`
fails before or after the commit and `ContainRowFailure` reschedules.
`RequeueUnpriced` is the operator's command.  Amounts are one unit, so a dollar
amount is a price, and 0 is SQL NULL.

**Handshake** takes the API's `POST /v1/agents/session/complete` apart into its
statements, since completions race: the claim of the challenge (`ClaimChallenge`,
`ClaimInvalid`), the gate (`PassGate`), and the transaction's registration,
wallet by wallet reassignment (`ClaimWallet`), naming under savepoints
(`AssignAgentName`), commit, rollback and the deadlock Postgres breaks.
`agentLock` and `walletLock` are row locks and in-flight unique keys; `claims`
and `committed` are histories.  Signature checks enter as proofs that pass or
are refused.

**TokenAttestation** is one token: `POST /v1/tokens/attest` under its advisory
lock (`LockSubmission`, `CountPending`, then insert, refresh of the hint or
refusal), the attestation loop (`ClaimDueAttestations`, `ResolveAttestation`,
`FinalizeAttestation`, `RescheduleAttestation`), the operator's
`RevokeAttestations`, and the row the page shows (`Candidates`, `BestOf`).
`truth` is what a transaction did, `confirmed` which have enough blocks on top.

**Ingest** is `POST /v1/events`: a batch is a sequence of events; each is
validated (`EventSchema`), decided under `FOR UPDATE` (`SelectExisting`,
`DecideIngest`) and applied with its job in one commit.  `RequestFails` is a
lost connection, a crash or a lost answer; the same batch may be posted again.
`SettleVerification` stands for the lane, which takes the job away.  A row
keeps the columns ingest decides by: status, statuses seen, hash, the second
leg's token and executed amount, and the failure code.

**RateLimiter** is one key's row of `rate_limit_hits` under the transaction's
advisory lock: `ReadHits`, `WriteHits` (with the pure `DecideSlidingWindow`),
`RollBack`, and the sweep's `DeleteExpiredRateLimitHits`.  The clock counts
`Second` ticks to a second, since the window is in milliseconds and
`Retry-After` in seconds.

**AgentPage** is `GET /api/agents/:name` on one process, through the two
`TtlCache`s it uses one after the other.  `entry` holds whose promise is cached
and its expiry, `load` every load started; a failing load deletes the entry of
its key.  Other handlers put one cache around one read, which this includes.

**ReadRows**, **RankingReads**, **TokenReads**, **NetworkReads** and
**AgentMetrics** are the read side as operators, each the value one query (or
one pure function) returns over a set of rows: visibility, feed pages and
cursors; leaderboard, protocol ranking, coverage, charts; token listing and
pages; networks and bridge routes; the figures of an agent's page, FIFO
matching included.  **ActivityFeed** is the table under them: rows arrive, are
promoted, judged and priced (the writers above, reduced to the columns reads
look at), the clock ticks, and a reader walks through the feed with the cursors
it is given.  `walk` is what the reader holds, and `steady` the history of the
rows that kept their place since it began.  **PublicReads** is that table with
all the other reads, and states what their answers owe each other.

### How they fit together

`VerificationLane` implements `ActivityLifecycle`.  `Ingest` refines its
`InsertActivity` and `PromotePendingActivity` into statements of rival requests;
`AgentStanding` looks at the verdicts of the lane as their effects on the
agent; `PricingLane` begins where `FinalizeVerification` ends, an action it
shares with the lane; `ActivityFeed` takes each writer as one step on its
columns and keeps the daily aggregates beside the rows, so that `PublicReads`
can compare sums over both.

`MC*` modules give TLC its instances; `*Proofs` modules hold the theorems.
Definitions commented "Wrong on purpose" are the mutants named in
`PROJECT.json`: each breaks one property, which shows that the property depends
on the code it is about.

## What the runs check

| run | shows | bounds |
|---|---|---|
| `lane_two_workers` | one count, one strike, proven verdicts; verdicts stand; the lifecycle is implemented | 1 activity, 2 workers, all 7 fates, 3 endpoints of which 1 lags and 2 must agree, 2 requeues, 1 failure |
| `lane_one_worker` | no job lost, decisions on fresh evidence, every queued activity decided | 2 activities, one a launch, competing for a batch of 1; 1 worker, 1 requeue, 1 failure; fair |
| `standing_one_agent` | strikes are mismatches, the counter is the rows, quarantine on independent shapes, revoked data goes while the status stays revoked | 4 activities: 2 alike, 1 exempt; threshold 2, counter up to 4; fair |
| `pricing_lane` | the volume is what was published, an outage settles nothing, hits are permanent, published prices stand, every verified activity settles | 1 activity of six shapes, 2 workers, 2 tokens, 1 hour, 1 refused point, 2 attempts, 1 requeue, 1 failure; fair |
| `handshake` | a challenge serves once, bindings serialise, names identify, every completion is answered | 2 agents, 3 wallets, 2 challenges, 2 completions, a short name both may get, 1 failure; fair |
| `attestation` | caps, proven rows, best row shown, verdicts stand, everything decided | 2 signers, 1 transaction with a factory and a rogue event, 1 submitter, 2 requests, 2 workers, caps 1 and 2, 1 failure; fair |
| `ingest` | what was answered is stored once, what is admitted can be stored, confirmed rows are queued, terminal rows stand, every batch is answered | 2 keys, 8 batches of at most 3 events, 2 requests, 2 failures; fair |
| `rate_limiter` | no window above the limit, `Retry-After` long enough | 2 requests again and again, limit 2, a window of 2 s at 2 ticks each, rows kept 3 s, a wait of at most 2 ticks, 8 ticks |
| `agent_page` | a page and an answer are at most one TTL old | 2 requests, 2 caches, TTL 2, 4 ticks, 1 failed query |
| `public_reads` | the feed walk loses and repeats nothing, pages join up to the ranking, reads agree, the agent page keeps its books | 2 rows out of 5 reports, pages of 1, 2 days, 2 ticks to a cursor's millisecond, 4 to the second that orders trades |
| `lane_unread_value` | **violated**: a swallowed RPC error ends in `verified_full` (README of the repository, line 23) | as the first, 1 worker |
| `standing_never_purged` | **violated**: a late strike replaces `revoked`, and the sweep never finds the agent | threshold 2, fair |

Why the bounds are enough.  *Lane:* two workers and one activity make every race
on a job, since jobs meet only in batches; two requeues let a stale outcome
survive a whole close-and-requeue cycle; one lagging endpoint of three with two
needed is the smallest case where corroboration can go right or wrong.
*Standing:* threshold 2 with two like failures tells shapes from counts.
*Pricing:* rows meet only through the cache, and two passes over one activity
with two legs already make a stale lease, a half priced row, a retry that
exhausts and a requeue under it.  *Handshake:* three wallets and two completions
are the smallest case in which a rival set may overlap in part, and the order of
two of them the smallest deadlock.  *Attestation:* one slot per submitter and two
rival submissions make the race for the cap; with a single submitter the global
cap is reached only through the per-submitter one, and is left to the proof.
*Ingest:* two requests and two events decide the unique key race; the third event
of a batch shows that a bad one does not hold back the rest.  *Limiter:* eight
ticks are two windows, so hits leave the window, tie and are swept.  *Page:* two
requests share a load or replace it; four ticks are two TTLs.  *Reads:* two rows
tie, pair up (a buy and its sale, a deposit and its fill) or fall on two days.
`Max*` constants bound failures, requeues, rows and time; nothing else is cut.

Runs that say `CHECK_DEADLOCK FALSE` are bounded by such a counter and rightly
stop when it is used up and all work is done.

### Fairness

* *Lane:* `WF` of time and of a running pass's steps; `SF` of the claim of each
  job: the poll timer starts a pass whenever none is in flight, and `ORDER BY
  next_attempt_at` takes the oldest first.  Failures are bounded by
  `MaxFailures`.
* *Standing:* the sweep runs on an interval (`WF`); an agent found due again and
  again is not failed every time (`SF`); a request ends.
* *Pricing:* `WF` of the claim, of a pass's steps (requests have time limits) and
  of leases and delays running out.
* *Handshake:* `WF` of each claimed completion's next statement: Postgres grants
  free locks and breaks every deadlock.
* *Attestation:* `SF` of the claim of the due rows (a submission may lock one of
  them now and then), `WF` of a pass's steps and of time; a hint that never
  confirms ends by the row's age.
* *Ingest:* `SF` of each request's next statement: row locks are handed on in
  turn.  A client that was answered 500 posts again.

Clients, the operator, the purge and the feed's answers owe nothing.

## What is proved

`tlapm` proves 49 theorems in eight modules for every value of the constants
(any agents, activities, workers, requests, wallets, batches, caps, bounds) from
the named `ASSUME` of each module.  Each has the same shape: an invariant
stronger than the property, one lemma per action or group of actions that
preserves it, and a temporal step.

* **VerificationLaneProofs**: types, one count, one strike, jobs only while
  queued, proven strikes, landed verdicts, standing verdicts, and
  `LaneImplementsLifecycle`, the whole refinement.
  `StateNeedsConfirmation` (only a confirmed activity is queued or decided) stops
  an arriving report from disturbing the books.  `HeldVerdictsSound` (a verdict
  in a worker's memory agrees with the chain) carries soundness from `Resolve`
  over any delay to the write; it rests on `MissingIsAbsent`, a counting
  argument: endpoints that answered "absent" of a landed transaction are among
  the lagging, fewer than `EndpointsNeeded`.  That assumption is the operator's
  choice of `VERIFY_CORROBORATING_ENDPOINTS`.  `LaneQueuedHasJob` and
  `LaneDecidesOnFreshEvidence` assume `OneWorker` (two workers break both, see
  Known gaps) and nothing else: no bound on activities, requeues or failures.
  `FreshInv` says that a job in the worker's memory is of the latest enqueueing
  and its activity still queued, unless the purge took both: whoever else decides
  would be another worker, and the operator's commands pass over what is queued.
  Only a purged activity then makes a close miss, and what it deletes is nothing.
* **AgentProofs**: what holds of one agent.  Its standing: types, strikes are
  mismatches, the counter is the rows, quarantine needs shapes.  A strike is
  recorded only for a queued activity, which has no row yet, and a reopen
  withdraws one row or none.  Its page: `PagesAreFresh` and `AnswersAreRecent`,
  since a shared load was started before its entry expires and reads after it was
  started, and the entry was alive when the request joined it.
* **PricingLaneProofs**: types, `VolumeIsRight`, `OutageNeverSettles`,
  `HitsStayForGood`, `PricesStand`.  `PricingInv` adds `MissesWereAnswered`: a miss
  in a pass's memory or in the cache is one the feed gave, so a stale pass may
  publish on it.
* **IngestProofs**: types, `NothingAnsweredIsLost`, `AdmittedNeverRefused`,
  `ConfirmedReachesVerification`, `TerminalNeverChanges`.  `IngestInv` adds
  `RowsSound` (a row satisfies the table's CHECK and lists each status once),
  `RequestsSound` (the event in hand was admitted, and a decision other than an
  insert is still the one the row calls for, because its lock is held; an insert
  may be late, and the unique key refuses it) and `HandledIsStored` (the statuses
  of the events a request has passed are in their rows).
* **TokenAttestationProofs**: types, `VerifiedIsTrue`, `CapsHold`, `VerdictIsFinal`.
  The evidence part says that a job in memory names the hint its resolution
  looked at and the write compares it; the caps part says that a submission
  between count and insert holds the lock and that there is room for it
  (`RoomIsKept`), a fact about cardinalities that resolution can only improve.
  `PageShowsBest` needs the types alone: candidates are ordered by the SQL rank
  and then by age, the code looks for the best rank among them, and a best row is
  never cut off by one that is not better (`AheadIsShown`).
* **HandshakeProofs**: types, `ChallengeIsBurnt`, `BindingsAreSerial`,
  `NamesAreUnique`.  The invariant says that a transaction holds exactly the
  locks of the wallets it has claimed, so what is written in an open transaction
  is invisible to the others and, when the order of wallets is used up, covers
  all of them (`OrderCovers`, a pigeonhole lemma); a commit then extends the
  serial history by one.
* **RateLimiterProofs**: types, `RowHoldsTheWindow`, `LimitHolds`,
  `RefusalsLastLongEnough`.  `RowInv` says that the row is the tail of what was let
  through and that the rest has left the window: trimming drops only old hits, and
  the sweep comes no sooner than `Retain`, the longest window of any scope, after
  the row's last transaction began.  `LimiterAssumption` asks that this covers the
  window and the wait for the lock: by default the 60 s of ingest have an hour to
  spare, while the scopes whose window is the longest have no slack and are
  covered only as far as a transaction stays within one tick.  Requests let through `Limit` places apart are then a window apart
  (`Spaced`), which bounds every window (`FewBetween`); a refused client waits for
  a hit of its window (`RefusalNamesAHit`), and rounding up covers the wait.
* **PublicApiProofs**: the feed, the aggregates and every read.
  * *Feed.*  `WalkKeepsItsPlace` is the invariant `FeedInv`: ids are places in the
    table, and a steady row is either unseen and after the cursor of an open walk,
    or seen once and not after it.  A page is the rows after the cursor by place
    (`RankedInOrder`: a row's place is the number of rows before it, and an
    injection into as many places takes all).  The cursor keeps milliseconds of a
    finer time; because the order and the comparison both truncate, the cursor
    still splits the feed where the page ended.  `WalkIsComplete` follows.
  * *Aggregates.*  `AggregatesAreTheRows` is `BooksInv`: an entry exists exactly
    for the agent, day and protocol of verified rows, counts them, and holds what
    the pricing passes added for them (`Booked`).  A step changes one row and one
    entry by the same amount (`SumChange`).  `AggregatesSayWhatRowsSay` follows:
    totals of the aggregates exceed the sums over rows by exactly the rows whose
    received leg alone is priced.
  * *Rankings.*  `RankingPagesJoin`: a ranking holds each entry at its place, so
    the entries after a cursor are the rest of the ranking (`RestOfRanking`), a
    page is the next of them, and as many pages as there are entries, and one,
    read them all (`PagesAreTheRanking`, by the first page that would not).
  * *Shares.*  `RankingsShareOut`, `TokensTellOneStory` and
    `NetworksCountTheSameRows` compare sums and counts over sets of rows or of
    legs: two figures agree because the parts of a panel are disjoint and cover
    the whole (`SumOfParts`, `CountOfParts`, `Shares`) or because one sum renames
    the terms of another (`SumRenamed`).  That the parts are disjoint is where the
    code comes in: a leg has one bucket, one protocol and one counterpart, a chain
    belongs to one slug, and the two Solana ids of one network count once.
    `ReadsNeverContradict` is all four for every plan.
  * *An agent's page.*  `AgentPageKeepsBooks`: unless the window cut rows, the
    page's breakdowns and counts are those of SQL, and no day, peak or trailing
    window exceeds the whole.  Behind the realised result stands `Balanced`, an
    invariant of the books after each trade in chronological order: a lot on hand
    is of a token bought before, and what was paid for lots is the cost matched so
    far and the cost of the lots left.  `Consumption` shows it of the loop over the
    lots (whose rounded share of a split lot leaves the rest of its cost to what
    remains), `TradeBalances` of one trade, `BooksAreKept` of all, each by the
    first step that would break it.  Sales beyond the lots make the result smaller
    than the balance, never larger, and are counted in `unmatched`.

  Its constants are assumed typed as the code types them: the plans as in
  `chart-range.ts`, prices no less than zero and only for legs that are there
  (`presentLeg`, `legUsd`), raw amounts written in digits
  (`contract/src/event.ts:5`), a Solana id standing for one network whatever the
  protocol (`chains.ts:243`), and NULL no number and no cursor.

TLC checks the properties on the instances above; the inductive invariants were
model-checked before they were proved.

Only model-checked:

* Liveness (`EventuallyDecided` of both lanes, `EventuallySettled`,
  `EventuallyAnswered` of handshake and ingest, `StillRevokedIsPurged`), out of
  the prover's reach with everything about `ENABLED`.
* `RevokedIsPurged` and the unread value of `FullMeansProven` are violated, and
  there is nothing to prove.

The library's induction theorems take an operator as a parameter, which the
installed provers cannot instantiate.  Where a proof needs induction it takes a
least counterexample instead: from the well-foundedness of the naturals for that
one set (`Least`, the first hit inside a window, the first page that went wrong)
or, for finite sets, the smallest one (`Smallest`).  Sums are folds over finite
sets; `AddsUpToExists` shows that the recursion behind the fold has a solution,
`SumPick` and `SumRemove` unfold it, and every other lemma about sums rests on
those.  `RecentHits` is written as a function on positions, since the proofs
need its values; TLC evaluates `RecentHitsIsAFilter`, that it is the filter the
code applies, on every short row.  Reading page after page is a function of the
number of pages (`PagesRead`) for the same reason, and so are the loops over lots
and over trades (`ConsumeInventory`, `RealizedResult`).

## Known gaps

What the models show or the reading of the code made plain, beyond the two
violated runs.  None contradicts a line of the documentation; each is kept in
the model as the code does it.

* **Lost job.** With two workers, a close whose compare-and-swap matched nothing
  still deletes the job (`activities-verify-repo.ts:176`), which may be the one a
  `verify retry` has just inserted.  The activity stays queued without a job.
* **Stale verdicts after a requeue.** The swap on `queued` cannot tell two
  enqueueings apart; such a verdict is still sound (`StrikeProven`).
* **Purge by a stale list.** The sweep deletes by `agent_hash` alone
  (`worker/purge.ts:9`); consent given again in between loses its data.
* **Lift.** `quarantine lift` zeroes the counter and keeps the strike rows; the
  next strike of any shape quarantines again (`cli/quarantine.ts:22`).
* **Purge status.** `purged_at` is never cleared, so a second revocation is not
  listed as waiting (`cli/purge-status.ts:8`).
* **Dead token.** Two completions for one new agent both succeed; the earlier
  client keeps a token that no longer works (`routes/handshake.ts:155`).
* **Poison event.** `token.decimals` and `chainId` have no upper bound on the
  wire and a narrower column; such an event fails its batch every time
  (`schema.sql:92`).  Widths are not modelled in `Ingest`.
* **Merged promotion.** A promotion may put one event's token under the other
  event's amount, and a superseded row may keep a failure code.
* **Late batch.** A batch in flight stores events after its agent's revocation;
  the next sweep takes them unless the status was overwritten.
* **One-legged volume.** The aggregates add `usdIn ?? usdOut`, sums over rows add
  `usd_in` (`activity-pricing-repo.ts:200`); `AggregatesAgree` states the
  difference exactly.
* **Solana ids.** Two provider chain ids resolve to one slug, so one network may
  have two tokens of one address; an unknown slug means an unfiltered feed.
* **Snapshots.** The queries of one detail page run outside a transaction, each
  on its own snapshot; `ReadsAgree` is about one state.
* **Response cache.** A failed load deletes whatever entry its key then has; and
  `s-maxage` lets a proxy add another TTL to the one `AnsweredWithinTtl` bounds.
* **Two clocks.** A miss's retry time comes from the worker's clock and is
  compared with the database's.  `rate_limit_hits.updated_at` is the
  transaction's start; `LimiterAssumption` names the slack this needs.
* **Heartbeat.** `/healthz` looks at the newest beat of any worker, which hides a
  dead replica, and a beat says nothing about a loop that is stuck.
* **Stale exhaust.** A pass that exhausts its attempts late can close again what
  the operator has just requeued; the next requeue brings it back.

## Not modelled

* *Chain readers, feed:* decoding of receipts, logs and HTTP answers; what
  `evaluateVerification` compares is abstracted to the verdicts each truth
  allows.
* *Public reads:* the lookup by transaction hash, the verification counters and
  the parsing of parameters: one query or one parser each, with no state.
* *Chain registry and wire contract:* their tables are data; resolution and the
  refinements of the event schema are modelled.
* *Heartbeat and health:* one row of timestamps and the queries that read it; no
  other part depends on them.
* *Simulator* (test tooling), *web app* (rendering of the public API), *migrations,
  deployment, infrastructure* (scripts): the schema's constraints and the number
  of replicas enter the models, the rest does not.
* Everywhere: formatting, logging, wording, signatures and hashes (a proof passes
  or is refused), addresses and amounts beyond what a property tells apart.
