---------------------------- MODULE PricingLane ----------------------------
(***************************************************************************)
(* The pricing lane: worker passes lease verified activities that have no  *)
(* price yet, look the price of each leg up in the hourly cache or ask the *)
(* feed, and publish the activity's dollar amounts with its share of the   *)
(* daily volume.  An action is one committed statement or transaction; a   *)
(* pass reads the cache, awaits the feed, writes the cache token by token  *)
(* and settles its rows one by one, with other passes and the operator in  *)
(* between.                                                                *)
(*                                                                         *)
(* A dollar amount is the price of the leg's token (amounts are one unit)  *)
(* and 0 stands for SQL NULL.  Time is "due" (the lease or the delay of a  *)
(* row is over) and "recent" (a cached miss too young to be asked again).  *)
(***************************************************************************)
EXTENDS Naturals, FiniteSets

CONSTANTS
    Activities,      \* activity ids
    Workers,         \* pricing worker processes
    Tokens,          \* tokens the registry maps to a coin of the feed
    Hours,           \* price hours
    Shapes,          \* what an activity may be: a subset of Activity
    Garbled,         \* tokens whose amounts legUsd cannot convert
    Quotes,          \* per token: prices the feed may quote that pass the gate
    BadPoints,       \* prices it may quote that the gate refuses
    Batch,           \* PRICING_BATCH_MAX
    MaxAttempts,     \* PRICING_MAX_ATTEMPTS
    MaxRequeues,     \* bound: operator requeues of one activity
    MaxFailures      \* bound: database errors and crashes

VARIABLES
    shape,           \* legs, hour, settlement time and role of an activity
    verified,        \* activities the verification lane has finalised
    pricing_state,   \* activities.pricing_state
    attempts,        \* activities.pricing_attempts
    due,             \* those whose pricing_next_attempt_at is null or past
    usd,             \* activities.usd_in_priced, usd_out_priced
    booked,          \* what daily_aggregates.volume_usd_priced got for each
    cached,          \* token_prices.price_usd per token and hour
    recent,          \* keys cached without a price within PRICE_MISS_RETRY_HOURS
    pass,            \* per worker: the pass it is running
    unanswered,      \* history: keys the feed never answered without a price
    requeues,        \* operator requeues so far
    failures         \* database errors and crashes so far

rowVars == <<pricing_state, attempts, due, usd, booked>>
cacheVars == <<cached, recent>>
boundVars == <<requeues, failures>>
vars == <<shape, verified, rowVars, cacheVars, pass, unanswered, boundVars>>

-----------------------------------------------------------------------------
(* Values *)

Keys == Tokens \X Hours
AnyPoint == UNION {Quotes[t] : t \in Tokens} \cup BadPoints \cup {0}
Points == [t \in Tokens |-> Quotes[t] \cup BadPoints \cup {0}]
Legs == Tokens \cup {"absent", "unmappable"}
\* A leg is a token, has no amount ("absent") or no coin key ("unmappable").
Activity == [in : Legs, out : Legs, hour : Hours, dated : BOOLEAN, capital : BOOLEAN]
PricingStates == {"pending", "server_priced", "unpriced"}
Stages == {"idle", "bucket", "fetch", "upsert", "rows", "contain"}
LegStates == {"absent", "unmappable", "priced", "missed", "unknown"}

\* A pass: the rows it leased and has not settled, the attempts it read with
\* them, and for the hour at hand the prices in memory, the misses whose
\* retry time it knows, the tokens left to write and the points it was given.
Passes == [stage : Stages, rows : SUBSET Activities,
           tries : [Activities -> Nat], hour : Hours,
           price : [Tokens -> Nat], missed : SUBSET Tokens,
           todo : SUBSET Tokens, point : [Tokens -> Nat],
           failing : SUBSET Activities]

NoPrices == [t \in Tokens |-> 0]
NoPass == [stage |-> "idle", rows |-> {}, tries |-> [a \in Activities |-> 0],
           hour |-> CHOOSE h \in Hours : TRUE, price |-> NoPrices,
           missed |-> {}, todo |-> {}, point |-> NoPrices, failing |-> {}]

ASSUME PricingAssumption ==
    /\ Shapes \subseteq Activity /\ Hours # {}
    /\ Garbled \subseteq Tokens
    /\ Quotes \in [Tokens -> SUBSET (Nat \ {0})] /\ BadPoints \subseteq Nat
    /\ "absent" \notin Tokens /\ "unmappable" \notin Tokens
    /\ Batch \in Nat \ {0} /\ MaxAttempts \in Nat \ {0}
    /\ MaxRequeues \in Nat /\ MaxFailures \in Nat

-----------------------------------------------------------------------------
(* Deciding a row: pure, from its legs and what its pass knows *)

IsPriceAcceptable(t, p) == p \in Quotes[t]

\* legPricingOf: a price, a miss with a known retry time, or neither.
LegPricing(p, leg) ==
    CASE leg \notin Tokens -> leg
      [] leg \in Tokens /\ p.price[leg] # 0 ->
            IF leg \in Garbled THEN "unknown" ELSE "priced"
      [] leg \in Tokens /\ p.price[leg] = 0 ->
            IF leg \in p.missed THEN "missed" ELSE "unknown"

\* Wrong on purpose: a leg the feed never answered for counts as a miss.
AnyMissIsDefinitive(s) == s \in {"missed", "unknown"}

IsDefinitiveMiss(s) == s = "missed"

PricedSiblingSettlesEveryMiss(legs) ==
    /\ "priced" \in legs
    /\ \A s \in legs : s \in {"missed", "unknown"} => IsDefinitiveMiss(s)

PricingRetryOutcome(tries) ==
    IF tries + 1 >= MaxAttempts THEN "attempts_exhausted" ELSE "reschedule"

DecidePricingOutcome(legs, dated, tries) ==
    CASE legs = {"absent"} -> "nothing_to_price"
      [] legs # {"absent"} /\ ~dated -> "no_settlement_time"
      [] legs # {"absent"} /\ dated /\ "unmappable" \in legs -> "unmappable"
      [] OTHER ->
            IF legs \cap {"missed", "unknown"} # {} /\ ~PricedSiblingSettlesEveryMiss(legs)
            THEN PricingRetryOutcome(tries) ELSE "priced"

LegsOf(p, a) == {LegPricing(p, shape[a].in), LegPricing(p, shape[a].out)}
OutcomeOf(p, a) == DecidePricingOutcome(LegsOf(p, a), shape[a].dated, p.tries[a])

LegUsd(p, leg) == IF LegPricing(p, leg) = "priced" THEN p.price[leg] ELSE 0

\* What a published activity adds to the volume: usdIn ?? usdOut ?? 0.
PricedVolume(a, u) ==
    IF ~shape[a].capital THEN 0 ELSE IF u.in # 0 THEN u.in ELSE u.out

-----------------------------------------------------------------------------
Init ==
    /\ shape \in [Activities -> Shapes]
    /\ verified = {}
    /\ pricing_state = [a \in Activities |-> "pending"]
    /\ attempts = [a \in Activities |-> 0]
    /\ due = Activities
    /\ usd = [a \in Activities |-> [in |-> 0, out |-> 0]]
    /\ booked = [a \in Activities |-> 0]
    /\ cached = [k \in Keys |-> 0]
    /\ recent = {}
    /\ pass = [w \in Workers |-> NoPass]
    /\ unanswered = Keys
    /\ requeues = [a \in Activities |-> 0]
    /\ failures = 0

\* The verification lane finalises an activity.
FinalizeVerification(a) ==
    /\ verified' = verified \cup {a}
    /\ UNCHANGED <<shape, rowVars, cacheVars, pass, unanswered, boundVars>>

FallsDue(a) ==
    /\ a \notin due
    /\ pricing_state[a] = "pending"
    /\ due' = due \cup {a}
    /\ UNCHANGED <<shape, verified, pricing_state, attempts, usd, booked, cacheVars,
                   pass, unanswered, boundVars>>

MissAges(k) ==
    /\ k \in recent
    /\ recent' = recent \ {k}
    /\ UNCHANGED <<shape, verified, rowVars, cached, pass, unanswered, boundVars>>

-----------------------------------------------------------------------------
(* A pass, up to its prices *)

\* UPDATE ... SET pricing_next_attempt_at = now() + lease ... SKIP LOCKED:
\* the lease counts no attempt.
ClaimDuePricingRows(w, K) ==
    /\ pass[w].stage = "idle"
    /\ K # {} /\ K \subseteq due \cap verified
    /\ \A a \in K : pricing_state[a] = "pending"
    /\ Cardinality(K) <= Batch
    /\ due' = due \ K
    /\ pass' = [pass EXCEPT ![w] = [NoPass EXCEPT !.stage = "bucket", !.rows = K,
                    !.tries = [a \in Activities |-> IF a \in K THEN attempts[a] ELSE 0]]]
    /\ UNCHANGED <<shape, verified, pricing_state, attempts, usd, booked, cacheVars,
                   unanswered, boundVars>>

BucketTokens(w, h) ==
    {t \in Tokens : \E a \in pass[w].rows : shape[a].hour = h /\ t \in {shape[a].in, shape[a].out}}

\* readTokenPrices for the next hour: hits, recent misses, and the rest.
ReadTokenPrices(w, h) ==
    LET wanted == BucketTokens(w, h)
        late == {t \in wanted : cached[<<t, h>>] = 0 /\ <<t, h>> \in recent}
        ask == {t \in wanted : cached[<<t, h>>] = 0 /\ <<t, h>> \notin recent}
    IN
    /\ pass[w].stage = "bucket"
    /\ \E a \in pass[w].rows : shape[a].hour = h
    /\ pass' = [pass EXCEPT ![w].hour = h, ![w].missed = late, ![w].todo = ask,
                    ![w].price = [t \in Tokens |-> IF t \in wanted THEN cached[<<t, h>>] ELSE 0],
                    ![w].stage = IF ask = {} THEN "rows" ELSE "fetch"]
    /\ UNCHANGED <<shape, verified, rowVars, cacheVars, unanswered, boundVars>>

\* The feed does not answer: its legs stay unknown, nothing is cached.
FeedUnavailable(w) ==
    /\ pass[w].stage = "fetch"
    /\ pass' = [pass EXCEPT ![w].todo = {}, ![w].stage = "rows"]
    /\ UNCHANGED <<shape, verified, rowVars, cacheVars, unanswered, boundVars>>

\* The feed answers: for every token asked a point or none; the gate decides
\* which points count.
FetchPoints(w, points) ==
    LET p == pass[w] IN
    /\ p.stage = "fetch"
    /\ \A t \in Tokens : points[t] \in (IF t \in p.todo THEN Points[t] ELSE {0})
    /\ pass' = [pass EXCEPT ![w].stage = "upsert",
            ![w].point = [t \in Tokens |-> IF IsPriceAcceptable(t, points[t]) THEN points[t] ELSE 0]]
    /\ unanswered' = unanswered \
            {<<t, p.hour>> : t \in {x \in p.todo : points[x] \notin Quotes[x]}}
    /\ UNCHANGED <<shape, verified, rowVars, cacheVars, boundVars>>

\* Wrong on purpose: ON CONFLICT overwrites a price already there.
StorePriceAlways(k, p) ==
    /\ cached' = [cached EXCEPT ![k] = p]
    /\ recent' = IF p = 0 THEN recent \cup {k} ELSE recent \ {k}

\* INSERT ... ON CONFLICT DO UPDATE ... WHERE token_prices.price_usd IS NULL
StorePrice(k, p) ==
    IF cached[k] # 0 THEN UNCHANGED cacheVars
    ELSE /\ cached' = [cached EXCEPT ![k] = p]
         /\ recent' = IF p = 0 THEN recent \cup {k} ELSE recent \ {k}

\* One token of the answer: the pass goes on with the point it was given,
\* whatever the cache has kept.
UpsertTokenPrice(w, t) ==
    LET p == pass[w]
        price == p.point[t]
    IN
    /\ p.stage = "upsert"
    /\ t \in p.todo
    /\ StorePrice(<<t, p.hour>>, price)
    /\ pass' = [pass EXCEPT ![w] =
            [p EXCEPT !.todo = @ \ {t}, !.price[t] = price, !.point[t] = 0,
                      !.missed = IF price = 0 THEN @ \cup {t} ELSE @,
                      !.stage = IF p.todo = {t} THEN "rows" ELSE "upsert"]]
    /\ UNCHANGED <<shape, verified, rowVars, unanswered, boundVars>>

-----------------------------------------------------------------------------
(* A pass, settling its rows *)

RowReady(w, a) ==
    /\ pass[w].stage = "rows"
    /\ a \in pass[w].rows
    /\ shape[a].hour = pass[w].hour

\* The row leaves the pass; after the last of its hour comes the next hour.
RowDone(w, a) ==
    LET left == pass[w].rows \ {a} IN
    pass' = [pass EXCEPT ![w] =
        IF left = {} THEN NoPass
        ELSE [pass[w] EXCEPT !.rows = left, !.failing = {},
                 !.stage = IF \E b \in left : shape[b].hour = pass[w].hour THEN "rows" ELSE "bucket"]]

\* Wrong on purpose: publishes without comparing the state.
PublishBlindly(a, u) ==
    /\ pricing_state' = [pricing_state EXCEPT ![a] = "server_priced"]
    /\ usd' = [usd EXCEPT ![a] = u]
    /\ booked' = [booked EXCEPT ![a] = @ + PricedVolume(a, u)]
    /\ due' = due \ {a}
    /\ UNCHANGED attempts

\* Wrong on purpose: the volume is added whether or not the swap matched.
PublishAddsAnyway(a, u) ==
    LET won == pricing_state[a] = "pending" IN
    /\ pricing_state' = [pricing_state EXCEPT ![a] = IF won THEN "server_priced" ELSE @]
    /\ usd' = [usd EXCEPT ![a] = IF won THEN u ELSE @]
    /\ booked' = [booked EXCEPT ![a] = @ + PricedVolume(a, u)]
    /\ due' = IF won THEN due \ {a} ELSE due
    /\ UNCHANGED attempts

\* One transaction: the compare-and-swap on 'pending' and, if it matched,
\* the volume of the day.
Publish(a, u) ==
    IF pricing_state[a] # "pending" THEN UNCHANGED rowVars
    ELSE /\ pricing_state' = [pricing_state EXCEPT ![a] = "server_priced"]
         /\ usd' = [usd EXCEPT ![a] = u]
         /\ booked' = [booked EXCEPT ![a] = @ + PricedVolume(a, u)]
         /\ due' = due \ {a}
         /\ UNCHANGED attempts

\* Wrong on purpose: the retry is not counted as an attempt.
RescheduleUncounted(a) ==
    IF pricing_state[a] # "pending" THEN UNCHANGED rowVars
    ELSE /\ due' = due \ {a}
         /\ UNCHANGED <<pricing_state, attempts, usd, booked>>

ReschedulePricing(a) ==
    IF pricing_state[a] # "pending" THEN UNCHANGED rowVars
    ELSE /\ attempts' = [attempts EXCEPT ![a] = @ + 1]
         /\ due' = due \ {a}
         /\ UNCHANGED <<pricing_state, usd, booked>>

\* Terminal 'unpriced': exhaustPricing counts the attempt, abandonPricing not.
CloseUnpriced(a, attempt) ==
    IF pricing_state[a] # "pending" THEN UNCHANGED rowVars
    ELSE /\ pricing_state' = [pricing_state EXCEPT ![a] = "unpriced"]
         /\ attempts' = [attempts EXCEPT ![a] = @ + attempt]
         /\ due' = due \ {a}
         /\ UNCHANGED <<usd, booked>>

ApplyOutcome(a, outcome, u) ==
    CASE outcome = "priced"             -> Publish(a, u)
      [] outcome = "reschedule"         -> ReschedulePricing(a)
      [] outcome = "attempts_exhausted" -> CloseUnpriced(a, 1)
      [] OTHER                          -> CloseUnpriced(a, 0)

UsdOf(w, a) == [in |-> LegUsd(pass[w], shape[a].in), out |-> LegUsd(pass[w], shape[a].out)]

PriceRow(w, a) ==
    /\ RowReady(w, a)
    /\ ApplyOutcome(a, OutcomeOf(pass[w], a), UsdOf(w, a))
    /\ RowDone(w, a)
    /\ UNCHANGED <<shape, verified, cacheVars, unanswered, boundVars>>

\* The write threw: before anything was committed, or with the answer to the
\* commit lost.  containRowFailure takes over.
PriceRowThrows(w, a, committed) ==
    /\ RowReady(w, a)
    /\ failures < MaxFailures
    /\ failures' = failures + 1
    /\ IF committed THEN ApplyOutcome(a, OutcomeOf(pass[w], a), UsdOf(w, a))
                    ELSE UNCHANGED rowVars
    /\ pass' = [pass EXCEPT ![w].stage = "contain", ![w].failing = {a}]
    /\ UNCHANGED <<shape, verified, cacheVars, unanswered, requeues>>

\* A retry is recorded for the row, whatever its outcome was.
ContainRowFailure(w, a) ==
    /\ pass[w].stage = "contain"
    /\ a \in pass[w].failing
    /\ ApplyOutcome(a, PricingRetryOutcome(pass[w].tries[a]), UsdOf(w, a))
    /\ RowDone(w, a)
    /\ UNCHANGED <<shape, verified, cacheVars, unanswered, boundVars>>

\* The failure that threw keeps the retry from being written too: the lease
\* brings the row back.
ContainFails(w, a) ==
    /\ pass[w].stage = "contain"
    /\ a \in pass[w].failing
    /\ RowDone(w, a)
    /\ UNCHANGED <<shape, verified, rowVars, cacheVars, unanswered, boundVars>>

\* A failed read or write of the cache ends the pass, and so does the death
\* of the process: the rows left stay leased.
PassFails(w) ==
    /\ pass[w].stage # "idle"
    /\ failures < MaxFailures
    /\ failures' = failures + 1
    /\ pass' = [pass EXCEPT ![w] = NoPass]
    /\ UNCHANGED <<shape, verified, rowVars, cacheVars, unanswered, requeues>>

\* The operator's 'pricing requeue'.
RequeueUnpriced ==
    LET K == {a \in Activities : pricing_state[a] = "unpriced"} IN
    /\ K # {}
    /\ \A a \in K : requeues[a] < MaxRequeues
    /\ pricing_state' = [a \in Activities |-> IF a \in K THEN "pending" ELSE pricing_state[a]]
    /\ attempts' = [a \in Activities |-> IF a \in K THEN 0 ELSE attempts[a]]
    /\ due' = due \cup K
    /\ requeues' = [a \in Activities |-> IF a \in K THEN requeues[a] + 1 ELSE requeues[a]]
    /\ UNCHANGED <<shape, verified, usd, booked, cacheVars, pass, unanswered, failures>>

Next ==
    \/ RequeueUnpriced
    \/ \E k \in Keys : MissAges(k)
    \/ \E a \in Activities : FinalizeVerification(a) \/ FallsDue(a)
    \/ \E w \in Workers :
        \/ \E K \in SUBSET Activities : ClaimDuePricingRows(w, K)
        \/ \E h \in Hours : ReadTokenPrices(w, h)
        \/ FeedUnavailable(w) \/ PassFails(w)
        \/ \E points \in [Tokens -> AnyPoint] : FetchPoints(w, points)
        \/ \E t \in Tokens : UpsertTokenPrice(w, t)
        \/ \E a \in Activities :
            \/ PriceRow(w, a) \/ ContainRowFailure(w, a) \/ ContainFails(w, a)
            \/ \E committed \in BOOLEAN : PriceRowThrows(w, a, committed)

\* One step of a running pass that does not need the database to fail.
PassStep(w) ==
    \/ \E h \in Hours : ReadTokenPrices(w, h)
    \/ FeedUnavailable(w)
    \/ \E points \in [Tokens -> AnyPoint] : FetchPoints(w, points)
    \/ \E t \in Tokens : UpsertTokenPrice(w, t)
    \/ \E a \in Activities : PriceRow(w, a) \/ ContainRowFailure(w, a)

\* setInterval ticks for ever, a running pass ends (every request has a time
\* limit), and leases and delays run out.
Fairness ==
    /\ \A w \in Workers :
        /\ WF_vars(\E K \in SUBSET Activities : ClaimDuePricingRows(w, K))
        /\ WF_vars(PassStep(w))
    /\ \A a \in Activities : WF_vars(FallsDue(a))

Spec == Init /\ [][Next]_vars /\ Fairness

-----------------------------------------------------------------------------
(* Properties *)

\* Every variable has its type.
TypeOK ==
    /\ shape \in [Activities -> Shapes]
    /\ verified \subseteq Activities
    /\ pricing_state \in [Activities -> PricingStates]
    /\ attempts \in [Activities -> Nat]
    /\ due \subseteq Activities
    /\ usd \in [Activities -> [in : Nat, out : Nat]]
    /\ booked \in [Activities -> Nat]
    /\ cached \in [Keys -> Nat]
    /\ \A k \in recent : k \in Keys /\ cached[k] = 0
    /\ pass \in [Workers -> Passes]
    /\ unanswered \subseteq Keys
    /\ requeues \in [Activities -> Nat]
    /\ failures \in Nat

\* The daily volume holds each activity's published amount exactly once, and
\* nothing for an activity that is not published: overlapping passes, lost
\* commit answers and requeues neither add it twice nor lose it.
VolumeIsPublished ==
    \A a \in Activities :
        booked[a] = IF pricing_state[a] = "server_priced" THEN PricedVolume(a, usd[a]) ELSE 0

LegSettled(a, leg, u) ==
    leg \in Tokens /\ u = 0 => <<leg, shape[a].hour>> \notin unanswered

\* An activity is published without the price of a leg only when the feed has
\* answered that it has none for that token and hour: an outage of the feed
\* never settles a leg.
OutageSettlesNothing ==
    \A a \in Activities : pricing_state[a] = "server_priced" =>
        /\ shape[a].dated
        /\ LegSettled(a, shape[a].in, usd[a].in) /\ LegSettled(a, shape[a].out, usd[a].out)

\* The migration's words: hits are permanent.  A cached price is never
\* replaced nor lost, although two passes may fetch the same key at once.
HitsArePermanent == [][\A k \in Keys : cached[k] # 0 => cached'[k] = cached[k]]_cached

\* What was published stands: no late pass, retry or requeue changes the
\* state or the amounts of a priced activity.
PublishedStands ==
    [][\A a \in Activities : pricing_state[a] = "server_priced" =>
        pricing_state'[a] = "server_priced" /\ usd'[a] = usd[a]]_rowVars

\* Every verified activity is settled again and again: it never waits for a
\* price for ever, whatever the feed answers.
EventuallySettled ==
    \A a \in Activities : a \in verified ~> pricing_state[a] # "pending"

=============================================================================
