---------------------------- MODULE AgentMetrics ----------------------------
(***************************************************************************)
(* What an agent's page computes in the server from the agent's latest     *)
(* verified rows: volume by protocol and by chain, capital deployed per    *)
(* day, and the realised result of its swaps, matched first in, first out  *)
(* against the lots it acquired earlier.                                   *)
(***************************************************************************)
EXTENDS NetworkReads

CONSTANTS
    TrailingDays,   \* days of the trailing window
    SecondTicks     \* clock ticks in the second an activity's time is kept to

EarlierRow(x, y) ==
    TimeAnchor(x) < TimeAnchor(y) \/ (TimeAnchor(x) = TimeAnchor(y) /\ x.id < y.id)

\* The latest rowsMax verified rows of the agent, and whether that cut any.
AgentPageActivities(R, agent, rowsMax) ==
    LET own == {r \in R : Verified(r) /\ r.agent = agent}
        latest == {r \in own : Cardinality({x \in own : EarlierRow(r, x)}) < rowsMax}
    IN [activities |-> latest, truncated |-> Cardinality(latest) = rowsMax]

\* An activity carries its time in whole seconds, so chronology is coarser
\* than the order of the rows: within a second it is that of the ids.
ObservedAtSeconds(r) == TimeAnchor(r) \div SecondTicks

EarlierActivity(x, y) ==
    \/ ObservedAtSeconds(x) < ObservedAtSeconds(y)
    \/ ObservedAtSeconds(x) = ObservedAtSeconds(y) /\ x.id < y.id

Chronological(activities) == Ranked(activities, EarlierActivity)

PricedVolumeOf(r) ==
    IF DeploysCapital(r) THEN OrZero(ServerPricedUsdIn(r)) ELSE 0

\* The activities under the key each of them has.
Breakdown(keyOf) ==
    [k \in Range(keyOf) |->
        LET own == {r \in DOMAIN keyOf : keyOf[r] = k} IN
        [volume |-> SumOver(own, PricedVolumeOf), txCount |-> Cardinality(own)]]

ProtocolBreakdown(activities) == Breakdown([r \in activities |-> r.protocol])

ChainBreakdown(activities) == Breakdown([r \in activities |-> <<r.family, r.chain>>])

-----------------------------------------------------------------------------
(* The trailing window *)

TrailingStart(now) == FirstStart(now, DayTicks, TrailingDays)

CapitalDeployed(activities, now) ==
    LET Deployed(day) == {r \in activities : DayOf(TimeAnchor(r)) = day}
        daily == [day \in BucketStarts(TrailingStart(now), DayOf(now), DayTicks) |->
                    SumOver(Deployed(day), PricedVolumeOf)]
    IN [daily |-> daily, peak |-> Max({0} \cup {daily[d] : d \in DOMAIN daily})]

UsdContributionOf(r) ==
    CASE ~DeploysCapital(r) -> "outside_usd_figures"
      [] DeploysCapital(r) /\ r.pricing = "pending" -> "awaiting_a_price"
      [] DeploysCapital(r) /\ r.pricing # "pending" ->
            IF \/ r.pricing = "unpriced"
               \/ r.pricing = "server_priced" /\ r.usdIn = None
               \/ r.pricing = "server_priced" /\ r.out # None /\ r.usdOut = None
            THEN "contributes_no_usd" ELSE "contributes_usd"

ContributionCount(activities, kind) ==
    Cardinality({r \in activities : UsdContributionOf(r) = kind})

InTrailingWindow(activities, now) ==
    {r \in activities : TimeAnchor(r) >= TrailingStart(now)}

-----------------------------------------------------------------------------
(* The realised result *)

TokenOf(r, address) == <<r.family, r.chain, address>>

\* Swaps with both legs executed and priced are trades.
IsTrade(r) ==
    /\ r.kind = "swap"
    /\ r.pricing = "server_priced"
    /\ None \notin {r.in, r.out, r.paid, r.got, r.usdIn, r.usdOut}

\* Wrong on purpose: a split lot keeps its whole cost.
ConsumeLotKeepsCost(taken, lot) ==
    LET quantity == Min({lot.quantity, taken.wanted - taken.quantity})
        cost == (lot.cost * quantity) \div lot.quantity
        rest == [lot EXCEPT !.quantity = @ - quantity]
    IN [taken EXCEPT !.quantity = @ + quantity,
                     !.cost = @ + cost,
                     !.lots = IF quantity > 0 THEN @ + 1 ELSE @,
                     !.left = IF rest.quantity = 0 THEN @ ELSE Append(@, rest)]

\* Consume the oldest lots, splitting the last one: what it cost is shared in
\* proportion and rounded down, and the lot keeps the rest.
ConsumeLot(taken, lot) ==
    LET quantity == Min({lot.quantity, taken.wanted - taken.quantity})
        cost == IF quantity = lot.quantity THEN lot.cost
                ELSE (lot.cost * quantity) \div lot.quantity
        rest == [quantity |-> lot.quantity - quantity, cost |-> lot.cost - cost]
    IN [taken EXCEPT !.quantity = @ + quantity,
                     !.cost = @ + cost,
                     !.lots = IF quantity > 0 THEN @ + 1 ELSE @,
                     !.left = IF rest.quantity = 0 THEN @ ELSE Append(@, rest)]

NothingTaken(wanted) ==
    [wanted |-> wanted, quantity |-> 0, cost |-> 0, lots |-> 0, left |-> <<>>]

ConsumeInventory(lots, wanted) ==
    LET taken[k \in 0..Len(lots)] ==
            IF k = 0 THEN NothingTaken(wanted) ELSE ConsumeLot(taken[k - 1], lots[k])
    IN taken[Len(lots)]

NoBooks ==
    [inventory |-> [token \in {} |-> <<>>], realized |-> 0, closed |-> 0, winning |-> 0,
     unmatched |-> 0]

LotsFor(inventory, token) == IF token \in DOMAIN inventory THEN inventory[token] ELSE <<>>

WithLots(inventory, token, lots) ==
    [t \in DOMAIN inventory \cup {token} |-> IF t = token THEN lots ELSE inventory[t]]

Traded(books, r) ==
    LET sold == TokenOf(r, r.in)
        bought == TokenOf(r, r.out)
        taken == ConsumeInventory(LotsFor(books.inventory, sold), r.paid)
        after == WithLots(books.inventory, sold, taken.left)
        result == (r.usdIn * taken.quantity) \div r.paid - taken.cost
        closes == taken.lots > 0
    IN [inventory |-> IF r.got = 0 THEN after
                      ELSE WithLots(after, bought, Append(LotsFor(after, bought),
                                                          [quantity |-> r.got, cost |-> r.usdOut])),
        realized |-> IF closes THEN books.realized + result ELSE books.realized,
        closed |-> IF closes THEN books.closed + 1 ELSE books.closed,
        winning |-> IF closes /\ result > 0 THEN books.winning + 1 ELSE books.winning,
        unmatched |-> IF taken.quantity < r.paid THEN books.unmatched + 1 ELSE books.unmatched]

\* What is no trade is passed over.
RealizedResult(activities) ==
    LET trades == Chronological({r \in activities : IsTrade(r)})
        books[k \in 0..Len(trades)] ==
            IF k = 0 THEN NoBooks ELSE Traded(books[k - 1], trades[k])
    IN books[Len(trades)]

\* Out of the round trips closed: no rate under the minimum, or of none.
WinRate(result, minimumRoundTrips) ==
    IF result.closed < minimumRoundTrips \/ result.closed = 0 THEN None
    ELSE <<result.winning, result.closed>>

\* The page: what the route answers from the rows it read.
ToAgentPage(window, now, minimumRoundTrips) ==
    LET rows == window.activities IN
    [capital |-> CapitalDeployed(rows, now),
     realized |-> RealizedResult(rows),
     winRate |-> WinRate(RealizedResult(rows), minimumRoundTrips),
     protocols |-> ProtocolBreakdown(rows),
     chains |-> ChainBreakdown(rows),
     count |-> Cardinality(rows),
     count30d |-> Cardinality(InTrailingWindow(rows, now)),
     unpriced |-> ContributionCount(rows, "contributes_no_usd"),
     unpriced30d |-> ContributionCount(InTrailingWindow(rows, now), "contributes_no_usd"),
     priced |-> ContributionCount(rows, "contributes_usd"),
     awaiting |-> ContributionCount(rows, "awaiting_a_price"),
     truncated |-> window.truncated]

=============================================================================
