---------------------------- MODULE RankingReads ----------------------------
(***************************************************************************)
(* The rankings, the pricing coverage and the charts of the public API,    *)
(* each as the value one SQL query returns over the rows R of activities   *)
(* (and, where it reads them, the daily aggregates A: a function from      *)
(* <<day, protocol, kind>> to the rows counted and the dollars priced).    *)
(***************************************************************************)
EXTENDS ReadRows

-----------------------------------------------------------------------------
(* The agent leaderboard, page by page *)

LeaderRows(R, window, now) ==
    {r \in R : Verified(r) /\ DeploysCapital(r) /\ InOpenWindow(r, window, now)}

Leader(agent, Rows) ==
    LET own == {r \in Rows : r.agent = agent} IN
    [agent |-> agent,
     volume |-> UsdInSum(own),
     txCount |-> Cardinality(own),
     protocolCount |-> Cardinality({r.protocol : r \in own}),
     chainCount |-> Cardinality({<<r.family, r.chain>> : r \in own}),
     lastSeen |-> Max({TimeAnchor(r) : r \in own})]

LeaderBefore(x, y) ==
    \/ x.volume > y.volume
    \/ x.volume = y.volume /\ x.agent < y.agent

\* Wrong on purpose: the cursor forgets the tie break.
AfterLeaderVolume(x, cursor) == cursor = None \/ x.volume < cursor.volume

\* The WHERE clause of a later page, written out in the query.
AfterLeader(x, cursor) ==
    \/ cursor = None
    \/ x.volume < cursor.volume
    \/ x.volume = cursor.volume /\ x.agent > cursor.agent

\* What a cursor carries of the last row of its page.
EncodeAgentCursor(leader) == [volume |-> leader.volume, agent |-> leader.agent]

AgentLeaderboard(R, window, now, cursor) ==
    LET rows == LeaderRows(R, window, now)
        leaders == {Leader(a, rows) : a \in {r.agent : r \in rows}}
    IN Ranked({x \in leaders : AfterLeader(x, cursor)}, LeaderBefore)

CountLeaderboardAgents(R, window, now) ==
    Cardinality({r.agent : r \in LeaderRows(R, window, now)})

CountActiveAgents(R, window, now) ==
    Cardinality({r.agent : r \in {r \in R : Verified(r) /\ TimeAnchor(r) > now - window}})

\* LIMIT.
FirstRows(rows, n) == SubSeq(rows, 1, Min({n, Len(rows)}))

\* A route asks for one row more than it shows; if the query had that extra
\* row, the last row shown is the cursor of the next page.
PageOf(rows, size) == [items |-> FirstRows(rows, size), more |-> Len(rows) > size]

NothingRead == [items |-> <<>>, cursor |-> None, done |-> FALSE]

\* One more page, continued from the cursor of the one before.
ReadOn(query, cursorOf, size, read) ==
    LET page == PageOf(FirstRows(query[read.cursor], size + 1), size) IN
    IF read.done THEN read
    ELSE [items |-> read.items \o page.items, done |-> ~page.more,
          cursor |-> IF page.more THEN cursorOf[Last(page.items)] ELSE None]

\* What a reader has after n pages of a query.
PagesRead(query, cursorOf, size, n) ==
    LET read[m \in 0..n] == IF m = 0 THEN NothingRead
                            ELSE ReadOn(query, cursorOf, size, read[m - 1])
    IN read[n]

\* Every page of a query, read one after the other from the first.
PagesFrom(Query(_), CursorOf(_), size) ==
    LET all == Query(None)
        cursorOf == [row \in Range(all) |-> CursorOf(row)]
        query == [cursor \in {None} \cup Range(cursorOf) |-> Query(cursor)]
    IN PagesRead(query, cursorOf, size, Len(all) + 1).items

-----------------------------------------------------------------------------
(* Protocols and pricing coverage *)

ProtocolRanking(R, window, now) ==
    LET rows == {r \in R : Verified(r) /\ InOpenWindow(r, window, now)}
        Entry(p) ==
            LET own == {r \in rows : r.protocol = p} IN
            [protocol |-> p,
             volume |-> UsdInSum(Deploying(own)),
             txCount |-> Cardinality(own),
             chainCount |-> Cardinality({<<r.family, r.chain>> : r \in own}),
             swaps |-> Cardinality({r \in own : r.kind = "swap"}),
             bridges |-> Cardinality({r \in own : r.kind = "bridge"})]
    IN {Entry(p) : p \in {r.protocol : r \in rows}}

PricingCoverage(R, window, now) ==
    LET rows == LeaderRows(R, window, now) IN
    [priced |-> Cardinality({r \in rows : ContributesUsd(r)}),
     unpriced |-> Cardinality({r \in rows : ContributesNoUsd(r)}),
     pending |-> Cardinality({r \in rows : AwaitingAPrice(r)})]

-----------------------------------------------------------------------------
(* The daily aggregates and the charts *)

ProtocolTotals(A) ==
    {[protocol |-> p,
      volume |-> SumOver({k \in DOMAIN A : k[2] = p}, LAMBDA k : A[k].priced),
      txCount |-> SumOver({k \in DOMAIN A : k[2] = p}, LAMBDA k : A[k].tx)]
        : p \in {k[2] : k \in DOMAIN A}}

AggregateTotals(A, now) ==
    LET today == {k \in DOMAIN A : k[1] = DayOf(now)} IN
    [dailyVolume |-> SumOver(today, LAMBDA k : A[k].priced),
     totalVolume |-> SumOver(DOMAIN A, LAMBDA k : A[k].priced),
     dailyTx |-> SumOver(today, LAMBDA k : A[k].tx),
     totalTx |-> SumOver(DOMAIN A, LAMBDA k : A[k].tx)]

\* The start of the first of count buckets that end with the current one.
FirstStart(now, seconds, count) == Bucket(now, seconds) - seconds * (count - 1)

BucketStarts(first, last, seconds) == {t \in first..last : (t - first) % seconds = 0}

BucketsFromActivities(R, seconds, count, now) ==
    LET first == FirstStart(now, seconds, count)
        rows == {r \in R : Verified(r) /\ TimeAnchor(r) >= first}
        In(t) == {r \in rows : Bucket(TimeAnchor(r), seconds) = t}
    IN [t \in BucketStarts(first, Bucket(now, seconds), seconds) |->
            [volume |-> UsdInSum(Deploying(In(t))), txCount |-> Cardinality(In(t))]]

BucketsFromAggregates(A, days, now) ==
    LET first == IF days # None THEN FirstStart(now, DayTicks, days)
                 ELSE IF DOMAIN A = {} THEN DayOf(now) ELSE Min({k[1] : k \in DOMAIN A})
        On(t) == {k \in DOMAIN A : k[1] = t}
    IN [t \in BucketStarts(first, DayOf(now), DayTicks) |->
            [volume |-> SumOver(On(t), LAMBDA k : A[k].priced),
             txCount |-> SumOver(On(t), LAMBDA k : A[k].tx)]]

ChartBuckets(R, A, plan, now) ==
    IF plan.source = "activities"
    THEN BucketsFromActivities(R, plan.seconds, plan.count, now)
    ELSE BucketsFromAggregates(A, plan.count, now)

=============================================================================
