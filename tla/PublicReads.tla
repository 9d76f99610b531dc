---------------------------- MODULE PublicReads ----------------------------
(***************************************************************************)
(* The public read API over the changing table of ActivityFeed: every read *)
(* but the walk through the feed answers from one state of the table, and  *)
(* the answers are compared with each other.                               *)
(***************************************************************************)
EXTENDS ActivityFeed, AgentMetrics

CONSTANTS
    Plans,       \* the chart ranges
    RowsMax      \* AGENT_PAGE_ROWS_MAX

\* A range counts buckets, or days of which there may be no end.  Whatever
\* the protocol, a solana chain id stands for one network.  NULL is no number
\* and no cursor of a ranking.
ASSUME ReadsAssumption ==
    /\ {TrailingDays, SecondTicks, RowsMax} \subseteq Nat \ {0}
    /\ \A plan \in Plans :
        IF plan.source = "activities" THEN {plan.seconds, plan.count} \subseteq Nat \ {0}
        ELSE plan.count \in Nat \ {0} \/ plan.count = None
    /\ \A k, l \in DOMAIN SolanaChains : k[2] = l[2] => SolanaChains[k] = SolanaChains[l]
    /\ None \notin Int /\ None \notin [volume : Int, agent : Int]
    /\ None \notin [volume : Int, txCount : Int,
                    key : [family : {"eip155", "solana"}, chain : Int, address : Int]]

-----------------------------------------------------------------------------
(* Properties *)

\* What the other reads answer does not depend on the walk: it is looked at in
\* the states without one, which have every table.

\* The pages of the leaderboard and of the token listing, each continued from
\* the last row of the one before, are the ranking: no row is lost or shown
\* twice where rows tie, whatever the page size (read-repo.ts
\* agentLeaderboard, token-repo.ts tokenListing).
RankingPagesAreTheRanking ==
    walk = NoWalk =>
        \A plan \in Plans, size \in 1..PageSize :
            LET Leaders(cursor) == AgentLeaderboard(Table, RangeWindow(plan), now, cursor)
                Tokens(cursor) == TokenListing(Table, plan, now, cursor)
            IN /\ PagesFrom(Leaders, EncodeAgentCursor, size) = Leaders(None)
               /\ PagesFrom(Tokens, EncodeTokenCursor, size) = Tokens(None)

\* The volume of rows priced on their received leg alone: the aggregates
\* count it, the sums over the rows do not.
OutOnlyVolume(R) ==
    SumOver({r \in R : /\ DeploysCapital(r) /\ r.pricing = "server_priced"
                       /\ r.usdIn = None},
            LAMBDA r : OrZero(r.usdOut))

VolumeOf(S) == SumOver(S, LAMBDA x : x.volume)

TxOf(S) == SumOver(S, LAMBDA x : x.txCount)

\* The aggregates, kept up step by step at two commits of each row, are the
\* sums over the rows: rows counted once, on the day they settled, and volume
\* beyond the rows' own only for rows priced on one leg.
AggregatesAgree ==
    LET total == AggregateTotals(aggregates, now)
        seen == {r \in Table : Verified(r)}
        days == BucketsFromAggregates(aggregates, None, now)
    IN /\ total.totalTx = Cardinality(seen)
       /\ \A t \in DOMAIN days :
            LET on == {r \in seen : DayOf(TimeAnchor(r)) = t} IN
            /\ days[t].txCount = Cardinality(on)
            /\ days[t].volume = UsdInSum(Deploying(on)) + OutOnlyVolume(on)
       /\ \A p \in ProtocolRanking(Table, None, now) :
            \E q \in ProtocolTotals(aggregates) :
                /\ q.protocol = p.protocol /\ q.txCount = p.txCount
                /\ q.volume >= p.volume

\* The leaderboard, the protocol ranking, the coverage and the chart of one
\* window share their volume out over the same rows.
RankingsAgree(plan) ==
    LET window == RangeWindow(plan)
        leaders == AgentLeaderboard(Table, window, now, None)
        ranking == ProtocolRanking(Table, window, now)
        coverage == PricingCoverage(Table, window, now)
    IN /\ VolumeOf(ranking) = SumOver(DOMAIN leaders, LAMBDA k : leaders[k].volume)
       /\ coverage.priced + coverage.unpriced + coverage.pending
            = SumOver(DOMAIN leaders, LAMBDA k : leaders[k].txCount)
       /\ CountLeaderboardAgents(Table, window, now) = Len(leaders)
       /\ window # None => Len(leaders) <= CountActiveAgents(Table, window, now)
       /\ plan.source = "activities" =>
            LET chart == ChartBuckets(Table, aggregates, plan, now) IN
            SumOver(DOMAIN chart, LAMBDA t : chart[t].volume) <= VolumeOf(ranking)

\* A token's page and its entry in the listing tell the same story, and the
\* panels of the page add up to its totals; its bars leave out only what lies
\* in the future.
TokensAgree(plan) ==
    LET listing == TokenListing(Table, plan, now, None) IN
    \A k \in DOMAIN listing :
        LET key == listing[k].key
            detail == TokenDetail(Table, plan, key, now)
            slug == ChainSlugOf(key.family, key.chain, listing[k].protocols)
            spark == SparklineSeries(Table, key, now, 2)
        IN /\ detail.volume = listing[k].volume
           /\ detail.txCount = listing[k].txCount
           /\ detail.agentCount = listing[k].agentCount
           /\ VolumeOf(detail.protocols) = detail.volume
           /\ TxOf(detail.protocols) = detail.txCount
           /\ TxOf(detail.pairs) = detail.txCount
           /\ SumOver(DOMAIN detail.series, LAMBDA t : detail.series[t].txCount)
                <= detail.txCount
           /\ plan.count = None =>
                SumOver(DOMAIN spark, LAMBDA t : spark[t].volume) <= detail.volume
           /\ slug # None => key \in TokenKeysOn(Table, slug, key.address)

\* The network list, the network pages, the route list and the feed's own
\* rendering of a bridge row count the same rows.
NetworksAgree(plan) ==
    LET routes == BridgeRoutes(Table, plan, now)
        bridges == {ToActivityRow(r) : r \in {r \in Table : /\ Verified(r)
                        /\ r.kind = "bridge" /\ InClosedWindow(r, RangeWindow(plan), now)}}
        Touching(slug) == {x \in routes : slug \in {x.from, x.to}}
    IN \A stat \in NetworkList(Table, plan, now) :
        LET network == CHOOSE n \in RegistryNetworks : n.slug = stat.slug
            detail == NetworkDetail(Table, network, plan, now)
        IN /\ stat.volume = detail.volume
           /\ stat.txCount = detail.txCount
           /\ VolumeOf(detail.protocols) = detail.volume
           /\ TxOf(detail.protocols) = detail.txCount
           /\ plan.count = None =>
                SumOver(DOMAIN detail.series, LAMBDA t : detail.series[t].txCount)
                    <= detail.txCount
           /\ VolumeOf(detail.tokens) >= detail.volume
           /\ detail.routes = Touching(stat.slug)
           /\ stat.bridgeOut = Cardinality({b \in bridges : b.from = stat.slug})
           /\ stat.bridgeIn = Cardinality({b \in bridges : b.to = stat.slug})

\* Reads that answer from one state of the table never contradict each other
\* where they count the same thing.
ReadsAgree ==
    walk = NoWalk =>
        /\ AggregatesAgree
        /\ \A plan \in Plans : RankingsAgree(plan) /\ TokensAgree(plan) /\ NetworksAgree(plan)

\* What an agent's page computes row by row in the server is what SQL says of
\* the same rows, unless the rows were too many; and what it shows of a part
\* of the rows or days is no more than the whole.
FiguresAgree(page, own) ==
    LET coverage == PricingCoverage(own, None, now)
        deployed == UsdInSum(Deploying(own))
        daily == page.capital.daily
    IN /\ page.truncated \/
            /\ SumOver(DOMAIN page.protocols, LAMBDA p : page.protocols[p].volume) = deployed
            /\ SumOver(DOMAIN page.chains, LAMBDA c : page.chains[c].volume) = deployed
            /\ page.priced = coverage.priced
            /\ page.unpriced = coverage.unpriced
            /\ page.awaiting = coverage.pending
       /\ SumOver(DOMAIN daily, LAMBDA d : daily[d]) <= deployed
       /\ page.capital.peak <= deployed
       /\ page.count30d <= page.count /\ page.unpriced30d <= page.unpriced

CostOf(lots) == SumOver(DOMAIN lots, LAMBDA i : lots[i].cost)

\* What the lots on hand have cost.
OnHand(inventory) == SumOver(DOMAIN inventory, LAMBDA t : CostOf(inventory[t]))

Sales(trades) == {r \in trades : r.paid > 0}

Buys(trades) == {r \in trades : r.got > 0}

\* The sales of a token bought before.
Backed(trades) ==
    {r \in Sales(trades) : \E b \in Buys(trades) :
        EarlierActivity(b, r) /\ TokenOf(b, b.out) = TokenOf(r, r.in)}

\* The lots keep books: every dollar paid for a lot is either matched by a sale
\* or still on hand, so the result realised is no more than what the sales of
\* tokens bought before brought, less what is no longer held, and just that
\* where no such sale went beyond the lots.
BooksBalance(result, trades) ==
    LET sold == SumOver(Backed(trades), LAMBDA r : r.usdIn)
        bought == SumOver(Buys(trades), LAMBDA r : r.usdOut)
        held == OnHand(result.inventory)
        unbacked == Cardinality(Sales(trades) \ Backed(trades))
    IN /\ result.realized <= sold - (bought - held)
       /\ result.unmatched >= unbacked
       /\ result.unmatched = unbacked => result.realized = sold - (bought - held)
       /\ result.winning <= result.closed

\* An agent's page agrees with what SQL says of the same agent, and the lots
\* behind its realised result keep books (agents.ts, core/agent-metrics).
AgentPageAgrees ==
    walk = NoWalk =>
        \A a \in {r.agent : r \in Table} :
            LET window == AgentPageActivities(Table, a, RowsMax)
                page == ToAgentPage(window, now, 1)
            IN /\ FiguresAgree(page, {r \in Table : Verified(r) /\ r.agent = a})
               /\ BooksBalance(page.realized, {r \in window.activities : IsTrade(r)})

=============================================================================
