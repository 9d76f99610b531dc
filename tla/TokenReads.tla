----------------------------- MODULE TokenReads -----------------------------
(***************************************************************************)
(* The token listing and the token pages.  A token is a (family, chain id, *)
(* address): its legs are the paid and received sides of verified capital  *)
(* deploying rows, so one row may give a token two legs and counts once.   *)
(***************************************************************************)
EXTENDS RankingReads

\* The range of a token read, as buckets: whole days for the aggregate plans.
BucketWindowOf(plan) ==
    IF plan.source = "activities" THEN [seconds |-> plan.seconds, count |-> plan.count]
    ELSE [seconds |-> DayTicks, count |-> plan.count]

InBuckets(r, w, now) ==
    w.count = None \/ TimeAnchor(r) >= FirstStart(now, w.seconds, w.count)

Leg(r, side, address, usd) ==
    [id |-> r.id, side |-> side, family |-> r.family, chain |-> r.chain,
     address |-> address, protocol |-> r.protocol, agent |-> r.agent,
     usd |-> OrZero(usd), at |-> TimeAnchor(r)]

\* UNION ALL of the paid and the received sides.
TokenLegs(R, w, now) ==
    LET rows == {r \in R : Verified(r) /\ DeploysCapital(r) /\ InBuckets(r, w, now)} IN
    {Leg(r, "in", r.in, ServerPricedUsdIn(r)) : r \in {r \in rows : r.in # None}}
        \cup {Leg(r, "out", r.out, ServerPricedUsdOut(r)) : r \in {r \in rows : r.out # None}}

LegUsd(legs) == SumOver(legs, LAMBDA l : l.usd)

\* Wrong on purpose: COUNT(*) where the query counts distinct activities.
LegRowsCountLegs(legs) == Cardinality(legs)

LegRows(legs) == Cardinality({l.id : l \in legs})

TokenKeyOf(l) == [family |-> l.family, chain |-> l.chain, address |-> l.address]

LegsOf(legs, key) == {l \in legs : TokenKeyOf(l) = key}

TokenStat(legs, key) ==
    LET own == LegsOf(legs, key) IN
    [key |-> key, volume |-> LegUsd(own), txCount |-> LegRows(own),
     agentCount |-> Cardinality({l.agent : l \in own}),
     protocols |-> {l.protocol : l \in own},
     lastSeen |-> Max({l.at : l \in own})]

\* eip155 sorts before solana.
FamilyBefore(f, g) == f = "eip155" /\ g = "solana"

TokenBefore(x, y) ==
    \/ x.volume > y.volume
    \/ /\ x.volume = y.volume
       /\ \/ x.txCount > y.txCount
          \/ /\ x.txCount = y.txCount
             /\ \/ x.key.address < y.key.address
                \/ /\ x.key.address = y.key.address
                   /\ \/ FamilyBefore(x.key.family, y.key.family)
                      \/ x.key.family = y.key.family /\ x.key.chain < y.key.chain

\* The WHERE clause of a later page, one disjunct per prefix of the order.
AfterToken(x, cursor) ==
    \/ cursor = None
    \/ x.volume < cursor.volume
    \/ x.volume = cursor.volume /\ x.txCount < cursor.txCount
    \/ /\ x.volume = cursor.volume
       /\ x.txCount = cursor.txCount
       /\ x.key.address > cursor.key.address
    \/ /\ x.volume = cursor.volume
       /\ x.txCount = cursor.txCount
       /\ x.key.address = cursor.key.address
       /\ FamilyBefore(cursor.key.family, x.key.family)
    \/ /\ x.volume = cursor.volume
       /\ x.txCount = cursor.txCount
       /\ x.key.address = cursor.key.address
       /\ x.key.family = cursor.key.family
       /\ x.key.chain > cursor.key.chain

EncodeTokenCursor(stat) ==
    [volume |-> stat.volume, txCount |-> stat.txCount, key |-> stat.key]

TokenListing(R, plan, now, cursor) ==
    LET legs == TokenLegs(R, BucketWindowOf(plan), now)
        tokens == {TokenStat(legs, key) : key \in {TokenKeyOf(l) : l \in legs}}
    IN Ranked({x \in tokens : AfterToken(x, cursor)}, TokenBefore)

\* The bars of one token: buckets in which it has no leg are zero.
Series(legs, first, now, seconds) ==
    [t \in BucketStarts(first, Bucket(now, seconds), seconds) |->
        LET in == {l \in legs : Bucket(l.at, seconds) = t} IN
        [volume |-> LegUsd(in), txCount |-> LegRows(in)]]

SparklineSeries(R, key, now, count) ==
    LET w == [seconds |-> DayTicks, count |-> count] IN
    Series(LegsOf(TokenLegs(R, w, now), key), FirstStart(now, DayTicks, count), now, DayTicks)

-----------------------------------------------------------------------------
(* One token's page *)

\* The first protocol whose chain the registry knows names the chain.
ChainSlugOf(family, chain, protocols) ==
    LET slugs == {ResolveChain(p, family, chain) : p \in protocols} \ {None} IN
    IF slugs = {} THEN None ELSE CHOOSE s \in slugs : TRUE

TokenChainCandidates(R, address) ==
    LET legs == {l \in TokenLegs(R, [seconds |-> DayTicks, count |-> None], 0) :
                    l.address = address}
    IN {[key |-> key, protocols |-> {l.protocol : l \in LegsOf(legs, key)}]
            : key \in {TokenKeyOf(l) : l \in legs}}

\* The candidates come in no order and the route takes the first that fits.
TokenKeysOn(R, slug, address) ==
    {c.key : c \in {c \in TokenChainCandidates(R, address) :
                        ChainSlugOf(c.key.family, c.key.chain, c.protocols) = slug}}

TokenProtocols(R, w, key, now) ==
    LET legs == LegsOf(TokenLegs(R, w, now), key) IN
    {LET own == {l \in legs : l.protocol = p} IN
     [protocol |-> p, volume |-> LegUsd(own), txCount |-> LegRows(own)]
        : p \in {l.protocol : l \in legs}}

TokenPairs(R, w, key, now) ==
    LET rows == {r \in R : /\ Verified(r) /\ DeploysCapital(r)
                           /\ r.family = key.family /\ r.chain = key.chain
                           /\ key.address \in {r.in, r.out}
                           /\ InBuckets(r, w, now)}
    IN {[in |-> p[1], out |-> p[2],
         txCount |-> Cardinality({r \in rows : <<r.in, r.out>> = p})]
            : p \in {<<r.in, r.out>> : r \in rows}}

TokenSeries(R, w, key, now) ==
    LET legs == LegsOf(TokenLegs(R, w, now), key)
        first == IF w.count # None THEN FirstStart(now, w.seconds, w.count)
                 ELSE IF legs = {} THEN Bucket(now, w.seconds)
                 ELSE Min({Bucket(l.at, w.seconds) : l \in legs})
    IN Series(legs, first, now, w.seconds)

TokenDetail(R, plan, key, now) ==
    LET w == BucketWindowOf(plan)
        own == LegsOf(TokenLegs(R, w, now), key)
    IN [volume |-> LegUsd(own), txCount |-> LegRows(own),
        agentCount |-> Cardinality({l.agent : l \in own}),
        protocols |-> TokenProtocols(R, w, key, now),
        pairs |-> TokenPairs(R, w, key, now),
        series |-> TokenSeries(R, w, key, now)]

=============================================================================
