---------------------------- MODULE NetworkReads ----------------------------
(***************************************************************************)
(* The network list, the network pages and the bridge routes.  A network   *)
(* is a slug of the registry with every chain id that goes by it; a bridge *)
(* leg belongs to the networks its own protocol's chain ids resolve to.    *)
(***************************************************************************)
EXTENDS TokenReads

\* The chains are collected in registry order, the eip155 ones first: the
\* first chain of a slug gives the network its family.
RegistryNetworks ==
    LET Slugs(chains) == {chains[c] : c \in DOMAIN chains}
        Network(slug) ==
            [slug |-> slug,
             family |-> IF slug \in Slugs(EvmChains) THEN "eip155" ELSE "solana",
             chains |-> {key[2] : key \in ChainKeysForSlug(slug)}]
    IN {Network(s) : s \in Slugs(EvmChains) \cup Slugs(SolanaChains)}

ObservationWindowOf(plan) ==
    LET w == BucketWindowOf(plan) IN
    [window |-> RangeWindow(plan), seconds |-> w.seconds, count |-> w.count]

OnNetwork(r, network) == r.family = network.family /\ r.chain \in network.chains

NetworkRows(R, network) == {r \in R : Verified(r) /\ OnNetwork(r, network)}

InNetworkWindow(R, network, window, now) ==
    {r \in NetworkRows(R, network) : InClosedWindow(r, window, now)}

-----------------------------------------------------------------------------
(* The list: one query for the totals of every network, one for bridges *)

\* Only networks with a verified row have an entry; the window filters the
\* sums, not the rows, so lastSeen looks at all of them.
NetworkTotalsBySlug(R, networks, window, now) ==
    LET chainMap == UNION {{[slug |-> n.slug, family |-> n.family, chain |-> c] : c \in n.chains}
                            : n \in networks}
        Joined(slug) == {r \in R : /\ Verified(r)
                                   /\ \E m \in chainMap : /\ m.slug = slug
                                                          /\ m.family = r.family
                                                          /\ m.chain = r.chain}
        In(slug) == {r \in Joined(slug) : InClosedWindow(r, window, now)}
    IN [slug \in {s \in {n.slug : n \in networks} : Joined(s) # {}} |->
            [volume |-> UsdInSum(Deploying(In(slug))),
             txCount |-> Cardinality(In(slug)),
             lastSeen |-> Max({TimeAnchor(r) : r \in Joined(slug)})]]

Deposits(R) == {r \in R : r.role = "bridge_deposit"}

\* Bridge rows by protocol and pair of chain ids, with the rows of each.
BridgeLegGroups(R, window, now) ==
    LET legs == {r \in R : Verified(r) /\ r.kind = "bridge" /\ InClosedWindow(r, window, now)}
        Key(r) == <<r.protocol, r.from, r.to>>
    IN {[protocol |-> k[1], from |-> k[2], to |-> k[3],
         legCount |-> Cardinality({r \in legs : Key(r) = k}),
         volume |-> UsdInSum(Deposits({r \in legs : Key(r) = k}))]
            : k \in {Key(r) : r \in legs}}

LegCount(groups) == SumOver(groups, LAMBDA g : g.legCount)

FromSlug(g) == BridgeLegSlug(g.protocol, g.from)

ToSlug(g) == BridgeLegSlug(g.protocol, g.to)

BridgeCounts(groups, slug) ==
    [bridgeIn |-> LegCount({g \in groups : ToSlug(g) = slug}),
     bridgeOut |-> LegCount({g \in groups : FromSlug(g) = slug})]

NetworkList(R, plan, now) ==
    LET window == RangeWindow(plan)
        totals == NetworkTotalsBySlug(R, RegistryNetworks, window, now)
        groups == BridgeLegGroups(R, window, now)
        unused == [volume |-> 0, txCount |-> 0, lastSeen |-> None]
        Total(n) == IF n.slug \in DOMAIN totals THEN totals[n.slug] ELSE unused
        Bridges(n) == BridgeCounts(groups, n.slug)
    IN {[slug |-> n.slug, volume |-> Total(n).volume, txCount |-> Total(n).txCount,
         lastSeen |-> Total(n).lastSeen,
         bridgeIn |-> Bridges(n).bridgeIn, bridgeOut |-> Bridges(n).bridgeOut]
            : n \in RegistryNetworks}

-----------------------------------------------------------------------------
(* The routes, folded in the server from groups whose both ends resolve *)

RouteGroups(R, window, now) ==
    {g \in BridgeLegGroups(R, window, now) : FromSlug(g) # None /\ ToSlug(g) # None}

RoutesOf(groups) ==
    LET Own(route) == {g \in groups : <<FromSlug(g), ToSlug(g)>> = route} IN
    {[from |-> route[1], to |-> route[2], legCount |-> LegCount(Own(route)),
      volume |-> SumOver(Own(route), LAMBDA g : g.volume)]
        : route \in {<<FromSlug(g), ToSlug(g)>> : g \in groups}}

BridgeRoutes(R, plan, now) == RoutesOf(RouteGroups(R, RangeWindow(plan), now))

-----------------------------------------------------------------------------
(* One network's page *)

\* The groups a first query found become the join of a second one.
RouteMapTouching(slug, groups) ==
    {[protocol |-> g.protocol, from |-> g.from, to |-> g.to,
      fromSlug |-> FromSlug(g), toSlug |-> ToSlug(g)]
        : g \in {g \in groups : /\ FromSlug(g) # None /\ ToSlug(g) # None
                                /\ slug \in {FromSlug(g), ToSlug(g)}}}

BridgeRouteTotals(R, routeMap, window, now) ==
    LET legs == {r \in R : Verified(r) /\ r.kind = "bridge" /\ InClosedWindow(r, window, now)}
        Joined(m) == {r \in legs : <<r.protocol, r.from, r.to>> = <<m.protocol, m.from, m.to>>}
        Own(route) == UNION {Joined(m) : m \in {m \in routeMap :
                                                    <<m.fromSlug, m.toSlug>> = route}}
        routes == {<<m.fromSlug, m.toSlug>> : m \in {m \in routeMap : Joined(m) # {}}}
    IN {[from |-> route[1], to |-> route[2], legCount |-> Cardinality(Own(route)),
         volume |-> UsdInSum(Deposits(Own(route)))]
            : route \in routes}

NetworkScalars(R, network, window, now) ==
    LET rows == InNetworkWindow(R, network, window, now) IN
    [volume |-> UsdInSum(Deploying(rows)), txCount |-> Cardinality(rows)]

NetworkProtocols(R, network, window, now) ==
    LET rows == InNetworkWindow(R, network, window, now)
        Own(p) == {r \in rows : r.protocol = p}
    IN {[protocol |-> p, volume |-> UsdInSum(Deploying(Own(p))),
         txCount |-> Cardinality(Own(p))] : p \in {r.protocol : r \in rows}}

\* COUNT(*) over the legs: a row that pays and receives one token counts
\* twice here, and once in the token listing.
NetworkTokens(R, network, window, now) ==
    LET rows == {r \in InNetworkWindow(R, network, window, now) : DeploysCapital(r)}
        legs == {Leg(r, "in", r.in, ServerPricedUsdIn(r)) : r \in {r \in rows : r.in # None}}
                \cup {Leg(r, "out", r.out, ServerPricedUsdOut(r))
                        : r \in {r \in rows : r.out # None}}
        Own(address) == {l \in legs : l.address = address}
    IN {[address |-> a, volume |-> LegUsd(Own(a)), txCount |-> Cardinality(Own(a))]
            : a \in {l.address : l \in legs}}

NetworkSeries(R, network, w, now) ==
    LET scoped == NetworkRows(R, network)
        first == IF w.count # None THEN FirstStart(now, w.seconds, w.count)
                 ELSE IF scoped = {} THEN Bucket(now, w.seconds)
                 ELSE Min({Bucket(TimeAnchor(r), w.seconds) : r \in scoped})
        In(t) == {r \in scoped : Bucket(TimeAnchor(r), w.seconds) = t}
    IN [t \in BucketStarts(first, Bucket(now, w.seconds), w.seconds) |->
            [volume |-> UsdInSum(Deploying(In(t))), txCount |-> Cardinality(In(t))]]

\* The page asks its questions one by one: when rows change between them
\* the answers are of different tables.
NetworkDetail(R, network, plan, now) ==
    LET w == ObservationWindowOf(plan)
        scalars == NetworkScalars(R, network, w.window, now)
        groups == BridgeLegGroups(R, w.window, now)
    IN [volume |-> scalars.volume, txCount |-> scalars.txCount,
        protocols |-> NetworkProtocols(R, network, w.window, now),
        tokens |-> NetworkTokens(R, network, w.window, now),
        routes |-> BridgeRouteTotals(R, RouteMapTouching(network.slug, groups), w.window, now),
        series |-> NetworkSeries(R, network, w, now)]

=============================================================================
