------------------------------ MODULE ReadRows ------------------------------
(***************************************************************************)
(* One row of the activities table as the public reads see it: which rows  *)
(* are visible, verified, volume bearing and priced, where a row stands in *)
(* time, and the chain its ids resolve to.                                 *)
(*                                                                         *)
(* A row is a record: id, agent, kind, role, protocol, family, chain,      *)
(* from, to (bridge chain ids), in, out (token addresses), paid, got (the  *)
(* executed amounts), created, confirmed (client times), status, state     *)
(* (verification), block, verified (server times), pricing, usdIn and      *)
(* usdOut (server prices).  None stands for SQL NULL.  Names whose order   *)
(* a query uses (agents, protocols, addresses) are numbers.                *)
(***************************************************************************)
EXTENDS Integers, FiniteSets, Sequences, FiniteSetsExt, SequencesExt

CONSTANTS
    None,          \* SQL NULL
    EvmChains,     \* [chain id -> slug] of the registered eip155 chains
    SolanaChains,  \* [<<protocol, chain id>> -> slug] of the solana ones
    MsTicks,       \* clock ticks in the millisecond a cursor keeps
    DayTicks       \* clock ticks in a UTC day

Coalesce(x, y) == IF x # None THEN x ELSE y

OrZero(x) == Coalesce(x, 0)

SumOver(S, Value(_)) == SumFunction([r \in S |-> Value(r)])

\* The members of S, each at its place.
Placed(S, place) == [i \in 1..Cardinality(S) |-> CHOOSE x \in S : place[x] = i - 1]

\* The members of S in the order an ORDER BY without ties gives them.
Ranked(S, Before(_, _)) == Placed(S, [x \in S |-> Cardinality({y \in S : Before(y, x)})])

Verified(r) == r.state \in {"verified_full", "verified_basic"}

DeploysCapital(r) == r.role \in {"swap", "bridge_deposit", "lend_deposit", "predict_buy"}

Deploying(R) == {r \in R : DeploysCapital(r)}

IsVisible(r, firstVerified) ==
    Verified(r) \/ (r.state \in {"none", "queued"} /\ r.agent \in firstVerified)

-----------------------------------------------------------------------------
(* Time *)

SettledAt(r) == Coalesce(r.confirmed, r.block)

TimeAnchor(r) == Coalesce(SettledAt(r), r.verified)

EventTime(r) == Coalesce(SettledAt(r), r.created)

TruncMs(t) == (t \div MsTicks) * MsTicks

\* The time the feed sorts by: what a JavaScript Date can carry back.
EventTimeCursor(r) == TruncMs(EventTime(r))

Bucket(t, seconds) == (t \div seconds) * seconds

DayOf(t) == Bucket(t, DayTicks)

\* A chart range: buckets read from the activities, or days of aggregates.
RangeWindow(plan) ==
    IF plan.source = "activities" THEN plan.seconds * plan.count
    ELSE IF plan.count = None THEN None ELSE DayTicks * plan.count

\* The rankings leave the edge of the window out, the networks take it in.
InOpenWindow(r, window, now) == window = None \/ TimeAnchor(r) > now - window

InClosedWindow(r, window, now) == window = None \/ TimeAnchor(r) >= now - window

-----------------------------------------------------------------------------
(* Prices *)

ServerPricedUsdIn(r) == IF r.pricing = "server_priced" THEN r.usdIn ELSE None

ServerPricedUsdOut(r) == IF r.pricing = "server_priced" THEN r.usdOut ELSE None

UsdInSum(R) == SumOver(R, LAMBDA r : OrZero(ServerPricedUsdIn(r)))

ContributesUsd(r) ==
    /\ r.pricing = "server_priced"
    /\ r.usdIn # None
    /\ r.out = None \/ r.usdOut # None

ContributesNoUsd(r) ==
    \/ r.pricing = "unpriced"
    \/ r.pricing = "server_priced" /\ ~ContributesUsd(r)

AwaitingAPrice(r) == r.pricing = "pending"

-----------------------------------------------------------------------------
(* Chains *)

ResolveChain(protocol, family, chain) ==
    IF family = "eip155"
    THEN IF chain \in DOMAIN EvmChains THEN EvmChains[chain] ELSE None
    ELSE IF <<protocol, chain>> \in DOMAIN SolanaChains
         THEN SolanaChains[<<protocol, chain>>] ELSE None

\* A bridge names a chain by its id alone: the provider's own id comes first.
ResolveBridgeChain(protocol, chain) ==
    Coalesce(ResolveChain(protocol, "solana", chain),
             ResolveChain(protocol, "eip155", chain))

BridgeLegSlug(protocol, chain) ==
    IF chain = None THEN None ELSE ResolveBridgeChain(protocol, chain)

ChainKeysForSlug(slug) ==
    {<<"eip155", c>> : c \in {c \in DOMAIN EvmChains : EvmChains[c] = slug}}
        \cup {<<"solana", k[2]>> : k \in {k \in DOMAIN SolanaChains : SolanaChains[k] = slug}}

=============================================================================
