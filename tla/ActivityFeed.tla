---------------------------- MODULE ActivityFeed ----------------------------
(***************************************************************************)
(* The activities table as it changes under the public read API, and a     *)
(* reader who pages through the activity feed meanwhile with the cursor    *)
(* each page hands out.                                                    *)
(*                                                                         *)
(* Rows arrive, are promoted, judged and priced by the other parts of the  *)
(* server: the steps that write are the ones of Ingest, VerificationLane   *)
(* and PricingLane, reduced to the columns a read looks at.                *)
(***************************************************************************)
EXTENDS RankingReads

CONSTANTS
    Reports,     \* the rows clients may report, as they are first stored
    PricesOf,    \* [report name -> the <<in, out>> prices a pass may publish]
    BlockTimes,  \* the block times a reader may report, None included
    FeedFilters, \* the filters the reader of the feed may choose
    PageSize,    \* PUBLIC_FEED_PAGE_SIZE, and the page of the rankings
    StartTime,   \* the clock at the start
    MaxRows,     \* bound: rows that arrive
    MaxTime      \* bound: the last tick of the clock

\* Clients report a time with every row and may report a second one.  Only a
\* leg that is there is priced, and no price is negative.  NULL is neither a
\* time nor a cursor.
ASSUME FeedAssumption ==
    /\ {MsTicks, DayTicks, PageSize} \subseteq Nat \ {0}
    /\ {StartTime, MaxRows, MaxTime} \subseteq Nat
    /\ BlockTimes \subseteq Int \cup {None}
    /\ \A report \in Reports :
        /\ {"name", "agent", "kind", "role", "protocol", "family", "chain", "from", "to",
            "in", "out", "paid", "got", "created", "confirmed", "status"} \subseteq DOMAIN report
        /\ {report.agent, report.chain, report.created} \subseteq Int
        /\ {report.in, report.out, report.confirmed} \subseteq Int \cup {None}
        /\ {report.paid, report.got} \subseteq Nat \cup {None}
        /\ report.family \in {"eip155", "solana"}
        /\ \A p \in PricesOf[report.name] :
            /\ {p[1], p[2]} \subseteq Nat \cup {None}
            /\ p[1] # None => report.in # None
            /\ p[2] # None => report.out # None
    /\ None \notin [eventTime : Int, id : Nat]

VARIABLES
    rows,           \* the activities table, by id
    firstVerified,  \* agents with first_verified_at
    aggregates,     \* daily_aggregates, by <<day, protocol, kind>>
    now,            \* the database clock
    walk,           \* the reader's walk through the feed
    steady          \* history: rows that stayed as they were since it began

vars == <<rows, firstVerified, aggregates, now, walk, steady>>

Table == {rows[i] : i \in DOMAIN rows}

-----------------------------------------------------------------------------
(* The feed *)

FeedFilter(r, filter) ==
    CASE filter = "any" -> TRUE
      [] filter = "pending" -> r.state \in {"none", "queued"}
      [] filter \notin {"any", "pending"} -> r.state = filter

OnFeed(r, filter) == IsVisible(r, firstVerified) /\ FeedFilter(r, filter)

FeedBefore(x, y) ==
    \/ EventTimeCursor(x) > EventTimeCursor(y)
    \/ EventTimeCursor(x) = EventTimeCursor(y) /\ x.id > y.id

\* Wrong on purpose: the row's own time, which the cursor's has lost.
AfterCursorUntruncated(r, cursor) ==
    \/ cursor = None
    \/ EventTime(r) < cursor.eventTime
    \/ EventTime(r) = cursor.eventTime /\ r.id < cursor.id

\* Row comparison (event time, id) < (cursor time, cursor id).
AfterCursor(r, cursor) ==
    \/ cursor = None
    \/ EventTimeCursor(r) < cursor.eventTime
    \/ EventTimeCursor(r) = cursor.eventTime /\ r.id < cursor.id

VisibleActivityPage(filter, cursor) ==
    Ranked({r \in Table : OnFeed(r, filter) /\ AfterCursor(r, cursor)}, FeedBefore)

EncodeCursor(r) == [eventTime |-> TruncMs(EventTime(r)), id |-> r.id]

\* What a client sees of a row: its chain, and its route if it is a bridge.
ToActivityRow(r) ==
    [id |-> r.id,
     chain |-> ResolveChain(r.protocol, r.family, r.chain),
     from |-> IF r.kind = "bridge" THEN BridgeLegSlug(r.protocol, r.from) ELSE None,
     to |-> IF r.kind = "bridge" THEN BridgeLegSlug(r.protocol, r.to) ELSE None]

-----------------------------------------------------------------------------
NoWalk == [filter |-> "any", cursor |-> None, seen |-> <<>>, open |-> FALSE]

Init ==
    /\ rows = <<>>
    /\ firstVerified = {}
    /\ aggregates = [k \in {} |-> [tx |-> 0, priced |-> 0]]
    /\ now = StartTime
    /\ walk = NoWalk
    /\ steady = {}

\* The history of an open walk keeps the rows the step left on the feed, in
\* their place; a finished walk is forgotten with the next step.
WalkGoesOn ==
    /\ walk' = IF walk.open THEN walk ELSE NoWalk
    /\ steady' = IF ~walk.open THEN {}
                 ELSE {i \in steady : /\ OnFeed(rows[i], walk.filter)'
                                      /\ EventTimeCursor(rows'[i]) = EventTimeCursor(rows[i])}

\* The columns of the INSERT: the server's own and the client's.
Stored(id, report) ==
    LET server == [id |-> id,
                   state |-> IF report.status = "confirmed" THEN "queued" ELSE "none",
                   block |-> None, verified |-> None, pricing |-> "pending",
                   usdIn |-> None, usdOut |-> None]
    IN [c \in DOMAIN server \cup DOMAIN report |->
            IF c \in DOMAIN server THEN server[c] ELSE report[c]]

Arrive(report) ==
    /\ Len(rows) < MaxRows
    /\ rows' = Append(rows, Stored(Len(rows) + 1, report))
    /\ UNCHANGED <<firstVerified, aggregates, now>>
    /\ WalkGoesOn

\* A later report settles a pending row, perhaps with a confirmation time.
Promote(i) ==
    /\ rows[i].status = "pending"
    /\ \E t \in {None, now} :
        rows' = [rows EXCEPT ![i].status = "confirmed", ![i].state = "queued",
                             ![i].confirmed = t]
    /\ UNCHANGED <<firstVerified, aggregates, now>>
    /\ WalkGoesOn

AggregateKey(r) == <<DayOf(TimeAnchor(r)), r.protocol, r.kind>>

AddTo(key, tx, priced) ==
    LET entry == IF key \in DOMAIN aggregates THEN aggregates[key] ELSE [tx |-> 0, priced |-> 0]
        sum == [tx |-> entry.tx + tx, priced |-> entry.priced + priced]
    IN aggregates' = [k \in DOMAIN aggregates \cup {key} |-> IF k = key THEN sum ELSE aggregates[k]]

FinalizeVerified(i, tier, blockTime) ==
    LET r == [rows[i] EXCEPT !.state = tier, !.block = blockTime, !.verified = now] IN
    /\ rows[i].state = "queued"
    /\ rows' = [rows EXCEPT ![i] = r]
    /\ firstVerified' = firstVerified \cup {r.agent}
    /\ AddTo(AggregateKey(r), 1, 0)
    /\ UNCHANGED now
    /\ WalkGoesOn

\* A refuted row leaves the feed; one that cannot be checked stays on it if
\* its agent has been verified before.
CloseUnverified(i, state) ==
    /\ rows[i].state = "queued"
    /\ rows' = [rows EXCEPT ![i].state = state,
                            ![i].verified = IF state = "mismatch" THEN now ELSE @]
    /\ UNCHANGED <<firstVerified, aggregates, now>>
    /\ WalkGoesOn

PricedVolume(r, usdIn, usdOut) ==
    IF DeploysCapital(r) THEN OrZero(Coalesce(usdIn, usdOut)) ELSE 0

\* A pass publishes what it could price, and closes a row with no price.
Price(i, usdIn, usdOut) ==
    LET priced == usdIn # None \/ usdOut # None IN
    /\ Verified(rows[i]) /\ rows[i].pricing = "pending"
    /\ rows' = [rows EXCEPT ![i].pricing = IF priced THEN "server_priced" ELSE "unpriced",
                            ![i].usdIn = usdIn, ![i].usdOut = usdOut]
    /\ IF priced THEN AddTo(AggregateKey(rows[i]), 0, PricedVolume(rows[i], usdIn, usdOut))
       ELSE UNCHANGED aggregates
    /\ UNCHANGED <<firstVerified, now>>
    /\ WalkGoesOn

Tick ==
    /\ now < MaxTime
    /\ now' = now + 1
    /\ UNCHANGED <<rows, firstVerified, aggregates>>
    /\ WalkGoesOn

\* One page: a row more than it shows tells whether another follows.
TakePage(filter, cursor, seen) ==
    LET page == PageOf(FirstRows(VisibleActivityPage(filter, cursor), PageSize + 1), PageSize)
        ids == [k \in DOMAIN page.items |-> ToActivityRow(page.items[k]).id]
    IN walk' = [filter |-> filter, seen |-> seen \o ids, open |-> page.more,
                cursor |-> IF page.more THEN EncodeCursor(Last(page.items)) ELSE None]

OpenFeed(filter) ==
    /\ ~walk.open
    /\ TakePage(filter, None, <<>>)
    /\ steady' = {i \in DOMAIN rows : OnFeed(rows[i], filter)}
    /\ UNCHANGED <<rows, firstVerified, aggregates, now>>

NextPage ==
    /\ walk.open
    /\ TakePage(walk.filter, walk.cursor, walk.seen)
    /\ UNCHANGED <<rows, firstVerified, aggregates, now, steady>>

Next ==
    \/ \E report \in Reports : Arrive(report)
    \/ \E i \in DOMAIN rows :
        \/ Promote(i)
        \/ \E tier \in {"verified_full", "verified_basic"}, t \in BlockTimes :
            FinalizeVerified(i, tier, t)
        \/ \E state \in {"mismatch", "none"} : CloseUnverified(i, state)
        \/ \E p \in PricesOf[rows[i].name] : Price(i, p[1], p[2])
    \/ Tick
    \/ \E filter \in FeedFilters : OpenFeed(filter)
    \/ NextPage

Spec == Init /\ [][Next]_vars

-----------------------------------------------------------------------------
(* Property *)

\* Paging through the feed while rows arrive, are judged, appear and go: a
\* row that stayed where it was the whole walk is shown by the end of it,
\* and never twice, although the cursor keeps less of the time than the
\* table does (read-repo.ts visibleActivityPage, activity.ts encodeCursor).
FeedWalkComplete ==
    \A i \in steady :
        LET shown == {k \in DOMAIN walk.seen : walk.seen[k] = i} IN
        /\ Cardinality(shown) <= 1
        /\ walk.open \/ Cardinality(shown) = 1

=============================================================================
