----------------------------- MODULE AgentPage -----------------------------
(***************************************************************************)
(* GET /api/agents/:name on one API process, for one agent: a gate says    *)
(* whether the agent is published, the page is built from its verified     *)
(* activities, and each goes through a TtlCache of its own.                *)
(*                                                                         *)
(* A cache keeps the promise of a load, not its value: a request that      *)
(* finds an entry shares the load, done or not.  The entry expires by the  *)
(* time its load was started, and a load that fails deletes whatever entry *)
(* the cache then holds under the key.  Meanwhile the agent is verified,   *)
(* quarantined, revoked and purged by others.                              *)
(***************************************************************************)
EXTENDS Naturals, Integers, FiniteSets

CONSTANTS
    Requests,      \* requests for the agent's page
    Nobody,        \* no request
    Ttl,           \* READ_CACHE_TTL_SEC
    MaxClock,      \* bound: ticks in a behaviour
    MaxFailures    \* bound: failed queries

VARIABLES
    clock,         \* the time
    active,        \* whether agents.status is 'active'
    verified,      \* whether the agent has a verified activity
    lastPublished, \* history: the last time the agent was published
    lastHidden,    \* history: the last time it was not
    entry,         \* per cache: the request whose load it holds, its expiry
    load,          \* per cache and request: the load it started
    request,       \* per request: how far it is, and whose loads it awaits
    failures       \* failed queries so far

publicationVars == <<active, verified>>
historyVars == <<lastPublished, lastHidden>>
cacheVars == <<entry, load>>
pageVars == <<clock, publicationVars, historyVars, cacheVars, request, failures>>

-----------------------------------------------------------------------------
(* Values *)

Caches == {"gate", "page"}

\* A load is started, has read the database, and settles: the gate rejects
\* when the agent is not published, the page resolves to null.
LoadValues == [step : {"none", "running", "read", "settled"},
               value : {"none", "found", "absent", "error"}, readAt : Nat]
NoLoad == [step |-> "none", value |-> "none", readAt |-> 0]
NoEntry == [owner |-> Nobody, expires |-> 0]

RequestSteps == {"idle", "gate", "passed", "page", "served", "not_found", "error"}
Answers == {"served", "not_found", "error"}
NoRequest == [step |-> "idle", began |-> 0, owner |-> Nobody]

ASSUME AgentPageAssumption ==
    /\ Nobody \notin Requests
    /\ Ttl \in Nat \ {0} /\ MaxClock \in Nat /\ MaxFailures \in Nat

-----------------------------------------------------------------------------
Published == active /\ verified

PageInit ==
    /\ clock = 0
    /\ active = TRUE /\ verified = FALSE
    /\ lastPublished = -Ttl - 1 /\ lastHidden = 0
    /\ entry = [c \in Caches |-> NoEntry]
    /\ load = [c \in Caches |-> [q \in Requests |-> NoLoad]]
    /\ request = [q \in Requests |-> NoRequest]
    /\ failures = 0

Remember ==
    /\ lastPublished' = IF Published' THEN clock' ELSE lastPublished
    /\ lastHidden' = IF Published' THEN lastHidden ELSE clock'

ClockTicks ==
    /\ clock < MaxClock
    /\ clock' = clock + 1
    /\ UNCHANGED <<publicationVars, cacheVars, request, failures>>
    /\ Remember

\* What the lanes and operators modelled elsewhere do to the agent: a first
\* verdict; quarantine or revocation, and their end; the purge of an agent
\* that is not active.
AgentChanges ==
    /\ \/ active /\ verified' = TRUE /\ UNCHANGED active
       \/ active' = ~active /\ UNCHANGED verified
       \/ ~active /\ verified' = FALSE /\ UNCHANGED active
    /\ UNCHANGED <<clock, cacheVars, request, failures>>
    /\ Remember

-----------------------------------------------------------------------------
(* TtlCache *)

Live(c) == entry[c].owner # Nobody /\ entry[c].expires > clock

\* TtlCache.get: a live entry is shared, another one replaced.
CacheGet(c, q) ==
    IF Live(c) THEN UNCHANGED cacheVars
    ELSE /\ entry' = [entry EXCEPT ![c] = [owner |-> q, expires |-> clock + Ttl]]
         /\ load' = [load EXCEPT ![c][q].step = "running"]

\* Whose load the request awaits after get.
Shared(c, q) == IF Live(c) THEN entry[c].owner ELSE q

\* The query of publishedAgent or of agentPageActivities, which does not look
\* at the agent's status.
ReadForLoad(c, q) ==
    LET found == IF c = "gate" THEN Published ELSE verified IN
    /\ load[c][q].step = "running"
    /\ load' = [load EXCEPT ![c][q] = [step |-> "read", readAt |-> clock,
                                       value |-> IF found THEN "found" ELSE "absent"]]
    /\ UNCHANGED <<clock, publicationVars, historyVars, entry, request, failures>>

LoadFails(c, q) ==
    /\ load[c][q].step = "running"
    /\ failures < MaxFailures
    /\ failures' = failures + 1
    /\ load' = [load EXCEPT ![c][q] = [step |-> "read", readAt |-> clock, value |-> "error"]]
    /\ UNCHANGED <<clock, publicationVars, historyVars, entry, request>>

Rejects(c, value) == value = "error" \/ (c = "gate" /\ value = "absent")

\* Wrong on purpose: the time to live is counted from the answer.
SettleLoadRestartsTtl(c, q) ==
    /\ load[c][q].step = "read"
    /\ load' = [load EXCEPT ![c][q].step = "settled"]
    /\ entry' = IF Rejects(c, load[c][q].value) THEN [entry EXCEPT ![c] = NoEntry]
                ELSE [entry EXCEPT ![c].expires = clock + Ttl]
    /\ UNCHANGED <<clock, publicationVars, historyVars, request, failures>>

\* The promise settles; on a rejection its starter deletes the key's entry.
SettleLoad(c, q) ==
    /\ load[c][q].step = "read"
    /\ load' = [load EXCEPT ![c][q].step = "settled"]
    /\ entry' = IF Rejects(c, load[c][q].value) THEN [entry EXCEPT ![c] = NoEntry] ELSE entry
    /\ UNCHANGED <<clock, publicationVars, historyVars, request, failures>>

-----------------------------------------------------------------------------
(* The handler *)

BeginRequest(q) ==
    /\ request[q].step = "idle"
    /\ CacheGet("gate", q)
    /\ request' = [request EXCEPT ![q] = [step |-> "gate", began |-> clock,
                                          owner |-> Shared("gate", q)]]
    /\ UNCHANGED <<clock, publicationVars, historyVars, failures>>

Awaited(c, q) == load[c][request[q].owner]
StepAfter(c, value) ==
    IF value = "error" THEN "error" ELSE IF value = "absent" THEN "not_found"
    ELSE IF c = "gate" THEN "passed" ELSE "served"

\* Wrong on purpose: a cached page is served whatever the gate says.
LeaveGateForCachedPage(q) ==
    /\ request[q].step = "gate"
    /\ Awaited("gate", q).step = "settled"
    /\ request' = [request EXCEPT ![q].step =
            IF Live("page") THEN "passed" ELSE StepAfter("gate", Awaited("gate", q).value)]
    /\ UNCHANGED <<clock, publicationVars, historyVars, cacheVars, failures>>

LeaveGate(q) ==
    /\ request[q].step = "gate"
    /\ Awaited("gate", q).step = "settled"
    /\ request' = [request EXCEPT ![q].step = StepAfter("gate", Awaited("gate", q).value)]
    /\ UNCHANGED <<clock, publicationVars, historyVars, cacheVars, failures>>

GetPage(q) ==
    /\ request[q].step = "passed"
    /\ CacheGet("page", q)
    /\ request' = [request EXCEPT ![q].step = "page", ![q].owner = Shared("page", q)]
    /\ UNCHANGED <<clock, publicationVars, historyVars, failures>>

LeavePage(q) ==
    /\ request[q].step = "page"
    /\ Awaited("page", q).step = "settled"
    /\ request' = [request EXCEPT ![q].step = StepAfter("page", Awaited("page", q).value)]
    /\ UNCHANGED <<clock, publicationVars, historyVars, cacheVars, failures>>

PageNext ==
    \/ ClockTicks \/ AgentChanges
    \/ \E q \in Requests :
        \/ BeginRequest(q) \/ LeaveGate(q) \/ GetPage(q) \/ LeavePage(q)
        \/ \E c \in Caches : ReadForLoad(c, q) \/ LoadFails(c, q) \/ SettleLoad(c, q)

PageSpec == PageInit /\ [][PageNext]_pageVars

-----------------------------------------------------------------------------
(* Properties *)

Answering(q) == request[q].step \notin Answers /\ request'[q].step \in Answers

\* Two caches, shared loads and concurrent requests never add up to more than
\* one TTL: a page is served only for an agent that was published, and denied
\* only for one that was not, at some time since a TTL before the request.
AnsweredWithinTtl ==
    [][\A q \in Requests : Answering(q) =>
        /\ request'[q].step = "served" => lastPublished > request[q].began - Ttl
        /\ request'[q].step = "not_found" => lastHidden > request[q].began - Ttl]_pageVars

\* The figures of a page were read less than a TTL before the request began.
PageIsFresh ==
    \A q \in Requests : request[q].step = "served" =>
        load["page"][request[q].owner].readAt > request[q].began - Ttl

=============================================================================
